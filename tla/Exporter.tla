------------------------------ MODULE Exporter ------------------------------
(***************************************************************************)
(* What depends on the version of the installed broker, and how the charm  *)
(* asks for it: the Prometheus plugin and its port for scrape relations,   *)
(* the management plugin, and which of its two configuration files the     *)
(* broker reads (rabbitmq.config up to 3.6, rabbitmq.conf since).          *)
(*                                                                         *)
(* One unit, one hook at a time.  Packages, plugins and files change at    *)
(* once, ports and relation settings when the hook ends well.  A hook      *)
(* that fails is run again before any other, unless the operator gives it  *)
(* up.  Scope: restarts are permitted, so no hook is deferred.             *)
(***************************************************************************)
EXTENDS Integers

CONSTANTS
    Rels,        \* the scrape relations that may be made
    MaxChanges,  \* bound on changes of options, relations and packages, and on failures
    None

VARIABLES
    pkg,        \* [ver, status]: what dpkg says of rabbitmq-server
    json,       \* caching_cmp_pkgrevno's answer in this process, None before it is asked
    plugins,    \* enabled_plugins
    files,      \* which of rabbitmq.config and rabbitmq.conf are there
    ports,      \* the ports Juju has opened
    told,       \* the relations whose settings have the port
    made,       \* the scrape relations there are
    management, \* the option management_plugin
    due,        \* the hooks to run
    retry,      \* the hook that has failed, or None
    job,        \* [hook, stage, ports, told]: the running hook and what its end publishes
    version,    \* the version the status shows
    excused,    \* "exporter": one of several relations was removed; "file": see HookFails
    changes

vars == <<pkg, json, plugins, files, ports, told, made, management, due, retry, job,
          version, excused, changes>>

-----------------------------------------------------------------------------
(* Versions, in order: 2n for an upstream version, 2n + 1 for a package of *)
(* it, which has a revision.                                               *)

v3 == 0
v37 == 2
v380 == 4
v382 == 6
Packaged == {1, 3, 5, 7}

version_compare(a, b) == IF a > b THEN 1 ELSE IF a = b THEN 0 ELSE -1
upstream_version(v) == 2 * (v \div 2)

\* A package that is only half configured counts as not installed.
dpkg_list == IF pkg.status = "ii" THEN pkg.ver ELSE None
apt_cache == [current_ver |-> dpkg_list]
get_installed_version == apt_cache.current_ver
get_upstream_version ==
    IF apt_cache.current_ver = None THEN None ELSE upstream_version(apt_cache.current_ver)

\* Both raise when the package does not count as installed; guards see to that.
cmp_pkgrevno(revno) == version_compare(get_installed_version, revno)
rabbitmq_version_newer_or_equal(v) == version_compare(get_upstream_version, v) >= 0

caching_cmp_pkgrevno(revno) == IF json = None THEN cmp_pkgrevno(revno) >= 0 ELSE json
rabbit_supports_json == caching_cmp_pkgrevno(v382)

\* Mutant of CONFIG_FILES: it goes by what the process has asked before.
CONFIG_FILES_cached ==
    IF (IF json = None THEN cmp_pkgrevno(v37) >= 0 ELSE json)
    THEN "rabbitmq.conf" ELSE "rabbitmq.config"

CONFIG_FILES ==
    IF cmp_pkgrevno(v37) >= 0 THEN "rabbitmq.conf" ELSE "rabbitmq.config"

get_managment_port == IF rabbitmq_version_newer_or_equal(v3) THEN 15672 ELSE 55672
RMQ_MON_PORT == 15692

-----------------------------------------------------------------------------
(* Plugins.                                                                *)

\* There is no reader for the output of brokers without JSON: None, and the plugin is
\* enabled or disabled just in case.
list_enabled_plugins == IF rabbit_supports_json THEN plugins ELSE None
enable_plugin(p) ==
    IF list_enabled_plugins # None /\ p \in plugins THEN plugins ELSE plugins \cup {p}
disable_plugin(p) ==
    IF list_enabled_plugins # None /\ p \notin plugins THEN plugins ELSE plugins \ {p}

\* Juju opens and closes ports when the hook has ended well.
open_port(opened, port) == opened \cup {port}
close_port(opened, port) == opened \ {port}
application_version_set(v) == version' = v

idle == [hook |-> None, stage |-> "idle", ports |-> {}, told |-> {}]
Joined(r) == <<"scrape-relation-joined", r>>
Broken(r) == <<"scrape-relation-broken", r>>
Hooks == {Joined(r) : r \in Rels} \cup {Broken(r) : r \in Rels}
         \cup {<<"config-changed", None>>, <<"post-series-upgrade", None>>}

Init ==
    /\ pkg \in [ver : {1, 3, 7}, status : {"ii"}]
    /\ json = None
    /\ plugins = {"rabbitmq_management"}
    /\ files = {CONFIG_FILES}
    /\ ports = {get_managment_port}
    /\ told = {} /\ made = {}
    /\ management = TRUE
    /\ due = {}
    /\ retry = None
    /\ job = idle
    /\ version = get_upstream_version
    /\ excused = {}
    /\ changes = 0

Change == changes < MaxChanges /\ changes' = changes + 1

\* A hook starts in a process of its own.
Begin(hook, stage) ==
    /\ job = idle
    /\ IF retry = None THEN hook \in due ELSE hook = retry
    /\ due' = IF retry = None THEN due \ {hook} ELSE due
    /\ retry' = None
    /\ job' = [hook |-> hook, stage |-> stage, ports |-> ports, told |-> told]
    /\ json' = None
    /\ UNCHANGED <<pkg, plugins, files, ports, told, made, management, version, excused,
                   changes>>

At(stage) == job.stage = stage
installed == get_installed_version # None

\* Any question to the broker that the hook asks on its way.
query_rabbit ==
    /\ job # idle /\ installed
    /\ json' = rabbit_supports_json
    /\ json' # json
    /\ UNCHANGED <<pkg, plugins, files, ports, told, made, management, due, retry, job,
                   version, excused, changes>>

\* The plugin first; too old a broker, and the hook fails.
prometheus_scrape_joined(r) ==
    /\ At("joined") /\ job.hook = Joined(r)
    /\ installed /\ cmp_pkgrevno(v380) >= 0
    /\ plugins' = enable_plugin("rabbitmq_prometheus")
    /\ json' = rabbit_supports_json
    /\ job' = [job EXCEPT !.stage = "end", !.ports = open_port(@, RMQ_MON_PORT),
                          !.told = @ \cup {r}]
    /\ UNCHANGED <<pkg, files, ports, told, made, management, due, retry, version, excused,
                   changes>>

\* Mutant of prometheus_scape_broken: the port stays open.
prometheus_scape_broken_open(r) ==
    /\ At("broken") /\ job.hook = Broken(r) /\ installed
    /\ plugins' = disable_plugin("rabbitmq_prometheus")
    /\ json' = rabbit_supports_json
    /\ job' = [job EXCEPT !.stage = "end", !.told = @ \ {r}]
    /\ excused' = IF made = {} THEN excused ELSE excused \cup {"exporter"}
    /\ UNCHANGED <<pkg, files, ports, told, made, management, due, retry, version, changes>>

\* Whether there are other scrape relations is not looked at.
prometheus_scape_broken(r) ==
    /\ At("broken") /\ job.hook = Broken(r) /\ installed
    /\ plugins' = disable_plugin("rabbitmq_prometheus")
    /\ json' = rabbit_supports_json
    /\ job' = [job EXCEPT !.stage = "end", !.ports = close_port(@, RMQ_MON_PORT),
                          !.told = @ \ {r}]
    /\ excused' = IF made = {} THEN excused ELSE excused \cup {"exporter"}
    /\ UNCHANGED <<pkg, files, ports, told, made, management, due, retry, version, changes>>

\* The hook has the package lock: dpkg may be stopped half-way.
coordinated_upgrade(v, ok) ==
    /\ At("upgrade") /\ Change
    /\ v >= pkg.ver /\ v \in Packaged
    /\ pkg' = [ver |-> v, status |-> IF ok THEN "ii" ELSE "iF"]
    /\ job' = IF ok THEN [job EXCEPT !.stage = "configure"] ELSE [job EXCEPT !.stage = "failed"]
    /\ UNCHANGED <<json, plugins, files, ports, told, made, management, due, retry, version,
                   excused>>

NoUpgrade ==
    /\ At("upgrade")
    /\ job' = [job EXCEPT !.stage = IF installed THEN "configure" ELSE "failed"]
    /\ UNCHANGED <<pkg, json, plugins, files, ports, told, made, management, due, retry,
                   version, excused, changes>>

management_plugin_enabled == management

configure_rabbit_install ==
    /\ At("configure")
    /\ plugins' = IF management_plugin_enabled THEN enable_plugin("rabbitmq_management")
                  ELSE disable_plugin("rabbitmq_management")
    /\ json' = rabbit_supports_json
    /\ job' = [job EXCEPT !.stage = "remove",
                          !.ports = IF management_plugin_enabled
                                    THEN open_port(@, get_managment_port)
                                    ELSE close_port(close_port(@, get_managment_port), 55672)]
    /\ UNCHANGED <<pkg, files, ports, told, made, management, due, retry, version, excused,
                   changes>>

\* post-series-upgrade renders only if there was an old file to remove.
RemoveConfig ==
    /\ At("remove")
    /\ installed
    /\ LET old == "rabbitmq.config" \in files /\ cmp_pkgrevno(v37) >= 0 IN
       /\ files' = IF old THEN files \ {"rabbitmq.config"} ELSE files
       /\ job' = [job EXCEPT !.stage = IF old \/ job.hook[1] = "config-changed"
                                       THEN "write" ELSE "end"]
    /\ UNCHANGED <<pkg, json, plugins, ports, told, made, management, due, retry, version,
                   excused, changes>>

write_all ==
    /\ At("write")
    /\ files' = files \cup {CONFIG_FILES}
    /\ job' = [job EXCEPT !.stage = "end"]
    /\ excused' = excused \ {"file"}
    /\ UNCHANGED <<pkg, json, plugins, ports, told, made, management, due, retry, version,
                   changes>>

\* The tail of main, and Juju publishes.  assess_status shows the version.
HookEnd ==
    /\ At("end") /\ installed
    /\ application_version_set(get_upstream_version)
    /\ ports' = job.ports /\ told' = job.told
    /\ excused' = IF job.hook[1] = "scrape-relation-joined" THEN excused \ {"exporter"}
                  ELSE excused
    /\ job' = idle
    /\ UNCHANGED <<pkg, json, plugins, files, made, management, due, retry, changes>>

\* A hook that cannot go on fails, and any hook may be killed at any step; one that dies
\* between the removal of the old file and the new one may not come by there again.
Stuck ==
    \/ At("failed")
    \/ At("joined") /\ ~(installed /\ cmp_pkgrevno(v380) >= 0)
    \/ At("broken") /\ ~installed
    \/ At("remove") /\ ~installed
    \/ At("end") /\ ~installed
HookFails ==
    /\ job # idle
    /\ IF Stuck THEN UNCHANGED changes ELSE Change
    /\ retry' = job.hook
    /\ job' = idle
    /\ excused' = IF At("write") /\ job.hook[1] = "post-series-upgrade"
                  THEN excused \cup {"file"} ELSE excused
    /\ UNCHANGED <<pkg, json, plugins, files, ports, told, made, management, due, version>>

Start ==
    \/ \E r \in Rels : Begin(Joined(r), "joined") \/ Begin(Broken(r), "broken")
    \/ Begin(<<"config-changed", None>>, "upgrade")
    \/ Begin(<<"post-series-upgrade", None>>, "remove")

-----------------------------------------------------------------------------
(* Juju and the operator.                                                  *)

\* A relation is made, or another unit of it joins; hooks of a relation that goes and
\* have not started are dropped.
Join(r) ==
    /\ Change /\ Broken(r) \notin due
    /\ made' = made \cup {r} /\ due' = due \cup {Joined(r)}
    /\ UNCHANGED <<pkg, json, plugins, files, ports, told, management, retry, job, version,
                   excused>>

RemoveRelation(r) ==
    /\ Change /\ r \in made /\ job.hook # Joined(r) /\ retry # Joined(r)
    /\ made' = made \ {r} /\ due' = (due \ {Joined(r)}) \cup {Broken(r)}
    /\ UNCHANGED <<pkg, json, plugins, files, ports, told, management, retry, job, version,
                   excused>>

SetOption ==
    /\ Change
    /\ management' = ~management
    /\ due' = due \cup {<<"config-changed", None>>}
    /\ UNCHANGED <<pkg, json, plugins, files, ports, told, made, retry, job, version, excused>>

\* The operator upgrades the release between pre- and post-series-upgrade.
SeriesUpgrade(v) ==
    /\ Change /\ job = idle /\ retry = None
    /\ v \in Packaged /\ v > pkg.ver /\ pkg.status = "ii"
    /\ pkg' = [pkg EXCEPT !.ver = v]
    /\ due' = due \cup {<<"post-series-upgrade", None>>}
    /\ UNCHANGED <<json, plugins, files, ports, told, made, management, retry, job, version,
                   excused>>

\* juju resolve --no-retry, for a relation the broker is too old for.
Resolve(r) ==
    /\ retry = Joined(r) /\ job = idle
    /\ retry' = None
    /\ UNCHANGED <<pkg, json, plugins, files, ports, told, made, management, due, job, version,
                   excused, changes>>

Next ==
    \/ Start \/ query_rabbit
    \/ \E r \in Rels : prometheus_scrape_joined(r) \/ prometheus_scape_broken(r)
    \/ \E v \in Packaged, ok \in BOOLEAN : coordinated_upgrade(v, ok)
    \/ NoUpgrade \/ configure_rabbit_install \/ RemoveConfig \/ write_all
    \/ HookEnd \/ HookFails
    \/ \E r \in Rels : Join(r) \/ RemoveRelation(r) \/ Resolve(r)
    \/ SetOption
    \/ \E v \in Packaged : SeriesUpgrade(v)

Spec == Init /\ [][Next]_vars

-----------------------------------------------------------------------------
TypeOK ==
    /\ pkg \in [ver : Packaged, status : {"ii", "iF"}]
    /\ json \in BOOLEAN \cup {None}
    /\ plugins \subseteq {"rabbitmq_management", "rabbitmq_prometheus"}
    /\ files \subseteq {"rabbitmq.config", "rabbitmq.conf"}
    /\ {told, made, job.told} \subseteq SUBSET Rels
    /\ {ports, job.ports} \subseteq SUBSET {RMQ_MON_PORT, 15672, 55672}
    /\ management \in BOOLEAN
    /\ due \subseteq Hooks /\ retry \in Hooks \cup {None}
    /\ job.stage \in {"idle", "joined", "broken", "upgrade", "configure", "remove", "write",
                      "failed", "end"}
    /\ version \in {v3, v37, v380, v382}
    /\ excused \subseteq {"exporter", "file"}

Settled == job = idle /\ due = {} /\ retry = None

\* A relation that has been told the port can scrape it, through retries and upgrades; when
\* the last has gone, plugin and port have gone too.  Excused: one of several relations was
\* removed since.
ScrapeServed ==
    Settled =>
        LET served == "rabbitmq_prometheus" \in plugins /\ RMQ_MON_PORT \in ports IN
        /\ told # {} /\ "exporter" \notin excused => served
        /\ made = {} => "rabbitmq_prometheus" \notin plugins /\ RMQ_MON_PORT \notin ports

\* The configuration the charm renders is in the file the broker reads, and no file of an
\* older version is left beside it, however an upgrade came and wherever it was cut off.
\* Excused: a post-series-upgrade killed between removing the old file and rendering.
RendersWhatIsRead ==
    Settled /\ "file" \notin excused => files = {CONFIG_FILES}

\* The management plugin and its port are as the option has them.
ManagementAsAsked ==
    Settled => /\ management <=> "rabbitmq_management" \in plugins
               /\ management <=> get_managment_port \in ports

\* All three, and the version shown is the one installed.
ExporterHolds ==
    /\ ScrapeServed /\ RendersWhatIsRead /\ ManagementAsAsked
    /\ Settled => version = get_upstream_version
=============================================================================
