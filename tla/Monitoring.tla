----------------------------- MODULE Monitoring -----------------------------
(***************************************************************************)
(* The unit's Nagios checks: the scripts and the cron job the charm        *)
(* installs, the checks it gives to the nrpe subordinate, the statistics   *)
(* the cron job collects and what the check of the queues makes of them.   *)
(*                                                                         *)
(* One unit.  update_nrpe_checks is run step by step and may fail at each; *)
(* Juju then runs the hook again.  The subordinate, which brings the user  *)
(* nagios and the daemon nrpe, comes and goes.  A queue's name stands for  *)
(* the pair of virtual host and queue; a pattern is a name or "*".         *)
(***************************************************************************)
EXTENDS Naturals, Sequences, FiniteSets, FiniteSetsExt

CONSTANTS
    Confs,       \* the options: [ssl, limits, wrong, exclude, busiest, cron, mgmt, vhosts]
    Queues,      \* the names of the queues
    MaxCount,    \* bound on the messages in a queue
    MaxAge,      \* bound on the age of the statistics
    MaxChanges,  \* bound on the changes of the options
    None

VARIABLES
    conf,      \* the options
    due,       \* the hooks due that update the checks: config-changed, nrpe-changed
    nagios,    \* the subordinate is there
    plugins,   \* the scripts in place
    cronfile,  \* the schedule in the cron file: its interval, 0: no file or never run
    nrped,     \* the checks in nrpe.d, and with them the services exported
    loaded,    \* the checks the nrpe daemon serves
    monitors,  \* the checks named on the relation
    access,    \* the virtual hosts the user nagios-<unit> may use
    job,       \* the update that is running
    managed,   \* the names of the checks the last update has dealt with
    stats,     \* the statistics file: the messages of each queue listed
    age,       \* its age
    changes

vars == <<conf, due, nagios, plugins, cronfile, nrped, loaded, monitors, access, job,
          managed, stats, age, changes>>

own == "nagios-unit"
scripts == {"check_rabbitmq", "check_rabbitmq_queues", "check_rabbitmq_cluster", "collect"}
NoJob == [hook |-> None, at |-> None, seen |-> None, checks |-> {}, removed |-> {}]

(* The options.  cron: the interval of a schedule, 0 for none; wrong: the schedule or *)
(* the thresholds cannot be parsed.                                                   *)
WantsQueues(c) == c.limits # <<>> /\ c.cron # 0
wanted(c) ==
    (IF c.ssl # "" THEN {"check_rabbitmq"} ELSE {})
    \cup (IF WantsQueues(c) THEN {"check_rabbitmq_queues"} ELSE {})
    \cup (IF c.mgmt THEN {"check_rabbitmq_cluster"} ELSE {})
    \cup (IF c.cron # 0 THEN {"collect"} ELSE {})

\* The command line of check_rabbitmq_queues.py: -c, -e, -d and -m.
Args(limits, exclude, busiest, max_age) ==
    [limits |-> limits, exclude |-> exclude, busiest |-> busiest, max_age |-> max_age]
Check(kind, vhost, script, args) ==
    [name |-> <<kind, vhost>>, script |-> script, args |-> args]
names(checks) == {c.name : c \in checks}

Init ==
    /\ conf \in Confs
    /\ due = {"config-changed"}
    /\ nagios \in BOOLEAN
    /\ plugins = {} /\ cronfile = 0
    /\ nrped = {} /\ loaded = {} /\ monitors = {} /\ access = {}
    /\ job = NoJob /\ managed = {}
    /\ stats = None /\ age = 0
    /\ changes = 0

-----------------------------------------------------------------------------
(* update_nrpe_checks                                                      *)

rest == <<conf, nagios, changes, stats, age>>

Start(hook) ==
    /\ hook \in due /\ job = NoJob
    /\ job' = [NoJob EXCEPT !.hook = hook, !.at = "sync", !.seen = conf]
    /\ UNCHANGED <<due, plugins, cronfile, nrped, loaded, monitors, access, managed, rest>>

\* config-changed on a unit related to hacluster that is not the active one: the checks
\* are left as they are.
Skip ==
    /\ "config-changed" \in due /\ job = NoJob
    /\ due' = due \ {"config-changed"}
    /\ UNCHANGED <<plugins, cronfile, nrped, loaded, monitors, access, job, managed, rest>>

At(step, next) ==
    /\ job.at = step
    /\ job' = [job EXCEPT !.at = next]

rsync(files) == plugins' = plugins \cup files
remove_file(files) == plugins' = plugins \ files


sync_nrpe_files ==
    /\ At("sync", "vhosts")
    /\ rsync(wanted(job.seen))
    /\ cronfile' = IF job.seen.cron = 0 THEN cronfile
                   ELSE IF job.seen.wrong THEN 0 ELSE job.seen.cron
    /\ UNCHANGED <<due, nrped, loaded, monitors, access, managed, rest>>

kept(removed) == {c \in nrped : c.name \notin removed}

\* add_check keeps the check for write(); remove_check removes its files at once.
AddAndRemove(next, add, remove) ==
    /\ job' = [job EXCEPT !.at = next, !.checks = @ \cup add,
                          !.removed = (@ \cup remove) \ names(add)]
    /\ nrped' = kept(remove)
    /\ managed' = managed \cup names(add) \cup remove
    /\ UNCHANGED <<due, plugins, cronfile, loaded, monitors, access, rest>>

nrpe_update_vhost_check(c, v) ==
    IF c.ssl \in {"off", "on"} THEN {Check("plain", v, "check_rabbitmq", None)} ELSE {}
nrpe_update_vhost_ssl_check(c, v) ==
    IF c.ssl \in {"only", "on"} THEN {Check("ssl", v, "check_rabbitmq", None)} ELSE {}

\* The checks of the unit's own virtual host and of those of check-vhosts.  The checks of
\* a virtual host that has left the option are not looked at.
update_vhosts ==
    LET vs == {own} \cup job.seen.vhosts
        add == UNION {nrpe_update_vhost_check(job.seen, v)
                      \cup nrpe_update_vhost_ssl_check(job.seen, v) : v \in vs}
        all == {"plain", "ssl"} \X vs
    IN  /\ job.at = "vhosts"
        /\ job' = [job EXCEPT !.at = "queues", !.checks = add, !.removed = all \ names(add)]
        /\ access' = access \cup vs
        /\ nrped' = kept(all \ names(add))
        /\ managed' = (managed \cap {<<"queue", own>>, <<"cluster", own>>}) \cup all
        /\ UNCHANGED <<due, plugins, cronfile, loaded, monitors, rest>>

\* Twice the interval of the schedule; 0, no limit, if it cannot be parsed.
get_max_stats_file_age(c) == IF c.wrong THEN 0 ELSE 2 * c.cron

\* Thresholds that cannot be parsed make the hook fail: no step but HookFails.
nrpe_update_queues_check ==
    LET c == job.seen
        check == Check("queue", own, "check_rabbitmq_queues",
                       Args(c.limits, c.exclude, c.busiest, get_max_stats_file_age(c)))
    IN  /\ job.at = "queues"
        /\ IF WantsQueues(c) THEN AddAndRemove("cluster", {check}, {})
           ELSE AddAndRemove("cluster", {}, {<<"queue", own>>})

nrpe_update_cluster_check ==
    LET check == Check("cluster", own, "check_rabbitmq_cluster", None)
    IN  /\ job.at = "cluster"
        /\ IF job.seen.mgmt THEN AddAndRemove("write", {check}, {})
           ELSE AddAndRemove("write", {}, {<<"cluster", own>>})

\* A check whose script is not found is written without a command.
_locate_cmd(c) == [c EXCEPT !.script = IF @ \in plugins THEN @ ELSE "none"]
written == {_locate_cmd(c) : c \in job.checks}

\* NRPE.write: nothing at all without the user nagios, else the checks' files, a restart
\* of the daemon, and the monitors on the relation.
write ==
    /\ At("write", "remove")
    /\ IF nagios
       THEN /\ nrped' = kept(names(job.checks)) \cup written
            /\ loaded' = nrped'
            /\ monitors' = (monitors \ job.removed) \cup names(job.checks)
       ELSE UNCHANGED <<nrped, loaded, monitors>>
    /\ UNCHANGED <<due, plugins, cronfile, access, managed, rest>>

remove_nrpe_files ==
    /\ job.at = "remove"
    /\ remove_file(scripts \ wanted(job.seen))
    /\ cronfile' = IF job.seen.cron = 0 THEN 0 ELSE cronfile
    /\ due' = IF job.hook = "config-changed" /\ job.seen # conf THEN due ELSE due \ {job.hook}
    /\ job' = NoJob
    /\ UNCHANGED <<nrped, loaded, monitors, access, managed, rest>>

\* A command fails, or the thresholds or a name are not valid; what is on the relation
\* goes with the hook.
HookFails ==
    /\ job # NoJob /\ job.at # "remove"
    /\ job' = NoJob
    /\ UNCHANGED <<due, plugins, cronfile, nrped, loaded, monitors, access, managed, rest>>

-----------------------------------------------------------------------------
(* The operator, the subordinate and the cron job.                         *)

SetOption(c) ==
    /\ changes < MaxChanges /\ c # conf
    /\ changes' = changes + 1
    /\ conf' = c /\ due' = due \cup {"config-changed"}
    /\ UNCHANGED <<nagios, plugins, cronfile, nrped, loaded, monitors, access, job, managed,
                   stats, age>>

\* The subordinate is installed, its daemon reads nrpe.d and its relation changes; or it
\* is removed, and its relation with it.
Subordinate ==
    /\ changes < MaxChanges /\ job = NoJob
    /\ changes' = changes + 1
    /\ nagios' = ~nagios
    /\ loaded' = IF nagios THEN {} ELSE nrped
    /\ monitors' = {}
    /\ due' = IF nagios THEN due \ {"nrpe-changed"} ELSE due \cup {"nrpe-changed"}
    /\ UNCHANGED <<conf, plugins, cronfile, nrped, access, job, managed, stats, age>>

\* collect_rabbitmq_stats.sh replaces the file; if rabbitmqctl fails, by an empty one.
Collect(s) ==
    /\ cronfile # 0 /\ "collect" \in plugins
    /\ stats' = s /\ age' = 0
    /\ UNCHANGED <<conf, due, nagios, plugins, cronfile, nrped, loaded, monitors, access, job,
                   managed, changes>>

Tick ==
    /\ stats # None /\ age < MaxAge
    /\ age' = age + 1
    /\ UNCHANGED <<conf, due, nagios, plugins, cronfile, nrped, loaded, monitors, access, job,
                   managed, stats, changes>>

Stats == [Queues -> 0..MaxCount] \cup {[q \in {} |-> 0]}

Next ==
    \/ \E hook \in due : Start(hook)
    \/ Skip \/ sync_nrpe_files \/ update_vhosts \/ nrpe_update_queues_check
    \/ nrpe_update_cluster_check \/ write \/ remove_nrpe_files \/ HookFails
    \/ \E c \in Confs : SetOption(c)
    \/ Subordinate \/ Tick
    \/ \E s \in Stats : Collect(s)

Spec == Init /\ [][Next]_vars

-----------------------------------------------------------------------------
(* check_rabbitmq_queues.py                                                *)

fnmatch(pattern, q) == pattern = "*" \/ pattern = q
Excluded(a, q) == \E e \in a.exclude : fnmatch(e, q)

\* Mutant of FirstLimit: the exact name before the wildcard.
BestLimit(a, q) ==
    LET ms == {i \in DOMAIN a.limits : fnmatch(a.limits[i].pattern, q)}
        exact == {i \in ms : a.limits[i].pattern = q}
    IN  IF exact # {} THEN Min(exact) ELSE IF ms = {} THEN 0 ELSE Min(ms)

\* The limit a queue counts for: the first that matches, 0 if none does.
FirstLimit(a, q) ==
    LET ms == {i \in DOMAIN a.limits : fnmatch(a.limits[i].pattern, q)}
    IN  IF ms = {} THEN 0 ELSE Min(ms)

\* The names under which the messages of a queue are counted, one after the other.
Keys(a, q) ==
    IF FirstLimit(a, q) = 0 THEN <<q>>
    ELSE <<a.limits[FirstLimit(a, q)].pattern>> \o (IF a.busiest > 0 THEN <<q>> ELSE <<>>)

Listed(a) == {q \in DOMAIN stats : ~Excluded(a, q)}
collate_stats(a) ==
    LET keys == UNION {{Keys(a, q)[i] : i \in DOMAIN Keys(a, q)} : q \in Listed(a)}
        times(k, q) == Cardinality({i \in DOMAIN Keys(a, q) : Keys(a, q)[i] = k})
        amount(k) == MapThenSumSet(LAMBDA q : times(k, q) * stats[q], Listed(a))
    IN  [k \in keys |-> amount(k)]

\* The worst status; names without a limit are "UNKNOWN" and count for nothing.
check_stats(a) ==
    LET collated == collate_stats(a)
        reached(t) == \E k \in DOMAIN collated, i \in DOMAIN a.limits :
                        a.limits[i].pattern = k /\ collated[k] >= t[i]
    IN  IF reached([i \in DOMAIN a.limits |-> a.limits[i].crit]) THEN "CRITICAL"
        ELSE IF reached([i \in DOMAIN a.limits |-> a.limits[i].warn]) THEN "WARNING" ELSE "OK"

check_stats_file_freshness(a) == a.max_age > 0 /\ age > a.max_age

check_rabbitmq_queues(a) == IF check_stats_file_freshness(a) THEN "CRITICAL" ELSE check_stats(a)

-----------------------------------------------------------------------------
TypeOK ==
    /\ conf \in Confs /\ nagios \in BOOLEAN
    /\ due \subseteq {"config-changed", "nrpe-changed"}
    /\ plugins \subseteq scripts
    /\ names(loaded) \cup names(nrped) \cup monitors
         \subseteq {"plain", "ssl", "queue", "cluster"}
                   \X ({own} \cup UNION {c.vhosts : c \in Confs})
    /\ job.at \in {None, "sync", "vhosts", "queues", "cluster", "write", "remove"}
    /\ age \in 0..MaxAge /\ changes \in 0..MaxChanges


\* The check of the queues says CRITICAL exactly if its statistics are too old or the
\* messages that fall to one of its thresholds, each queue to the first one that matches,
\* reach it.  Not so if it also displays the busiest queues and a threshold names a queue
\* by its name: then those messages count twice.
VerdictRight ==
    \A c \in loaded :
      (/\ c.name[1] = "queue" /\ stats # None
       /\ \/ c.args.busiest = 0
          \/ \A i \in DOMAIN c.args.limits : c.args.limits[i].pattern = "*")
      => LET a == c.args
             falls(q, i) == /\ fnmatch(a.limits[i].pattern, q)
                            /\ \A j \in 1..(i - 1) : ~fnmatch(a.limits[j].pattern, q)
             total(i) == MapThenSumSet(LAMBDA q : stats[q],
                                       {q \in DOMAIN stats : falls(q, i) /\ ~Excluded(a, q)})
         IN  (check_rabbitmq_queues(a) = "CRITICAL")
               <=> \/ a.max_age # 0 /\ age > a.max_age
                   \/ \E i \in DOMAIN a.limits : total(i) >= a.limits[i].crit
=============================================================================
