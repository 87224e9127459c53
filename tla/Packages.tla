------------------------------ MODULE Packages ------------------------------
(***************************************************************************)
(* Where the broker's packages come from: the options "source" and "key",  *)
(* apt's lists, keys and indexes, and the hooks that install and upgrade.  *)
(*                                                                         *)
(* One unit.  A hook is a list of commands, one step each; a command of    *)
(* apt may end with 0, with a code that is tried again (1, or 100 for apt  *)
(* itself) or with another, which ends the hook, and Juju runs the hook    *)
(* again.  The operator sets the option at any time.  Where the upgrade    *)
(* needs the coordinator's lock, the hook that has it comes later.  A      *)
(* pocket stands for the version of the packages in it; apt installs the   *)
(* best version its indexes know and never goes back.                      *)
(***************************************************************************)
EXTENDS Naturals, Sequences, FiniteSets

CONSTANTS
    Ubuntu,           \* get_distrib_codename()
    Sources,          \* the values of the option in this instance, members of Source
    CMD_RETRY_COUNT,  \* how often a fatal command is tried again
    MaxChanges,       \* bound on the changes of the option
    None

VARIABLES
    option,    \* [source, key]: the options source and key
    due,       \* the hooks to run: install, config-changed
    prev,      \* the source in .juju-persistent-config, None before the first save
    lists,     \* lists[f]: the pocket in a file of sources.list.d, None if absent
    keys,      \* whether the key is in trusted.gpg.d
    indexes,   \* the pockets of the last apt-get update that went well
    pkgs,      \* pkgs[p]: the version of an installed package, 0 if it is not there
    deferred,  \* a config-changed that was skipped is on record
    locked,    \* a package upgrade waits for the coordinator's lock
    job,       \* the hook that is running, its commands and how often it has tried
    changes,   \* how often the option was changed
    absorbed   \* a hook that does not add the source has saved it as the previous one

vars == <<option, due, prev, lists, keys, indexes, pkgs, deferred, locked, job, changes,
          absorbed>>

-----------------------------------------------------------------------------
(* Sources.  A spec is its form and the releases it names.                 *)

CLOUD_ARCHIVE_POCKETS ==
    [os \in {"zed", "antelope", "bobcat", "caracal", "dalmatian", "epoxy", "flamingo",
             "gazpacho"}
       |-> IF os \in {"dalmatian", "epoxy", "flamingo", "gazpacho"} THEN "noble" ELSE "jammy"]
OPENSTACK_RELEASES ==
    <<"yoga", "zed", "antelope", "bobcat", "caracal", "dalmatian", "epoxy", "flamingo",
      "gazpacho">>
UBUNTU_OPENSTACK_RELEASE ==
    [rel \in {"jammy", "noble"} |-> IF rel = "jammy" THEN "yoga" ELSE "caracal"]

Forms == {"distro", "proposed", "repository", "staging", "cloud-pair", "cloud", "bare",
          "bare-proposed", "unknown"}
Source == [form : Forms, rel : {"jammy", "noble", None},
           os : DOMAIN CLOUD_ARCHIVE_POCKETS \cup {"yoga", None}]
Pocket(rel, kind, os) == [rel |-> rel, kind |-> kind, os |-> os]
archive == Pocket(Ubuntu, "archive", UBUNTU_OPENSTACK_RELEASE[Ubuntu])
Files == {"cloud-archive.list", "proposed.list", "repository"}

known(rel, os) == os \in DOMAIN CLOUD_ARCHIVE_POCKETS /\ CLOUD_ARCHIVE_POCKETS[os] = rel
_verify_is_ubuntu_rel(rel) == rel = Ubuntu

\* What add_source writes: a pocket to a file, or nothing, or a SourceConfigError.
\* A source of no known form is logged and ignored.
Write(file, pocket) == [file |-> file, pocket |-> pocket]
Nothing == Write("nothing", None)
SourceConfigError == Write("error", None)
_add_proposed == Write("proposed.list", Pocket(Ubuntu, "proposed", archive.os))
_add_apt_repository == Write("repository", Pocket(Ubuntu, "repository", None))
_add_cloud_pocket(rel, kind, os) ==
    IF known(rel, os) THEN Write("cloud-archive.list", Pocket(rel, kind, os))
    ELSE SourceConfigError
_add_cloud_staging(rel, os) ==
    IF _verify_is_ubuntu_rel(rel) THEN Write("repository", Pocket(rel, "staging", os))
    ELSE SourceConfigError
_add_cloud_distro_check(rel, os) ==
    IF _verify_is_ubuntu_rel(rel) THEN _add_cloud_pocket(rel, "updates", os)
    ELSE SourceConfigError
__add_bare_helper(os, kind, final) ==
    CASE known(Ubuntu, os) -> _add_cloud_pocket(Ubuntu, kind, os)
      [] ~known(Ubuntu, os) /\ UBUNTU_OPENSTACK_RELEASE[Ubuntu] = os -> final
      [] OTHER -> SourceConfigError
_add_bare_openstack(os) == __add_bare_helper(os, "updates", Nothing)
_add_bare_openstack_proposed(os) == __add_bare_helper(os, "proposed", _add_proposed)

add_source(s) ==
    CASE s.form \in {"distro", "unknown"} -> Nothing
      [] s.form = "proposed" -> _add_proposed
      [] s.form = "repository" -> _add_apt_repository
      [] s.form = "staging" -> _add_cloud_staging(s.rel, s.os)
      [] s.form = "cloud-pair" -> _add_cloud_distro_check(s.rel, s.os)
      [] s.form = "cloud" ->
           IF s.os \in DOMAIN CLOUD_ARCHIVE_POCKETS
           THEN _add_cloud_pocket(CLOUD_ARCHIVE_POCKETS[s.os], "updates", s.os)
           ELSE SourceConfigError
      [] s.form = "bare" -> _add_bare_openstack(s.os)
      [] s.form = "bare-proposed" -> _add_bare_openstack_proposed(s.os)

\* The version in a pocket: the release's place, the archive's own last.
place(os) == CHOOSE i \in DOMAIN OPENSTACK_RELEASES : OPENSTACK_RELEASES[i] = os
Version(pocket) ==
    CASE pocket.kind = "archive" -> 1
      [] pocket.kind = "proposed" /\ pocket.os = archive.os -> 2
      [] pocket.kind \in {"repository"} -> 3
      [] OTHER -> 3 + place(pocket.os)

-----------------------------------------------------------------------------
(* Commands and hooks.                                                     *)

Packages == {"rabbitmq-server", "python3-amqplib", "ubuntu-cloud-keyring"}
dpkg_list == {p \in Packages : pkgs[p] # 0}
filter_installed_packages(ps) == ps \ dpkg_list

NoJob == [hook |-> None, todo |-> <<>>, packages |-> {}, tries |-> 0, seen |-> None]
installs == <<"apt_update", "apt_install">>
PACKAGES == {"rabbitmq-server", "python3-amqplib"}

\* add_source, first the key, then for a cloud pocket, known or not, its keyring.
source_commands(o) ==
    (IF o.key /\ o.source.form # "unknown" THEN <<"import_key">> ELSE <<>>)
    \o (IF \/ o.source.form = "cloud"
           \/ o.source.form = "cloud-pair" /\ _verify_is_ubuntu_rel(o.source.rel)
           \/ add_source(o.source).file = "cloud-archive.list"
        THEN <<"keyring">> ELSE <<>>)
    \o <<"add_source">>

Init ==
    /\ option \in [source : Sources, key : BOOLEAN]
    /\ due = {"install"}
    /\ prev = None
    /\ lists = [f \in Files |-> None]
    /\ keys = FALSE
    /\ indexes = {}
    /\ pkgs = [p \in Packages |-> 0]
    /\ deferred = FALSE
    /\ locked = FALSE
    /\ job = NoJob
    /\ changes = 0
    /\ absorbed = FALSE

SetSource(s, k) ==
    /\ changes < MaxChanges
    /\ option # [source |-> s, key |-> k]
    /\ changes' = changes + 1
    /\ option' = [source |-> s, key |-> k]
    /\ due' = due \cup {"config-changed"}
    /\ absorbed' = IF s = option.source THEN absorbed ELSE FALSE
    /\ UNCHANGED <<prev, lists, keys, indexes, pkgs, deferred, locked, job>>

Begin(hook, todo, packages) ==
    /\ job = NoJob
    /\ job' = [hook |-> hook, todo |-> todo, packages |-> packages, tries |-> 0,
               seen |-> option]
    /\ UNCHANGED <<option, due, prev, lists, keys, indexes, pkgs, deferred, locked, changes,
                   absorbed>>

install ==
    /\ "install" \in due
    /\ Begin("install", source_commands(option) \o installs, PACKAGES)

archive_upgrade_available == prev # option.source

\* config-changed adds the source, except in a series upgrade.  If it is another one, the
\* packages are upgraded when the lock is granted: now, or in a hook that follows.
config_changed(granted, upgrading) ==
    /\ due = {"config-changed"}
    /\ ~archive_upgrade_available => ~granted
    /\ Begin(IF upgrading THEN "upgrading" ELSE "config-changed",
             (IF upgrading THEN <<>> ELSE source_commands(option))
             \o (IF archive_upgrade_available /\ ~granted THEN <<"request">> ELSE <<>>)
             \o (IF granted THEN installs ELSE <<>>),
             PACKAGES)

\* config-changed where restarts are not permitted: put on record and left.
skip_config_changed ==
    /\ due = {"config-changed"}
    /\ Begin("skipped", <<>>, {})

\* The action run-deferred-hooks: config-changed again, without the lock.
run_deferred_hooks ==
    /\ deferred
    /\ Begin("action",
             source_commands(option)
             \o (IF archive_upgrade_available THEN installs ELSE <<>>),
             PACKAGES)

\* A hook that finds the package lock granted.
coordinated_upgrade ==
    /\ "install" \notin due /\ locked
    /\ Begin("granted", installs, PACKAGES)

\* upgrade-charm installs what the charm's scripts need.
upgrade_charm ==
    /\ "install" \notin due
    /\ Begin("upgrade-charm", installs, {"python3-amqplib"})

\* Any other hook or action; all it does here is to save the options at its end.
OtherHook ==
    /\ "install" \notin due
    /\ Begin("other", <<>>, {})

command == Head(job.todo)
Step(j) == [j EXCEPT !.todo = Tail(@), !.tries = 0]

\* Mutant of Done_apt_update: the indexes are not read again.
Done_no_update ==
    /\ command = "apt_update"
    /\ UNCHANGED <<lists, keys, indexes, pkgs, locked>>

Done_apt_update ==
    /\ command = "apt_update"
    /\ indexes' = {archive} \cup ({lists[f] : f \in Files} \ {None})
    /\ UNCHANGED <<lists, keys, pkgs, locked>>

best == LET vs == {Version(p) : p \in indexes \cup {archive}}
        IN  CHOOSE v \in vs : \A w \in vs : w <= v

\* apt_install upgrades what is there already; upgrade-charm asks only for what is not.
Done_apt_install ==
    LET ps == IF job.hook = "upgrade-charm" THEN filter_installed_packages(job.packages)
              ELSE job.packages
    IN  /\ command = "apt_install"
        /\ pkgs' = [p \in Packages |-> IF p \in ps /\ best > pkgs[p] THEN best ELSE pkgs[p]]
        /\ locked' = IF job.hook = "upgrade-charm" THEN locked ELSE FALSE
        /\ UNCHANGED <<lists, keys, indexes>>

Done_keyring ==
    /\ command = "keyring"
    /\ pkgs' = [pkgs EXCEPT !["ubuntu-cloud-keyring"] = IF @ = 0 THEN 1 ELSE @]
    /\ UNCHANGED <<lists, keys, indexes, locked>>

import_key ==
    /\ command = "import_key"
    /\ keys' = TRUE
    /\ UNCHANGED <<lists, indexes, pkgs, locked>>

Done_add_source ==
    LET result == add_source(job.seen.source)
    IN  /\ command = "add_source"
        /\ result # SourceConfigError
        /\ lists' = IF result = Nothing THEN lists
                    ELSE [lists EXCEPT ![result.file] = result.pocket]
        /\ UNCHANGED <<keys, indexes, pkgs, locked>>

Request ==
    /\ command = "request"
    /\ locked' = TRUE
    /\ UNCHANGED <<lists, keys, indexes, pkgs>>

\* A command that goes well.
RunCommand ==
    /\ job.todo # <<>>
    /\ \/ Done_apt_update \/ Done_apt_install \/ Done_keyring \/ import_key
       \/ Done_add_source \/ Request
    /\ job' = Step(job)
    /\ UNCHANGED <<option, due, prev, deferred, changes, absorbed>>

\* The commands run with retries; of the sources, those add-apt-repository adds.
Retried ==
    \/ command \in {"apt_update", "apt_install", "keyring"}
    \/ command = "add_source" /\ add_source(job.seen.source).file = "repository"

\* Mutant of _run_with_retries: the retries are not counted.
_run_with_retries_unbounded ==
    /\ job.todo # <<>> /\ Retried
    /\ job.tries <= CMD_RETRY_COUNT + 1
    /\ job' = [job EXCEPT !.tries = @ + 1]
    /\ UNCHANGED <<option, due, prev, lists, keys, indexes, pkgs, deferred, locked, changes,
                   absorbed>>

\* A command that ends with a code that is tried again.
_run_with_retries ==
    /\ job.todo # <<>> /\ Retried
    /\ job.tries < CMD_RETRY_COUNT
    /\ job' = [job EXCEPT !.tries = @ + 1]
    /\ UNCHANGED <<option, due, prev, lists, keys, indexes, pkgs, deferred, locked, changes,
                   absorbed>>

\* It ends with another code, or once too often, or the source or the key is not
\* valid; Juju will run the hook again.
HookFails ==
    /\ job.todo # <<>>
    /\ job' = NoJob
    /\ UNCHANGED <<option, due, prev, lists, keys, indexes, pkgs, deferred, locked, changes,
                   absorbed>>

ConfigHooks == {"config-changed", "upgrading", "skipped"}

\* The hook ends well and its options are saved, whatever hook it is.
HookEnds ==
    /\ job # NoJob /\ job.todo = <<>>
    /\ prev' = job.seen.source
    /\ due' = CASE job.hook = "install" -> {"config-changed"}
                [] job.hook \in ConfigHooks /\ job.seen = option -> {}
                [] OTHER -> due
    /\ deferred' = CASE job.hook = "skipped" -> TRUE
                     [] job.hook = "action" -> FALSE
                     [] OTHER -> deferred
    /\ absorbed' = (absorbed \/ (/\ job.hook \notin {"install", "config-changed", "action"}
                                 /\ job.seen.source # prev))
    /\ job' = NoJob
    /\ UNCHANGED <<option, lists, keys, indexes, pkgs, locked, changes>>

Next ==
    \/ \E s \in Sources, k \in BOOLEAN : SetSource(s, k)
    \/ install \/ skip_config_changed \/ run_deferred_hooks
    \/ coordinated_upgrade \/ upgrade_charm \/ OtherHook
    \/ \E granted, upgrading \in BOOLEAN : config_changed(granted, upgrading)
    \/ RunCommand \/ _run_with_retries \/ HookFails \/ HookEnds

Spec == Init /\ [][Next]_vars

-----------------------------------------------------------------------------
TypeOK ==
    /\ option.source \in Sources /\ option.key \in BOOLEAN
    /\ due \subseteq {"install", "config-changed"}
    /\ prev \in Sources \cup {None}
    /\ DOMAIN lists = Files
    /\ \A p \in Packages : pkgs[p] \in 0..20
    /\ {keys, deferred, locked, absorbed} \subseteq BOOLEAN
    /\ changes \in 0..MaxChanges
    /\ job.tries \in 0..CMD_RETRY_COUNT + 1

\* Once nothing is left to do (no hook is due or running and no upgrade waits for its
\* lock), the broker is at least at the version the option asks for, whatever commands
\* failed and hooks were repeated.  The one way past it: the new option is saved by
\* a hook that does not add the source, so that config-changed finds no change.
SourceHonoured ==
    LET asked == add_source(option.source)
    IN  (/\ job = NoJob /\ due = {} /\ ~locked /\ ~absorbed
         /\ asked \notin {Nothing, SourceConfigError})
        => pkgs["rabbitmq-server"] >= Version(asked.pocket)
=============================================================================
