----------------------------- MODULE UnitStatus -----------------------------
(***************************************************************************)
(* Pausing and resuming a unit, the hooks around a series upgrade, and the *)
(* workload status the unit shows.                                         *)
(*                                                                         *)
(* One unit.  pause and resume work through the services one systemctl     *)
(* call at a time; only the results of stop and start are looked at.       *)
(* Packages may start a service at any moment, a service may die, and the  *)
(* machine may reboot in the middle of an action: what systemd has on disk *)
(* and the flags of the kv store survive, the action does not.             *)
(*                                                                         *)
(* What the unit sees of the cluster is one value, the first check of      *)
(* assess_cluster_status that fails; it changes at any time.  Messages are *)
(* left out.                                                               *)
(***************************************************************************)
EXTENDS Naturals, FiniteSets

CONSTANTS
    Services,   \* services()
    None        \* a check that found nothing

VARIABLES
    running,    \* the services that are active
    enabled,    \* the services that start at boot
    masked,     \* the services that cannot be started
    paused,     \* kv unit-paused
    upgrading,  \* kv unit-upgrading
    series,     \* leader setting cluster_series_upgrading
    cluster,    \* what is wrong with the cluster, see Cluster
    requested,  \* whether a lock of the coordinator is requested
    shown,      \* the workload status set last
    job         \* the action or hook that pauses or resumes, see Job

vars == <<running, enabled, masked, paused, upgrading, series, cluster, requested,
          shown, job>>

States == {"unknown", "active", "maintenance", "waiting", "blocked"}

\* What assess_cluster_status makes of each cluster.
Cluster == {"not installed", "too few peers", "not clustered", "not ready",
            "departed node", "partitioned", "app down", "other mode", "fine"}
Waiting == {"not installed", "too few peers", "not clustered", "not ready", "other mode"}

\* step: the next thing to do; todo: services left; at: the service between its two
\* calls; failed: whether there are messages, which make the action fail.
Job == [kind : {"none", "pause", "resume", "pre-series-upgrade", "post-series-upgrade"},
        step : {"none", "services", "flag", "assess", "leader"},
        todo : SUBSET Services, at : SUBSET Services, failed : BOOLEAN]
NoJob == [kind |-> "none", step |-> "none", todo |-> {}, at |-> {}, failed |-> FALSE]
Begin(kind) == [NoJob EXCEPT !.kind = kind, !.step = "services", !.todo = Services]

Pausing == job.kind \in {"pause", "pre-series-upgrade"}
Resuming == job.kind \in {"resume", "post-series-upgrade"}

-----------------------------------------------------------------------------
(* The status.                                                             *)

Rank(state) == CASE state = "unknown" -> 0 [] state = "active" -> 1
                 [] state = "maintenance" -> 2 [] state = "waiting" -> 3
                 [] state = "blocked" -> 4 [] state = None -> 0

workload_state_compare(current, new) ==
    LET known(s) == IF s = None THEN "unknown" ELSE s IN
    IF Rank(current) > Rank(new) THEN known(current) ELSE known(new)

\* None stands for a check that found nothing.
check_actually_paused == IF running # {} THEN "blocked" ELSE None

_ows_check_if_paused ==
    CASE upgrading -> "blocked"
      [] ~upgrading /\ paused ->
           IF check_actually_paused # None THEN check_actually_paused ELSE "maintenance"
      [] OTHER -> None

assess_cluster_status ==
    CASE paused -> "maintenance"
      [] ~paused /\ cluster \in Waiting -> "waiting"
      [] ~paused /\ cluster = "fine" -> "active"
      [] OTHER -> "blocked"

_ows_check_charm_func(state) ==
    IF assess_cluster_status = "active" THEN state
    ELSE workload_state_compare(state, assess_cluster_status)

\* Mutant of ows_check_services_running: one running service is enough.
ows_check_any_running == IF running = {} THEN "blocked" ELSE None

ows_check_services_running == IF running # Services THEN "blocked" ELSE None

\* The charm requires no interfaces, so the second check finds nothing.
_determine_os_workload_status ==
    LET first == _ows_check_if_paused
        second == IF first = "maintenance" THEN first ELSE _ows_check_charm_func(first)
        third == IF second = None THEN ows_check_services_running ELSE second
    IN  IF third = None THEN "active" ELSE third

\* During a series upgrade "waiting" is shown as "active"; a unit that waits for a lock
\* is "waiting" whatever else there is.
assess_status_func ==
    LET state == _determine_os_workload_status IN
    IF requested THEN "waiting"
    ELSE IF series /\ state = "waiting" THEN "active"
    ELSE state

-----------------------------------------------------------------------------
Init ==
    /\ running = Services /\ enabled = Services /\ masked = {}
    /\ paused = FALSE /\ upgrading = FALSE /\ series = FALSE
    /\ cluster = "not ready"
    /\ requested = FALSE
    /\ shown = "unknown"
    /\ job = NoJob

\* The command status-set is taken to succeed.
status_set(workload_state) == workload_state \in States /\ shown' = workload_state

\* The end of every hook: assess_status.
assess_status ==
    /\ job = NoJob
    /\ status_set(assess_status_func)
    /\ UNCHANGED <<running, enabled, masked, paused, upgrading, series, cluster,
                   requested, job>>

\* The actions pause and resume, and post-series-upgrade.  The last clears its flag
\* first and resumes the unit whether or not the operator had paused it before.
Start(kind) ==
    /\ job = NoJob
    /\ job' = Begin(kind)
    /\ upgrading' = IF kind = "post-series-upgrade" THEN FALSE ELSE upgrading
    /\ UNCHANGED <<running, enabled, masked, paused, series, cluster, requested, shown>>

\* pre-series-upgrade pauses the unit unless it is paused.
series_upgrade_prepare ==
    /\ job = NoJob
    /\ upgrading' = TRUE
    /\ job' = IF paused THEN [NoJob EXCEPT !.kind = "pre-series-upgrade", !.step = "leader"]
              ELSE Begin("pre-series-upgrade")
    /\ UNCHANGED <<running, enabled, masked, paused, series, cluster, requested, shown>>

\* systemctl stop and systemctl enable; ok is the result.
service_stop(s, ok) == running' = IF ok THEN running \ {s} ELSE running
service_enable(s, ok) == enabled' = IF ok THEN enabled \cup {s} ELSE enabled

\* service_pause, first half: stop the service if it is running.
PauseStop(s, ok) ==
    /\ Pausing /\ job.step = "services" /\ job.at = {} /\ s \in job.todo
    /\ s \notin running => ok
    /\ service_stop(s, ok)
    /\ job' = [job EXCEPT !.at = {s}, !.failed = @ \/ ~ok]
    /\ UNCHANGED <<enabled, masked, paused, upgrading, series, cluster, requested, shown>>

\* Second half: disable and mask, whose results nobody looks at.
PauseMask(ok) ==
    /\ Pausing /\ job.at # {}
    /\ enabled' = IF ok THEN enabled \ job.at ELSE enabled
    /\ masked' = IF ok THEN masked \cup job.at ELSE masked
    /\ job' = [job EXCEPT !.at = {}, !.todo = @ \ job.at]
    /\ UNCHANGED <<running, paused, upgrading, series, cluster, requested, shown>>

\* service_resume, first half: unmask and enable, unless it is enabled.
ResumeEnable(s, ok) ==
    /\ Resuming /\ job.step = "services" /\ job.at = {} /\ s \in job.todo
    /\ s \in enabled => ok
    /\ masked' = IF ok /\ s \notin enabled THEN masked \ {s} ELSE masked
    /\ service_enable(s, ok)
    /\ job' = [job EXCEPT !.at = {s}]
    /\ UNCHANGED <<running, paused, upgrading, series, cluster, requested, shown>>

\* Second half: start the service if it is not running; a masked one does not start.
ResumeStart(ok) ==
    /\ Resuming /\ job.at # {}
    /\ job.at \subseteq running => ok
    /\ ok => job.at \subseteq running \cup (Services \ masked)
    /\ running' = IF ok THEN running \cup job.at ELSE running
    /\ job' = [job EXCEPT !.at = {}, !.todo = @ \ job.at, !.failed = @ \/ ~ok]
    /\ UNCHANGED <<enabled, masked, paused, upgrading, series, cluster, requested, shown>>

\* set_unit_paused or clear_unit_paused, after the services.
SetFlag ==
    /\ job.step = "services" /\ job.todo = {}
    /\ paused' = Pausing
    /\ job' = [job EXCEPT !.step = "assess"]
    /\ UNCHANGED <<running, enabled, masked, upgrading, series, cluster, requested, shown>>

\* Mutant of AssessJob: a pause shows the status before it has a look.
AssessJobBlind ==
    /\ job.step = "assess"
    /\ status_set(IF Pausing THEN "maintenance" ELSE assess_status_func)
    /\ job' = IF job.kind = "pre-series-upgrade" THEN [job EXCEPT !.step = "leader"] ELSE NoJob
    /\ UNCHANGED <<running, enabled, masked, paused, upgrading, series, cluster, requested>>

\* The status function is called and returns nothing: only failed calls of systemctl
\* make the action fail.
AssessJob ==
    /\ job.step = "assess"
    /\ status_set(assess_status_func)
    /\ job' = IF job.kind = "pre-series-upgrade" THEN [job EXCEPT !.step = "leader"] ELSE NoJob
    /\ UNCHANGED <<running, enabled, masked, paused, upgrading, series, cluster, requested>>

\* The last step of pre-series-upgrade; a leader informs the cluster.
InformCluster(leads) ==
    /\ job.step = "leader"
    /\ series' = (series \/ leads)
    /\ job' = NoJob
    /\ UNCHANGED <<running, enabled, masked, paused, upgrading, cluster, requested, shown>>

complete_cluster_series_upgrade ==
    /\ job = NoJob /\ series
    /\ series' = FALSE
    /\ UNCHANGED <<running, enabled, masked, paused, upgrading, cluster, requested, shown,
                   job>>

\* A package's script starts a service that is not masked.
PackageStarts(s) ==
    /\ s \notin masked \cup running
    /\ running' = running \cup {s}
    /\ UNCHANGED <<enabled, masked, paused, upgrading, series, cluster, requested, shown,
                   job>>

ServiceDies(s) ==
    /\ s \in running
    /\ running' = running \ {s}
    /\ UNCHANGED <<enabled, masked, paused, upgrading, series, cluster, requested, shown,
                   job>>

Reboot ==
    /\ running' = enabled \ masked
    /\ job' = NoJob
    /\ UNCHANGED <<enabled, masked, paused, upgrading, series, cluster, requested, shown>>

\* The other units, the broker and the coordinator.
ClusterChanges(c) ==
    /\ c # cluster
    /\ cluster' = c
    /\ UNCHANGED <<running, enabled, masked, paused, upgrading, series, requested, shown,
                   job>>

LockChanges ==
    /\ requested' = ~requested
    /\ UNCHANGED <<running, enabled, masked, paused, upgrading, series, cluster, shown,
                   job>>

Next ==
    \/ assess_status \/ series_upgrade_prepare \/ complete_cluster_series_upgrade
    \/ \E kind \in {"pause", "resume", "post-series-upgrade"} : Start(kind)
    \/ \E s \in Services, ok \in BOOLEAN : PauseStop(s, ok) \/ ResumeEnable(s, ok)
    \/ \E ok \in BOOLEAN : PauseMask(ok) \/ ResumeStart(ok) \/ InformCluster(ok)
    \/ SetFlag \/ AssessJob \/ Reboot \/ LockChanges
    \/ \E s \in Services : PackageStarts(s) \/ ServiceDies(s)
    \/ \E c \in Cluster : ClusterChanges(c)

Spec == Init /\ [][Next]_vars

-----------------------------------------------------------------------------
TypeOK ==
    /\ running \subseteq Services /\ enabled \subseteq Services /\ masked \subseteq Services
    /\ {paused, upgrading, series, requested} \subseteq BOOLEAN
    /\ cluster \in Cluster
    /\ shown \in States
    /\ job \in Job

\* "active" is shown only by a unit that is neither paused nor in a series upgrade and
\* whose services run in a complete cluster; while the cluster is in a series upgrade,
\* also by one that waits for its peers.
ShowsActiveHonestly ==
    shown' = "active" /\ shown # "active" =>
        /\ ~paused /\ ~upgrading
        /\ \/ running = Services /\ cluster = "fine"
           \/ series /\ cluster \in Waiting
StatusHonest == [][ShowsActiveHonestly]_vars

\* A pause that reports success and leaves a service running (a package started it
\* between the stop and the mask, or the mask failed) never shows the unit as paused:
\* the status it leaves is "blocked", or "waiting" for a unit that waits for a lock.
PausesHonestly ==
    AssessJob /\ ~job.failed /\ Pausing /\ running # {} => shown' \in {"blocked", "waiting"}
PauseHonest == [][PausesHonestly]_vars
=============================================================================
