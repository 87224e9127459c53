--------------------------- MODULE DeferredEvents ---------------------------
(***************************************************************************)
(* Restarts and hooks that are put off while enable-auto-restarts is off:  *)
(* the policy files that make policy-rc.d refuse a package's restart, the  *)
(* event files in /var/lib/policy-rc.d, the deferred hooks of the unit's   *)
(* kv store, and the actions that carry them out.                          *)
(*                                                                         *)
(* One machine.  Packages may be upgraded at any moment (unattended        *)
(* upgrades), the operator may restart services without the charm, and a   *)
(* hook or action does its restart in one step and tidies up in another.   *)
(* Other applications on the machine have policies and events of their     *)
(* own.  Time is in half seconds: time.time() is rounded in an event file, *)
(* systemd's ActiveEnterTimestamp is cut to the second.                    *)
(***************************************************************************)
EXTENDS Naturals, FiniteSets

CONSTANTS
    Services,   \* services(): what this application's policy covers
    Apps,       \* the applications with a policy on the machine
    Own,        \* this application, service_name()
    MaxVersion, \* bound on the configuration's versions
    MaxTime     \* bound on the clock


VARIABLES
    now,       \* the clock
    conf,      \* [auto, version]: enable-auto-restarts and the other options
    due,       \* whether a config-changed is due
    saved,     \* enable-auto-restarts in .juju-persistent-config
    applied,   \* the version the last config-changed that was not skipped rendered
    policy,    \* policy[a]: the blocked actions of a's policy file, by service
    events,    \* the *.deferred files
    started,   \* started[s]: when s last became active
    hooks,     \* kv deferred-hooks
    pending,   \* what the running hook or action has still to do, see Pending
    asked,     \* asked[s]: when a restart of s was last put off, 0 once it is started
    excused,   \* services whose last request came at a bad moment, see Badly
    bundled    \* the last config-changed was skipped together with a change of auto

vars == <<now, conf, due, saved, applied, policy, events, started, hooks, pending,
          asked, excused, bundled>>

Clock == 1..MaxTime
Actions == {"restart", "stop"}
Reasons == {"None", "Package update"}
Event == [stamp : Nat, service : Services, action : Actions, reason : Reasons,
          requestor : Apps]
Conf == [auto : BOOLEAN, version : 0..MaxVersion]

\* kind: nothing, the end of main (assess_status), or the end of a restart action,
\* which first clears the events of the services it restarted; retry: whether it is
\* config-changed, which Juju runs again if it fails.
Pending == [kind : {"none", "assess", "clear"}, services : SUBSET Services,
            retry : BOOLEAN]
NotPending == [kind |-> "none", services |-> {}, retry |-> FALSE]
Clear(ss) == [kind |-> "clear", services |-> ss, retry |-> FALSE]
Assess(retry) == [kind |-> "assess", services |-> {}, retry |-> retry]

round(t) == (t + 1) \div 2
get_service_start_time(s) == started[s] \div 2

-----------------------------------------------------------------------------
(* Event files.                                                            *)

deferred_events == {e \in events : e.requestor = Own}
get_deferred_restarts == {e \in deferred_events : e.action = "restart"}

matching_request(e, f) ==
    e.service = f.service /\ e.action = f.action /\ e.reason = f.reason
duplicate_event_files(e) == {f \in deferred_events : matching_request(e, f)}

\* An event that is there already keeps its timestamp.
save_event(e) == IF duplicate_event_files(e) = {} THEN events \cup {e} ELSE events

\* Whatever the action and whoever asked for it.
clear_deferred_events(services) == {e \in events : e.service \notin services}
clear_deferred_restarts(services) == clear_deferred_events(services)

\* What the operator is shown.
show_deferred_events == [restarts |-> deferred_events, hooks |-> hooks]

\* Mutant of Satisfied: the comparison is the wrong way round.
SatisfiedBefore(e) == get_service_start_time(e.service) <= e.stamp

\* check_restart_timestamps takes a service that became active in the second of the
\* request, or later, for restarted.
Satisfied(e) == get_service_start_time(e.service) >= e.stamp

check_restart_timestamps ==
    clear_deferred_restarts({e.service : e \in {f \in get_deferred_restarts : Satisfied(f)}})

\* Moments at which a request is lost: an event of the service that is satisfied has
\* not been cleared yet, or a restart action is about to clear its events.
Badly(s) ==
    \/ \E e \in get_deferred_restarts : e.service = s /\ Satisfied(e)
    \/ s \in pending.services

\* A restart of s is put off: its event, and when.
Request(s, files) ==
    /\ events' = files
    /\ asked' = [asked EXCEPT ![s] = now]
    /\ excused' = IF Badly(s) THEN excused \cup {s} ELSE excused

\* The services ss become active now.
Started(ss) ==
    /\ started' = [s \in Services |-> IF s \in ss THEN now ELSE started[s]]
    /\ asked' = [s \in Services |-> IF s \in ss THEN 0 ELSE asked[s]]
    /\ excused' = excused \ ss

-----------------------------------------------------------------------------
(* Policies.                                                               *)

is_restart_permitted == conf.auto

\* No file blocks nothing; a block is added to what the file has.
read_default_policy_file == policy[Own]
remove_policy_file == [s \in Services |-> {}]
add_policy_block == [s \in Services |-> read_default_policy_file[s] \cup Actions]

configure_deferred_restarts ==
    [policy EXCEPT ![Own] = IF is_restart_permitted THEN remove_policy_file
                            ELSE add_policy_block]

\* policy-rc.d reads every application's file.
read_policy_file(a) == policy[a]
get_blocking_policies(s, action) == {a \in Apps : action \in read_policy_file(a)[s]}

\* One event for each policy; no look at the events that are there.
record_blocked_action(s, action) ==
    events \cup {[stamp |-> round(now), service |-> s, action |-> action,
                  reason |-> "Package update", requestor |-> a]
                 : a \in get_blocking_policies(s, action)}

-----------------------------------------------------------------------------
Init ==
    /\ now = 1
    /\ conf = [auto |-> TRUE, version |-> 0]
    /\ due = FALSE
    /\ saved = TRUE
    /\ applied = 0
    /\ policy \in [Apps -> [Services -> {{}, Actions}]]
    /\ policy[Own] = [s \in Services |-> {}]
    /\ events = {}
    /\ started = [s \in Services |-> 1]
    /\ hooks = {}
    /\ pending = NotPending
    /\ asked = [s \in Services |-> 0]
    /\ excused = {}
    /\ bundled = FALSE

Tick ==
    /\ now < MaxTime
    /\ now' = now + 1
    /\ UNCHANGED <<conf, due, saved, applied, policy, events, started, hooks, pending,
                   asked, excused, bundled>>

\* juju config, once or more often before config-changed runs.
SetOption(c) ==
    /\ c # conf
    /\ c.version \in {conf.version, conf.version + 1}
    /\ conf' = c
    /\ due' = TRUE
    /\ UNCHANGED <<now, saved, applied, policy, events, started, hooks, pending, asked,
                   excused, bundled>>

\* config_changed while automatic restarts are on: the files are rendered and, if
\* they changed, the service restarted (the lock is free).
config_changed ==
    /\ due /\ pending.kind = "none"
    /\ is_restart_permitted
    /\ policy' = configure_deferred_restarts
    /\ hooks' = hooks \ {"config-changed"}
    /\ applied' = conf.version
    /\ IF applied # conf.version THEN Started(Services) /\ UNCHANGED events
       ELSE UNCHANGED <<events, started, asked, excused>>
    /\ due' = FALSE
    /\ pending' = Assess(TRUE)
    /\ bundled' = FALSE
    /\ UNCHANGED <<now, conf, saved>>


\* is_hook_allowed says no: the hook is recorded, unless enable-auto-restarts is one
\* of the options that changed.
SkipHook ==
    /\ due /\ pending.kind = "none"
    /\ ~is_restart_permitted
    /\ policy' = configure_deferred_restarts
    /\ hooks' = IF conf.auto # saved THEN hooks ELSE hooks \cup {"config-changed"}
    /\ bundled' = (conf.auto # saved \/ bundled)
    /\ due' = FALSE
    /\ pending' = Assess(TRUE)
    /\ UNCHANGED <<now, conf, saved, applied, events, started, asked, excused>>

\* A hook that finds the files changed for another reason (a certificate, a peer)
\* while automatic restarts are off: deferrable_svc_restart.
deferrable_svc_restart(s) ==
    /\ pending.kind = "none" /\ ~is_restart_permitted
    /\ Request(s, save_event([stamp |-> round(now), service |-> s,
                              action |-> "restart", reason |-> "None",
                              requestor |-> Own]))
    /\ pending' = Assess(FALSE)
    /\ UNCHANGED <<now, conf, due, saved, applied, policy, started, hooks, bundled>>

\* A package's script asks policy-rc.d (process_action_request), at any time.
process_action_request(s, action) ==
    /\ IF get_blocking_policies(s, action) = {}
         THEN /\ IF action = "restart" THEN Started({s})
                 ELSE UNCHANGED <<started, asked, excused>>
              /\ UNCHANGED events
         ELSE /\ IF action = "restart" /\ Own \in get_blocking_policies(s, action)
                   THEN Request(s, record_blocked_action(s, action))
                   ELSE /\ events' = record_blocked_action(s, action)
                        /\ UNCHANGED <<asked, excused>>
              /\ UNCHANGED started
    /\ UNCHANGED <<now, conf, due, saved, applied, policy, hooks, pending, bundled>>

\* systemctl restart, by the operator.
OperatorRestarts(s) ==
    /\ Started({s})
    /\ UNCHANGED <<now, conf, due, saved, applied, policy, events, hooks, pending,
                   bundled>>

\* stop and start.  A start that fails ends the action here.
restart_services_action(ss) ==
    /\ Started(ss)
    /\ pending' = Clear(ss)

\* config_changed without asking whether restarts are permitted.
Deferred == ~is_restart_permitted /\ "config-changed" \in hooks
_run_deferred_hooks(runs) ==
    /\ applied' = IF runs THEN conf.version ELSE applied
    /\ hooks' = IF runs THEN hooks \ {"config-changed"} ELSE hooks
    /\ policy' = IF runs THEN configure_deferred_restarts ELSE policy
    /\ bundled' = (bundled /\ ~runs)

deferred_services == {e.service : e \in get_deferred_restarts}

\* The action run-deferred-hooks: the hook's restart is put off in turn; then the
\* deferred restarts, of which there is now one for every service whose files changed.
run_deferred_hooks ==
    /\ pending.kind = "none"
    /\ _run_deferred_hooks(Deferred)
    /\ restart_services_action(deferred_services
                               \cup IF Deferred /\ applied # conf.version THEN Services ELSE {})
    /\ UNCHANGED <<now, conf, due, saved, events>>

\* The action restart-services without its hooks, for the services named or for those with
\* deferred restarts; it takes one or the other.
restart(deferred_only, ss) ==
    /\ pending.kind = "none"
    /\ deferred_only <=> ss = {}
    /\ restart_services_action(IF deferred_only THEN deferred_services ELSE ss)
    /\ UNCHANGED <<now, conf, due, saved, applied, policy, events, hooks, bundled>>

\* With its hooks it is not the action run-deferred-hooks, so the hook asks for the restart
\* lock.  If it has it, the restart is put off at once; else a later hook will do that,
\* after the services were restarted that had been put off before.
restart_run_hooks(deferred_only, ss, granted) ==
    LET new == IF granted /\ applied # conf.version THEN Services ELSE {}
        put_off == {[stamp |-> round(now), service |-> s, action |-> "restart",
                     reason |-> "None", requestor |-> Own] : s \in new}
        restarted == IF deferred_only THEN deferred_services \cup new ELSE ss
    IN  /\ pending.kind = "none" /\ Deferred
        /\ deferred_only <=> ss = {}
        /\ _run_deferred_hooks(TRUE)
        /\ events' = events \cup {e \in put_off : duplicate_event_files(e) = {}}
        /\ started' = [s \in Services |-> IF s \in restarted THEN now ELSE started[s]]
        /\ asked' = [s \in Services |-> IF s \in restarted THEN 0
                                        ELSE IF s \in new THEN now ELSE asked[s]]
        /\ excused' = (excused \cup {s \in new : Badly(s)}) \ restarted
        /\ pending' = Clear(restarted)
        /\ UNCHANGED <<now, conf, due, saved>>

\* The tail of an action, and of main: assess_status and Config.save.
HookEnd ==
    /\ pending.kind # "none"
    /\ events' = IF pending.kind = "clear" THEN clear_deferred_events(pending.services)
                 ELSE check_restart_timestamps
    /\ saved' = conf.auto
    /\ pending' = IF pending.kind = "clear" THEN Assess(FALSE) ELSE NotPending
    /\ UNCHANGED <<now, conf, due, applied, policy, started, hooks, asked, excused, bundled>>

\* The hook or the action fails after its restart; nothing is tidied up.
HookFail ==
    /\ pending.kind # "none"
    /\ pending' = NotPending
    /\ due' = (due \/ pending.retry)
    /\ UNCHANGED <<now, conf, saved, applied, policy, events, started, hooks, asked,
                   excused, bundled>>

Next ==
    \/ Tick \/ config_changed \/ SkipHook \/ run_deferred_hooks \/ HookEnd \/ HookFail
    \/ \E c \in Conf : SetOption(c)
    \/ \E s \in Services : deferrable_svc_restart(s) \/ OperatorRestarts(s)
    \/ \E s \in Services, action \in Actions : process_action_request(s, action)
    \/ \E deferred_only \in BOOLEAN, ss \in SUBSET Services :
          \/ restart(deferred_only, ss)
          \/ \E granted \in BOOLEAN : restart_run_hooks(deferred_only, ss, granted)

Spec == Init /\ [][Next]_vars

-----------------------------------------------------------------------------
TypeOK ==
    /\ now \in Clock
    /\ conf \in Conf
    /\ due \in BOOLEAN /\ saved \in BOOLEAN /\ bundled \in BOOLEAN
    /\ applied \in 0..MaxVersion
    /\ policy \in [Apps -> [Services -> SUBSET Actions]]
    /\ events \subseteq Event
    /\ started \in [Services -> Clock]
    /\ hooks \subseteq {"config-changed"}
    /\ pending \in Pending
    /\ asked \in [Services -> 0..MaxTime]
    /\ excused \subseteq Services

\* A restart that was put off stays on record until the service has been started in
\* or after the second of the request, with the one exception the code has: the
\* request came while an event of the service that a restart had already satisfied,
\* or the end of a restart action, was still waiting to be tidied up.
DeferredRestartKept ==
    \A s \in Services :
        asked[s] # 0 /\ round(asked[s]) > get_service_start_time(s) /\ s \notin excused =>
            \E e \in show_deferred_events.restarts : e.service = s /\ e.action = "restart"

\* Options that no config-changed has applied are on record as a deferred hook while
\* automatic restarts are off, unless the change came together with a change of
\* enable-auto-restarts itself.
SkippedHookKept ==
    applied # conf.version /\ ~conf.auto /\ ~due /\ ~bundled =>
        "config-changed" \in show_deferred_events.hooks
=============================================================================
