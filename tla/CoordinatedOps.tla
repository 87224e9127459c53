--------------------------- MODULE CoordinatedOps ---------------------------
(***************************************************************************)
(* What the charm does with the coordinator's locks: restarts of the       *)
(* broker (when a rendered file changed) and package upgrades (when the    *)
(* "source" option changed) are requested in one hook and carried out in   *)
(* a later hook that finds the lock granted.  Restarts may be deferred     *)
(* (enable-auto-restarts off) and units paused.                            *)
(*                                                                         *)
(* The locks are used through their contract (module SerialLock, which     *)
(* Coordinator implements): a request is kept from the successful end of   *)
(* the hook that made it, at most one unit owns a lock, the owner holds it *)
(* in its next hook, and a hook that succeeds releases what it holds.      *)
(*                                                                         *)
(* A hook body is one step on the unit's local state, followed by its end: *)
(* success (the atexit callbacks and Juju's flush), or a failure before or *)
(* after the atexit callbacks, which keeps what was done to the machine    *)
(* and loses the requests.  File contents, sources and the loaded          *)
(* configuration are version numbers.                                      *)
(***************************************************************************)
EXTENDS Naturals, TLC

CONSTANTS
    Units,        \* the units
    HookKinds,    \* the hooks Juju runs in this instance
    Actions,      \* the actions the operator runs in this instance
    Options,      \* the options the operator changes in this instance
    MaxVersion,   \* bound on the versions of "source" and of file contents
    HooksFail     \* whether hooks may fail

AllHookKinds == {"config-changed", "cluster-relation-changed",
                 "leader-settings-changed", "certificates-relation-changed",
                 "other"}
AllActions == {"pause", "resume", "restart-services", "run-deferred-hooks"}
AllOptions == {"content", "source", "enable-auto-restarts"}

ASSUME KindsAssumption == HookKinds \subseteq AllHookKinds
ASSUME ActionsAssumption == Actions \subseteq AllActions
ASSUME OptionsAssumption == Options \subseteq AllOptions
ASSUME VersionAssumption == MaxVersion \in Nat
ASSUME FailAssumption == HooksFail \in BOOLEAN

Ops == {"restart", "pkg_upgrade"}   \* COORD_KEY_RESTART, COORD_KEY_PKG_UPGRADE

VARIABLES
    leader,   \* the unit is_leader() is true on
    conf,     \* the application's options, as config-get returns them now
    due,      \* units that still have to be sent config-changed
    node,     \* node[u]: the unit's machine, see Node
    waiting,  \* waiting[op]: the units whose request is on the peer relation
    owner,    \* owner[op]: the unit the lock is granted to, if any
    hook      \* hook[u]: the hook running on u, see Hook

vars == <<leader, conf, due, node, waiting, owner, hook>>

Version == 0..MaxVersion
Conf == [content : Version, source : Version, permitted : BOOLEAN]
Seen == [source : Version, permitted : BOOLEAN]

Node == [disk : Version,          \* content of the rendered files
         running : Version,       \* content the broker has loaded
         archive : Version,       \* the apt source configured last
         installed : Version,     \* the source the packages come from
         saved : Seen,            \* .juju-persistent-config
         policy : BOOLEAN,        \* policy-rc.d blocks package restarts
         deferred : BOOLEAN,      \* a deferred restart event is recorded
         skipped : BOOLEAN,       \* config-changed is a deferred hook
         paused : BOOLEAN]        \* kv "unit-paused", the service is masked

Hook == [kind : AllHookKinds \cup AllActions \cup {"none"},
         phase : {"idle", "done", "raised"},
         retry : AllHookKinds \cup {"none"},  \* the failed hook to run again
         seen : Seen,             \* config() of this hook, what matters of it
         asked : SUBSET Ops,      \* requests of the unit, in memory
         held : SUBSET Ops]       \* granted(op) in this hook

\* Whether the process runs that action, and not a hook.
in_run_deferred_hooks_action(kind) == kind = "run-deferred-hooks"

-----------------------------------------------------------------------------
(* The functions of the charm, on the state of one unit: s has the fields  *)
(* of Node, and those of the running hook: asked and held; leads, whether  *)
(* it is the leader (with peers); forced, whether it is the action         *)
(* run-deferred-hooks; raised, whether it has raised an exception.  c is   *)
(* the configuration the hook sees, now the locks that are granted at once *)
(* if asked for (the unit is the leader and they are free).                *)

\* Mutant of acquire: the leader does not look whether another unit has the lock.
acquire_leading(s, op, now) ==
    [s EXCEPT !.asked = @ \cup {op}, !.held = IF s.leads THEN @ \cup {op} ELSE @]

acquire(s, op, now) ==
    [s EXCEPT !.asked = @ \cup {op},
              !.held = IF op \in now THEN @ \cup {op} ELSE @]

\* ConfigRenderer.write_all
write_all(s, c) == [s EXCEPT !.disk = c.content]

\* A restart makes the broker load the files; the deferred restarts requested
\* before it are forgotten (check_restart_timestamps, clear_deferred_restarts).
Restarted(s) == [s EXCEPT !.running = s.disk, !.deferred = FALSE]

\* Mutant of RestartServices: the policy is not asked.
RestartServicesAlways(s, c) ==
    IF s.paused THEN [s EXCEPT !.raised = TRUE] ELSE Restarted(s)

\* deferrable_svc_restart, then wait_app, which raises when the service does not
\* come up because it is masked.
RestartServices(s, c) ==
    IF s.paused THEN [s EXCEPT !.raised = TRUE, !.deferred = @ \/ ~c.permitted]
    ELSE IF c.permitted THEN Restarted(s)
    ELSE [s EXCEPT !.deferred = TRUE]

manage_restart(s, c) ==
    IF "restart" \in s.held /\ ~s.raised THEN RestartServices(s, c) ELSE s

path_hash(s) == s.disk

\* Mutant of coordinated_restart_on_change: the lock is used but not asked for.
restart_on_change_if_held(before, after, c, now) ==
    IF before.paused \/ before.disk = after.disk \/ after.raised THEN after
    ELSE IF after.forced THEN RestartServices(after, c)
    ELSE manage_restart(after, c)

\* The decorator: after is the state the decorated function left.
coordinated_restart_on_change(before, after, c, now) ==
    IF before.paused \/ path_hash(before) = path_hash(after) \/ after.raised THEN after
    ELSE IF after.forced THEN RestartServices(after, c)
    ELSE manage_restart(acquire(after, "restart", now), c)

\* apt upgrades the packages, whose scripts restart the broker unless policy-rc.d
\* says no (which records the restart as deferred) or the service is masked.
install_or_upgrade_packages(s) ==
    LET new == [s EXCEPT !.installed = s.archive] IN
    IF s.installed = s.archive THEN s
    ELSE IF s.policy THEN [new EXCEPT !.deferred = TRUE]
    ELSE IF s.paused THEN new
    ELSE Restarted(new)

\* On the leader the function runs cluster_changed for each peer, which runs
\* check_coordinated_functions: with the package lock granted, that calls this
\* function again, and again, until Python gives up.
configure_rabbit_install(s, c, now) ==
    LET new == write_all(s, c)
        recurses == s.leads /\ "pkg_upgrade" \in s.held /\ ~s.paused
        refreshed == IF s.leads /\ ~s.paused THEN manage_restart(new, c) ELSE new
    IN  coordinated_restart_on_change(
          s, IF recurses THEN [new EXCEPT !.raised = TRUE] ELSE refreshed, c, now)

coordinated_upgrade(s, c, now) ==
    IF "pkg_upgrade" \in s.held /\ ~s.raised
      THEN configure_rabbit_install(install_or_upgrade_packages(s), c, now)
      ELSE s

\* Mutant of check_coordinated_functions: restarts are left out.
check_upgrade_only(s, c, now) == coordinated_upgrade(s, c, now)

\* coordinated_cluster, the second of the three, belongs to cluster formation.
check_coordinated_functions(s, c, now) ==
    manage_restart(coordinated_upgrade(s, c, now), c)

\* Once the cookie is known and without hacluster; a leader that finds the
\* cluster partition mode changed also renders the files.
cluster_changed(s, c, now, renders) ==
    IF s.paused \/ s.raised THEN s
    ELSE coordinated_restart_on_change(
           s,
           check_coordinated_functions(
             IF renders /\ s.leads THEN write_all(s, c) ELSE s, c, now),
           c, now)

leader_settings_changed(s, c, now) ==
    IF s.paused THEN s
    ELSE coordinated_restart_on_change(
           s, check_coordinated_functions(write_all(s, c), c, now), c, now)

certs_changed(s, c, now) ==
    coordinated_restart_on_change(s, write_all(s, c), c, now)

\* is_hook_allowed("config-changed"): the verdict, which forgets that the unit is
\* paused when the restarts are checked and permitted, and the record it leaves.
is_hook_allowed(s, c, check) == IF check THEN c.permitted ELSE ~s.paused

RecordSkipped(s, c, check) ==
    [s EXCEPT !.skipped = IF ~check THEN @
                          ELSE IF c.permitted THEN FALSE
                          ELSE @ \/ s.saved.permitted = c.permitted]

\* The hooks that config-changed runs for the cluster relation are part of it.
config_changed(s, c, now, check) ==
    LET entered == RecordSkipped([s EXCEPT !.policy = ~c.permitted], c, check)
        sourced == [entered EXCEPT !.archive = c.source]   \* add_source
        upgrade == IF s.forced
                     THEN configure_rabbit_install(
                            install_or_upgrade_packages(sourced), c, now)
                     ELSE coordinated_upgrade(
                            acquire(sourced, "pkg_upgrade", now), c, now)
        refresh == check_coordinated_functions(
                     cluster_changed(configure_rabbit_install(sourced, c, now),
                                     c, now, FALSE),
                     c, now)
        after == IF ~is_hook_allowed(s, c, check) THEN entered
                 ELSE IF s.saved.source # c.source   \* archive_upgrade_available
                        THEN upgrade
                        ELSE refresh
    IN  coordinated_restart_on_change(s, after, c, now)

\* Stop and start, without the lock; a masked service does not start, which is an
\* error of the action.
restart_services_action(s) == IF s.paused THEN s ELSE Restarted(s)

\* _run_deferred_hooks runs the skipped config-changed without the locks, only
\* while restarts are off; then the deferred restarts are carried out.
run_deferred_hooks(s, c) ==
    LET hooked == IF ~c.permitted /\ s.skipped
                    THEN [config_changed(s, c, {}, FALSE) EXCEPT !.skipped = FALSE]
                    ELSE s
    IN  IF hooked.deferred THEN restart_services_action(hooked) ELSE hooked

\* service_pause and service_resume; a start loads the files on disk.
pause(s) == [s EXCEPT !.paused = TRUE]
resume(s) == IF s.paused THEN Restarted([s EXCEPT !.paused = FALSE]) ELSE s

\* What each hook or action makes of the unit.
Body(kind, s, c, now, renders) ==
    CASE kind = "config-changed" -> config_changed(s, c, now, TRUE)
      [] kind = "cluster-relation-changed" -> cluster_changed(s, c, now, renders)
      [] kind = "leader-settings-changed" -> leader_settings_changed(s, c, now)
      [] kind = "certificates-relation-changed" -> certs_changed(s, c, now)
      [] kind = "other" -> s
      [] kind = "pause" -> pause(s)
      [] kind = "resume" -> resume(s)
      [] kind = "restart-services" -> restart_services_action(s)
      [] kind = "run-deferred-hooks" -> run_deferred_hooks(s, c)

-----------------------------------------------------------------------------
InitConf == [content |-> 0, source |-> 0, permitted |-> TRUE]
SeenOf(c) == [source |-> c.source, permitted |-> c.permitted]
InitNode == [disk |-> 0, running |-> 0, archive |-> 0, installed |-> 0,
             saved |-> SeenOf(InitConf), policy |-> FALSE, deferred |-> FALSE,
             skipped |-> FALSE, paused |-> FALSE]
NoHook == [kind |-> "none", phase |-> "idle", retry |-> "none",
           seen |-> SeenOf(InitConf), asked |-> {}, held |-> {}]

Init ==
    /\ leader \in Units
    /\ conf = InitConf
    /\ due = {}
    /\ node = [u \in Units |-> InitNode]
    /\ waiting = [op \in Ops |-> {}]
    /\ owner = [op \in Ops |-> {}]
    /\ hook = [u \in Units |-> NoHook]

\* juju config: every unit will get config-changed, but sees the new value in
\* whatever hook it runs next.
SetOption(o) ==
    /\ CASE o = "content" -> /\ conf.content < MaxVersion
                             /\ conf' = [conf EXCEPT !.content = @ + 1]
         [] o = "source" -> /\ conf.source < MaxVersion
                            /\ conf' = [conf EXCEPT !.source = @ + 1]
         [] o = "enable-auto-restarts" -> conf' = [conf EXCEPT !.permitted = ~@]
    /\ due' = Units
    /\ UNCHANGED <<leader, node, waiting, owner, hook>>

Elect(u) ==
    /\ u # leader
    /\ leader' = u
    /\ UNCHANGED <<conf, due, node, waiting, owner, hook>>

\* The leader grants a free lock to a waiting unit (Coordinator!handle).
Grant(op, u) ==
    /\ owner[op] = {}
    /\ u \in waiting[op]
    /\ owner' = [owner EXCEPT ![op] = {u}]
    /\ UNCHANGED <<leader, conf, due, node, waiting, hook>>

\* The state a hook of u starts from, and what is left of it on the machine.
Context(u, kind) ==
    [asked |-> {op \in Ops : u \in waiting[op]},
     held |-> {op \in Ops : u \in owner[op]},
     leads |-> u = leader /\ Units # {u},
     forced |-> in_run_deferred_hooks_action(kind),
     raised |-> FALSE] @@ node[u]

NodeOf(s) == [f \in DOMAIN InitNode |-> s[f]]

\* A hook (or action) runs.  A unit in error gets the hook that failed again;
\* actions still run on it.  The operator resumes units that are paused.
Run(u, kind, now, renders) ==
    LET s == Body(kind, Context(u, kind), conf, now, renders) IN
    /\ hook[u].phase = "idle"
    /\ hook[u].retry # "none" => kind \in AllActions \cup {hook[u].retry}
    /\ kind = "resume" => node[u].paused
    /\ now \subseteq {op \in Ops : u = leader /\ owner[op] = {}}
    /\ node' = [node EXCEPT ![u] = NodeOf(s)]
    /\ hook' = [hook EXCEPT ![u] =
                  [kind |-> kind, phase |-> IF s.raised THEN "raised" ELSE "done",
                   retry |-> hook[u].retry, seen |-> SeenOf(conf), asked |-> s.asked,
                   held |-> s.held]]
    /\ owner' = [op \in Ops |-> IF op \in s.held THEN {u} ELSE owner[op]]
    /\ due' = IF kind = "config-changed" THEN due \ {u} ELSE due
    /\ UNCHANGED <<leader, conf, waiting>>

\* The hook succeeds: _release_granted, _save_state and Config.save, then Juju
\* flushes the request.  main() of the actions does so after an error too.
HookEnd(u) ==
    LET h == hook[u] IN
    /\ h.phase = "done"
    /\ waiting' = [op \in Ops |-> IF op \in h.asked \ h.held
                                    THEN waiting[op] \cup {u}
                                    ELSE waiting[op] \ {u}]
    /\ owner' = [op \in Ops |-> IF op \in h.held THEN {} ELSE owner[op]]
    /\ node' = [node EXCEPT ![u].saved = h.seen]
    /\ hook' = [hook EXCEPT ![u] =
                  [NoHook EXCEPT !.retry = IF h.kind \in AllActions THEN h.retry
                                           ELSE "none"]]
    /\ UNCHANGED <<leader, conf, due>>

\* The hook fails: the requests it made are lost, a grant made in it too, and a
\* grant it found stays.  The tail of main() can fail after Config.save.
HookFail(u, late) ==
    LET h == hook[u] IN
    /\ h.kind \notin AllActions
    /\ \/ h.phase = "raised" /\ ~late
       \/ h.phase = "done" /\ HooksFail
    /\ owner' = [op \in Ops |-> IF op \in h.held /\ u \notin waiting[op]
                                  THEN {} ELSE owner[op]]
    /\ node' = IF late THEN [node EXCEPT ![u].saved = h.seen] ELSE node
    /\ hook' = [hook EXCEPT ![u] = [NoHook EXCEPT !.retry = h.kind]]
    /\ UNCHANGED <<leader, conf, due, waiting>>

Next ==
    \/ \E o \in Options : SetOption(o)
    \/ \E u \in Units : Elect(u)
    \/ \E op \in Ops, u \in Units : Grant(op, u)
    \/ \E u \in Units, kind \in HookKinds \cup Actions, now \in SUBSET Ops,
          renders \in BOOLEAN : Run(u, kind, now, renders)
    \/ \E u \in Units : HookEnd(u)
    \/ \E u \in Units, late \in BOOLEAN : HookFail(u, late)

Spec == Init /\ [][Next]_vars

-----------------------------------------------------------------------------
(* Correctness.                                                            *)

\* Type invariant: only configured versions are rendered, loaded and installed, and
\* only the requests of the charm's two operations are recorded.
TypeOK ==
    /\ leader \in Units
    /\ conf \in Conf
    /\ due \subseteq Units
    /\ node \in [Units -> Node]
    /\ waiting \in [Ops -> SUBSET Units]
    /\ owner \in [Ops -> SUBSET Units]
    /\ hook \in [Units -> Hook]

\* A broker that has not loaded the files on disk will be restarted: the unit
\* waits for the restart lock or has it, the restart is recorded as deferred, or
\* the unit is paused and loads them when it resumes.
NoLostRestart ==
    \A u \in Units :
        node[u].disk # node[u].running /\ hook[u].phase = "idle" =>
            \/ u \in waiting["restart"] \cup owner["restart"]
            \/ node[u].deferred
            \/ node[u].paused

\* "If lock is granted immediatly then upgrade will happen here, otherwise it
\* will happen in a subsequent hook": a hook that has the package lock upgrades
\* the packages and runs to its end, unless the unit is paused.
UpgradeHappensHere ==
    \A u \in Units :
        "pkg_upgrade" \in hook[u].held /\ hook[u].kind \in HookKinds /\ ~node[u].paused =>
            hook[u].phase # "raised"

\* With automatic restarts off, no hook restarts the broker (only an action of
\* the operator does), once the unit has been told so by config-changed.
RestartsAsTold ==
    \A u \in Units :
        node[u].policy /\ ~conf.permitted /\ node'[u].running # node[u].running
          => hook'[u].kind \in AllActions

RestartsStayOff == [][RestartsAsTold]_vars

\* Juju goes on sending hooks to a unit and lets each finish, sends config-changed
\* to a unit that is due one and is not stuck in another hook's error, and the
\* leader serves every request (Coordinator!EveryRequestServed).  A hook can be
\* started whenever none is running, so that the first is weak fairness of Run.
Fairness ==
    \A u \in Units :
        /\ []<>(hook[u].phase # "idle")
        /\ WF_vars(HookEnd(u) \/ \E late \in BOOLEAN : HookFail(u, late))
        /\ []<>(hook[u].retry = "none") => []<>(u \notin due)
        /\ \A op \in Ops : SF_vars(Grant(op, u))

FairSpec == Spec /\ Fairness

\* A change of the configuration reaches every broker, by way of one unit
\* restarting at a time, unless units stay paused.
ConfigReachesBrokers ==
    <>[](\A u \in Units : ~node[u].paused)
        => <>[](\A u \in Units : node[u].running = conf.content)

Abstract == INSTANCE SerialLock WITH
    Locks <- Ops, inside <- [op \in Ops |-> {u \in Units : op \in hook[u].held}]

\* The hooks use the locks as SerialLock allows: whatever is asked for, failed, paused or
\* handed over, a hook restarts or upgrades with a lock only while its unit is the one
\* that owns it, and no lock passes from one unit to another without being released.
ImplementsSerialLock == Abstract!Spec

=============================================================================
