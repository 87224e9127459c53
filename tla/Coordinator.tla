---------------------------- MODULE Coordinator ----------------------------
(***************************************************************************)
(* charmhelpers.coordinator.Serial, the lock service the charm serialises  *)
(* its restarts, package upgrades and cluster joins with.                  *)
(*                                                                         *)
(* A unit asks for a lock by recording a timestamp in its own bag of the   *)
(* peer relation (in a local file until the relation exists).  The leader, *)
(* at the start of each of its hooks, clears the grants that were released *)
(* and grants each free lock to the earliest request; the grants live in   *)
(* the leader settings, which every unit reads at the start of each of its *)
(* hooks.  A lock whose grant carries the timestamp of the unit's request  *)
(* is held until the end of that hook, which releases it.                  *)
(*                                                                         *)
(* What Juju does around a hook is part of the model:                      *)
(*  - one hook at a time runs on a unit, hooks of different units          *)
(*    interleave;                                                          *)
(*  - leader-set takes effect at once, relation-set only when the hook     *)
(*    succeeds; a failed hook loses what it had in memory and is retried;  *)
(*  - a peer's bag reaches another unit some time after it was written     *)
(*    (with that unit's relation-changed hook), and disappears with        *)
(*    relation-departed;                                                   *)
(*  - leadership moves between units.                                      *)
(*                                                                         *)
(* Timestamps are naturals, 0 standing for "no entry".  Clocks of          *)
(* different units are not synchronised, a unit's own clock advances.      *)
(* Units are numbered in the order of their names, which is how equal      *)
(* timestamps are sorted.                                                  *)
(***************************************************************************)
EXTENDS Naturals

CONSTANTS
    Units,      \* the units of the application, as naturals
    Locks,      \* the lock names (rabbit.COORD_KEYS)
    MaxTime,    \* bound: no clock goes beyond it
    Handover    \* how leadership moves: see Elect

ASSUME UnitsAssumption == Units \subseteq Nat /\ Units # {}
ASSUME MaxTimeAssumption == MaxTime \in Nat
ASSUME HandoverAssumption == Handover \in {"informed", "lease"}

VARIABLES
    leader,     \* the unit is_leader() is true on
    removed,    \* units that have left the application
    clock,      \* clock[u]: the last timestamp unit u has taken
    stored,     \* stored[u][l]: u's request as saved (bag or local file)
    view,       \* view[u][v][l]: v's request in the bag as delivered to u
    settings,   \* settings[v][l]: the grant to v in the leader settings
    phase,      \* phase[u]: "idle", "hook" (running), "saved" (atexit done)
    requests,   \* requests[u]: self.requests of the running hook
    grants      \* grants[u]: self.grants of the running hook

vars == <<leader, removed, clock, stored, view, settings, phase, requests,
          grants>>

Time == 0..MaxTime
Table == [Units -> [Locks -> Time]]   \* self.requests, self.grants
NoTable == [u \in Units |-> [l \in Locks |-> 0]]

-----------------------------------------------------------------------------
(* The decisions of the coordinator, as operators on requests and grants.  *)

\* The order of the queue: sorted((ts, unit)).
Before(t, u, s, v) == t < s \/ (t = s /\ u <= v)

\* unit == queue[0]: u has asked for l, and before everyone who has.
FirstInQueue(req, l, u) ==
    /\ req[u][l] # 0
    /\ \A v \in Units : req[v][l] # 0 => Before(req[u][l], u, req[v][l], v)

NobodyGranted(gr, l) == \A v \in Units : gr[v][l] = 0

\* Mutant of default_grant: the units that have the lock are not looked at.
default_grant_to_head(req, gr, l, u) == FirstInQueue(req, l, u)

\* Serial.default_grant: the head of the queue, if no unit has the lock.
default_grant(req, gr, l, u) == NobodyGranted(gr, l) /\ FirstInQueue(req, l, u)

\* Mutant of grant: the grant is stamped anew.
grant_restamped(req, gr, l, u) ==
    IF default_grant(req, gr, l, u)
      THEN [gr EXCEPT ![u][l] = req[u][l] + 1]
      ELSE gr

\* BaseCoordinator.grant of one lock to one unit.
grant(req, gr, l, u) ==
    IF default_grant(req, gr, l, u)
      THEN [gr EXCEPT ![u][l] = req[u][l]]
      ELSE gr

\* Mutants of Unreleased: all grants are cleared; no grant is.
UnreleasedNone(req, gr) == NoTable
UnreleasedAll(req, gr) == gr

\* The first loop of handle: the grants whose request still stands.
Unreleased(req, gr) ==
    [u \in Units |-> [l \in Locks |->
        IF gr[u][l] = req[u][l] THEN gr[u][l] ELSE 0]]

\* The second loop of handle.  It offers every lock to every requester; the
\* order does not matter, as only the head of the queue can take it.
handle(req, gr) ==
    LET kept == Unreleased(req, gr) IN
    [u \in Units |-> [l \in Locks |->
        IF default_grant(req, kept, l, u) THEN req[u][l] ELSE kept[u][l]]]

\* BaseCoordinator.granted, in the hook running on u.
granted(u, l) == requests[u][u][l] # 0 /\ grants[u][u][l] = requests[u][u][l]

\* Mutant of LoadedRequests: the unit's own entry is not loaded.
LoadedPeersOnly(u) == view[u]

\* self.requests after _load_state: u's own entry and the peers' bags.
LoadedRequests(u) == [view[u] EXCEPT ![u] = stored[u]]

-----------------------------------------------------------------------------
Init ==
    /\ leader \in Units
    /\ removed = {}
    /\ clock = [u \in Units |-> 0]
    /\ stored = NoTable
    /\ view = [u \in Units |-> NoTable]
    /\ settings = NoTable
    /\ phase = [u \in Units |-> "idle"]
    /\ requests = [u \in Units |-> NoTable]
    /\ grants = [u \in Units |-> NoTable]

\* The atstart callbacks: initialize (with _load_state), then handle.
HookStart(u) ==
    /\ u \notin removed
    /\ phase[u] = "idle"
    /\ phase' = [phase EXCEPT ![u] = "hook"]
    /\ requests' = [requests EXCEPT ![u] = LoadedRequests(u)]
    /\ grants' = [grants EXCEPT ![u] =
                    IF u = leader THEN handle(LoadedRequests(u), settings)
                                  ELSE settings]
    /\ UNCHANGED <<leader, removed, clock, stored, view, settings>>

\* acquire(lock), called by the charm in a hook: record a request unless there
\* is one (t is its timestamp); the leader, if it does not hold the lock,
\* tries to grant it to itself.
acquire(u, l, t) ==
    LET new == requests[u][u][l] = 0
        req == [requests[u] EXCEPT ![u][l] = t]
    IN  /\ phase[u] = "hook"
        /\ IF new THEN t > clock[u] ELSE t = requests[u][u][l]
        /\ clock' = [clock EXCEPT ![u] = IF new THEN t ELSE clock[u]]
        /\ requests' = [requests EXCEPT ![u] = req]
        /\ grants' = IF u = leader
                       THEN [grants EXCEPT ![u] = grant(req, grants[u], l, u)]
                       ELSE grants
        /\ UNCHANGED <<leader, removed, stored, view, settings, phase>>

\* The atexit callbacks, last registered first: _release_granted, then
\* _save_state, of which only leader_set takes effect at once.
SaveState(u) ==
    /\ phase[u] = "hook"
    /\ requests' = [requests EXCEPT ![u][u] =
                      [l \in Locks |-> IF granted(u, l) THEN 0
                                       ELSE requests[u][u][l]]]
    /\ settings' = IF u = leader THEN grants[u] ELSE settings
    /\ phase' = [phase EXCEPT ![u] = "saved"]
    /\ UNCHANGED <<leader, removed, clock, stored, view, grants>>

\* The hook process exits with success: Juju flushes its relation-set.
Commit(u) ==
    /\ phase[u] = "saved"
    /\ stored' = [stored EXCEPT ![u] = requests[u][u]]
    /\ phase' = [phase EXCEPT ![u] = "idle"]
    /\ requests' = [requests EXCEPT ![u] = NoTable]
    /\ grants' = [grants EXCEPT ![u] = NoTable]
    /\ UNCHANGED <<leader, removed, clock, view, settings>>

\* The hook raises, before or after the atexit callbacks (the tail of main()
\* runs after them), or is not registered: nothing more is saved, and Juju
\* retries it or goes on to the next hook.
HookFail(u) ==
    /\ phase[u] # "idle"
    /\ phase' = [phase EXCEPT ![u] = "idle"]
    /\ requests' = [requests EXCEPT ![u] = NoTable]
    /\ grants' = [grants EXCEPT ![u] = NoTable]
    /\ UNCHANGED <<leader, removed, clock, stored, view, settings>>

\* Juju brings v's bag to u (relation-joined, relation-changed).
PeerChanged(u, v) ==
    /\ u \notin removed /\ v \notin removed
    /\ u # v
    /\ phase[u] = "idle"
    /\ view[u][v] # stored[v]
    /\ view' = [view EXCEPT ![u][v] = stored[v]]
    /\ UNCHANGED <<leader, removed, clock, stored, settings, phase, requests,
                   grants>>

\* v has left: relation-departed on u.
PeerDeparted(u, v) ==
    /\ u \notin removed /\ v \in removed
    /\ phase[u] = "idle"
    /\ view[u][v] # [l \in Locks |-> 0]
    /\ view' = [view EXCEPT ![u][v] = [l \in Locks |-> 0]]
    /\ UNCHANGED <<leader, removed, clock, stored, settings, phase, requests,
                   grants>>

\* juju remove-unit, after the unit's last hook.
UnitRemoved(u) ==
    /\ u \notin removed
    /\ u # leader
    /\ phase[u] = "idle"
    /\ removed' = removed \cup {u}
    /\ UNCHANGED <<leader, clock, stored, view, settings, phase, requests,
                   grants>>

\* A grant in the leader settings that its unit can use, now or when it next
\* runs a hook.
InForce(v, l) ==
    v \notin removed /\ settings[v][l] # 0 /\ settings[v][l] = stored[v][l]

\* Every request that a grant in force answers has been delivered to u.
Informed(u) ==
    \A v \in Units \ {u} : \A l \in Locks :
        InForce(v, l) => view[u][v][l] = stored[v][l]

\* Leadership moves to u.  With "lease" it may do so at any time, which is all
\* that Juju promises (the old leader's lease expires).  With "informed" it
\* moves while the old leader is not between its atstart and its atexit
\* callbacks and the new one runs no hook and knows the requests in force.
Elect(u) ==
    /\ u \notin removed
    /\ u # leader
    /\ Handover = "informed" => /\ phase[leader] # "hook"
                                /\ phase[u] = "idle"
                                /\ Informed(u)
    /\ leader' = u
    /\ UNCHANGED <<removed, clock, stored, view, settings, phase, requests,
                   grants>>

Next ==
    \/ \E u \in Units : HookStart(u)
    \/ \E u \in Units, l \in Locks, t \in Time : acquire(u, l, t)
    \/ \E u \in Units : SaveState(u)
    \/ \E u \in Units : Commit(u)
    \/ \E u \in Units : HookFail(u)
    \/ \E u, v \in Units : PeerChanged(u, v)
    \/ \E u, v \in Units : PeerDeparted(u, v)
    \/ \E u \in Units : UnitRemoved(u)
    \/ \E u \in Units : Elect(u)

Spec == Init /\ [][Next]_vars

-----------------------------------------------------------------------------
(* Correctness.                                                            *)

\* Type invariant: what the variables range over; a table has an entry for every
\* unit and lock, and no timestamp is beyond the clock bound.
TypeOK ==
    /\ leader \in Units
    /\ removed \subseteq Units
    /\ clock \in [Units -> Time]
    /\ stored \in Table
    /\ view \in [Units -> Table]
    /\ settings \in Table
    /\ phase \in [Units -> {"idle", "hook", "saved"}]
    /\ requests \in [Units -> Table]
    /\ grants \in [Units -> Table]

\* u is in a hook that may run what lock l protects.
Holds(u, l) == phase[u] = "hook" /\ granted(u, l)

\* "Sometimes, only a single unit may perform an operation": no two units are
\* in hooks that see the same lock granted, whatever was delivered late, has
\* failed or was elected in between.
MutualExclusion ==
    \A l \in Locks : \A u, v \in Units : Holds(u, l) /\ Holds(v, l) => u = v

\* A unit's saved request leaves the queue, or is replaced by a later one, only
\* while the leader settings grant that very request: no hook that fails, no
\* revoked grant and no leader change makes a waiting unit lose its place.
RequestKept ==
    [][\A u \in Units, l \in Locks :
         stored[u][l] # 0 /\ stored'[u][l] # stored[u][l]
           => settings[u][l] = stored[u][l]]_vars

\* A grant that its unit can still use is never withdrawn or replaced, neither
\* by the leader's later decisions nor by a new leader's first ones.
GrantStands ==
    [][\A u \in Units, l \in Locks :
         InForce(u, l) /\ stored'[u][l] = stored[u][l] /\ u \notin removed'
           => settings'[u][l] = settings[u][l]]_vars

\* What Juju guarantees of a unit: hooks keep being started, one that is retried
\* again and again gets through, and bags are delivered.
Fairness ==
    \A u \in Units :
        /\ WF_vars(HookStart(u))
        /\ SF_vars(SaveState(u))
        /\ SF_vars(Commit(u))
        /\ \A v \in Units \ {u} : SF_vars(PeerChanged(u, v) \/ PeerDeparted(u, v))

FairSpec == Spec /\ Fairness

\* Once leadership settles, every saved request is granted and released, unless
\* its unit is removed: nobody waits for a lock forever, not even behind a unit
\* that was removed while it held the grant.
EveryRequestServed ==
    <>[][leader' = leader]_vars =>
        \A u \in Units, l \in Locks :
            stored[u][l] # 0 ~> (stored[u][l] = 0 \/ u \in removed)

-----------------------------------------------------------------------------
(* The inductive invariant behind the safety properties ("informed").      *)

Exclusive(gr) ==
    \A l \in Locks : \A u, v \in Units : gr[u][l] # 0 /\ gr[v][l] # 0 => u = v

\* Each lock is granted to at most one unit, in the leader settings and in the
\* memory of the leader's hook.
OneGrant ==
    /\ Exclusive(settings)
    /\ phase[leader] = "hook" => Exclusive(grants[leader])

\* In its hook, the leader keeps the grants in force and grants only what it has
\* seen requested.
LeaderKeeps ==
    phase[leader] = "hook" =>
        \A v \in Units, l \in Locks :
            /\ InForce(v, l) => grants[leader][v][l] = settings[v][l]
            /\ grants[leader][v][l] # 0
                 => grants[leader][v][l] = requests[leader][v][l]

\* Except on the leader, what a hook sees granted still is in force.
HolderInForce ==
    \A u \in Units \ {leader}, l \in Locks : Holds(u, l) => InForce(u, l)

\* Until it is saved, a hook keeps the request it has loaded; a request that is
\* about to be deleted was granted.
OwnRequest ==
    \A u \in Units, l \in Locks :
        stored[u][l] # 0 /\ requests[u][u][l] # stored[u][l] =>
            /\ phase[u] # "hook"
            /\ phase[u] = "saved" => /\ requests[u][u][l] = 0
                                     /\ settings[u][l] = stored[u][l]

\* During a hook, the peers' requests are the bags as delivered.
PeerRequests ==
    \A u, v \in Units : phase[u] = "hook" /\ u # v => requests[u][v] = view[u][v]

\* A request that is not saved yet is later than whatever is known of its unit.
FreshRequest ==
    \A v \in Units, l \in Locks :
        LET r == requests[v][v][l] IN
        phase[v] # "idle" /\ r # 0 /\ r # stored[v][l] =>
            /\ settings[v][l] < r
            /\ \A u \in Units : /\ u # v => view[u][v][l] < r
                                /\ phase[u] = "hook" /\ (u # v \/ v # leader)
                                     => grants[u][v][l] < r

\* No timestamp of a unit is ahead of its clock.
PastTimes ==
    \A v \in Units, l \in Locks :
        /\ settings[v][l] <= clock[v]
        /\ stored[v][l] <= clock[v]
        /\ requests[v][v][l] <= clock[v]
        /\ \A u \in Units : view[u][v][l] <= clock[v] /\ grants[u][v][l] <= clock[v]

\* Only members run hooks, and the leader is one.
Active ==
    /\ leader \notin removed
    /\ \A u \in Units : phase[u] # "idle" => u \notin removed

\* The inductive invariant: a leader that has been told of the requests in
\* force never gives away a lock that somebody may still use.
IInv ==
    /\ TypeOK
    /\ OneGrant
    /\ Informed(leader)
    /\ LeaderKeeps
    /\ HolderInForce
    /\ OwnRequest
    /\ PeerRequests
    /\ FreshRequest
    /\ PastTimes
    /\ Active

-----------------------------------------------------------------------------
(* What the service promises its users is SerialLock.  A unit owns a lock  *)
(* while a grant it can use is in force; the leader, whose own grant is    *)
(* not in the leader settings before its hook ends, also while it holds it.*)

Owner == [l \in Locks |->
            {u \in Units : InForce(u, l) \/ (u = leader /\ Holds(u, l))}]

Inside == [l \in Locks |-> {u \in Units : Holds(u, l)}]

Abstract == INSTANCE SerialLock WITH owner <- Owner, inside <- Inside

\* Every behaviour of the coordinator is one of the abstract lock.
ImplementsSerialLock == Abstract!Spec

=============================================================================
