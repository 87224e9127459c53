------------------------- MODULE CoordinatorProofs -------------------------
(***************************************************************************)
(* The safety of the serial coordinator, proved for any set of units and   *)
(* locks and any clock bound, for leadership that moves as described by    *)
(* Handover = "informed".                                                  *)
(***************************************************************************)
EXTENDS Coordinator, TLAPS

-----------------------------------------------------------------------------
(* The operators.                                                          *)

\* The queue has at most one head: sorted((ts, unit)) is a total order.
LEMMA OneHead ==
    ASSUME NEW req \in Table, NEW l \in Locks, NEW u \in Units, NEW v \in Units,
           FirstInQueue(req, l, u), FirstInQueue(req, l, v)
    PROVE  u = v
  BY UnitsAssumption, MaxTimeAssumption DEF FirstInQueue, Before, Table, Time

\* What the first loop of handle leaves.
LEMMA UnreleasedKept ==
    ASSUME NEW req \in Table, NEW gr \in Table, Exclusive(gr)
    PROVE  /\ Unreleased(req, gr) \in Table
           /\ Exclusive(Unreleased(req, gr))
           /\ \A u \in Units, l \in Locks :
                Unreleased(req, gr)[u][l] = IF gr[u][l] = req[u][l] THEN gr[u][l] ELSE 0
  BY MaxTimeAssumption DEF Unreleased, Exclusive, Table, Time

\* handle leaves at most one grant of each lock, keeps the grants whose request
\* still stands and grants nothing that is not requested.
LEMMA HandleGrants ==
    ASSUME NEW req \in Table, NEW gr \in Table, Exclusive(gr)
    PROVE  /\ handle(req, gr) \in Table
           /\ Exclusive(handle(req, gr))
           /\ \A u \in Units, l \in Locks :
                /\ gr[u][l] = req[u][l] /\ gr[u][l] # 0 => handle(req, gr)[u][l] = gr[u][l]
                /\ handle(req, gr)[u][l] \in {0, req[u][l]}
  <1> DEFINE kept == Unreleased(req, gr)
             h == handle(req, gr)
  <1>1. /\ kept \in Table
        /\ Exclusive(kept)
        /\ \A u \in Units, l \in Locks :
             kept[u][l] = IF gr[u][l] = req[u][l] THEN gr[u][l] ELSE 0
    BY UnreleasedKept
  <1>2. h = [u \in Units |-> [l \in Locks |->
               IF default_grant(req, kept, l, u) THEN req[u][l] ELSE kept[u][l]]]
    BY DEF handle
  <1> HIDE DEF kept, h
  <1>3. h \in Table
    BY <1>1, <1>2 DEF Table
  <1>4. \A u \in Units, l \in Locks :
          h[u][l] = IF default_grant(req, kept, l, u) THEN req[u][l] ELSE kept[u][l]
    BY <1>2
  <1>5. Exclusive(h)
    <2> SUFFICES ASSUME NEW l \in Locks, NEW u \in Units, NEW v \in Units,
                        h[u][l] # 0, h[v][l] # 0
                 PROVE  u = v
      BY DEF Exclusive
    <2>1. CASE NobodyGranted(kept, l)
      <3>1. FirstInQueue(req, l, u) /\ FirstInQueue(req, l, v)
        BY <2>1, <1>4 DEF default_grant, NobodyGranted
      <3> QED BY <3>1, OneHead
    <2>2. CASE ~NobodyGranted(kept, l)
      <3>1. kept[u][l] # 0 /\ kept[v][l] # 0
        BY <2>2, <1>4 DEF default_grant
      <3> QED BY <3>1, <1>1 DEF Exclusive
    <2> QED BY <2>1, <2>2
  <1>6. ASSUME NEW u \in Units, NEW l \in Locks
        PROVE  /\ gr[u][l] = req[u][l] /\ gr[u][l] # 0 => h[u][l] = gr[u][l]
               /\ h[u][l] \in {0, req[u][l]}
    BY <1>1, <1>4
  <1> QED BY <1>3, <1>5, <1>6 DEF h

\* grant changes at most the entry of the unit it is called for, to the
\* timestamp of that unit's request, and only if no unit has the lock.
LEMMA GrantGrants ==
    ASSUME NEW req \in Table, NEW gr \in Table, NEW k \in Locks, NEW w \in Units,
           Exclusive(gr)
    PROVE  /\ grant(req, gr, k, w) \in Table
           /\ Exclusive(grant(req, gr, k, w))
           /\ \A u \in Units, l \in Locks :
                /\ gr[u][l] # 0 => grant(req, gr, k, w)[u][l] = gr[u][l]
                /\ grant(req, gr, k, w)[u][l] # gr[u][l]
                     => u = w /\ l = k /\ grant(req, gr, k, w)[u][l] = req[u][l]
  <1>1. CASE default_grant(req, gr, k, w)
    <2>1. grant(req, gr, k, w) = [gr EXCEPT ![w][k] = req[w][k]]
      BY <1>1 DEF grant
    <2>2. \A u \in Units : gr[u][k] = 0
      BY <1>1 DEF default_grant, NobodyGranted
    <2> QED BY <2>1, <2>2 DEF Table, Exclusive
  <1>2. CASE ~default_grant(req, gr, k, w)
    <2>1. grant(req, gr, k, w) = gr
      BY <1>2 DEF grant
    <2> QED BY <2>1
  <1> QED BY <1>1, <1>2

-----------------------------------------------------------------------------
(* Type correctness: whatever the handover.                                *)

\* The requests a hook loads are a table.
LEMMA LoadedType ==
    ASSUME TypeOK, NEW u \in Units
    PROVE  /\ LoadedRequests(u) \in Table
           /\ LoadedRequests(u)[u] = stored[u]
           /\ \A v \in Units : v # u => LoadedRequests(u)[v] = view[u][v]
  BY DEF LoadedRequests, TypeOK, Table

\* handle and grant return tables even of tables with several grants of a lock.
LEMMA DecisionType ==
    ASSUME NEW req \in Table, NEW gr \in Table
    PROVE  /\ handle(req, gr) \in Table
           /\ \A l \in Locks, u \in Units : grant(req, gr, l, u) \in Table
  <1>1. Unreleased(req, gr) \in Table
    BY MaxTimeAssumption DEF Unreleased, Table, Time
  <1>2. handle(req, gr) \in Table
    BY <1>1 DEF handle, Table
  <1>3. ASSUME NEW l \in Locks, NEW u \in Units
        PROVE  grant(req, gr, l, u) \in Table
    BY DEF grant, Table
  <1> QED BY <1>2, <1>3

\* The empty table is a table.
LEMMA NoTableType == NoTable \in Table
  BY MaxTimeAssumption DEF NoTable, Table, Time

\* Every step preserves the type invariant.
LEMMA TypeStep ==
    ASSUME TypeOK, [Next]_vars
    PROVE  TypeOK'
  <1> USE DEF TypeOK
  <1>1. ASSUME NEW u \in Units, HookStart(u) PROVE TypeOK'
    <2>1. /\ LoadedRequests(u) \in Table
          /\ handle(LoadedRequests(u), settings) \in Table
      BY LoadedType, DecisionType
    <2> QED BY <1>1, <2>1 DEF HookStart
  <1>2. ASSUME NEW u \in Units, NEW l \in Locks, NEW t \in Time, acquire(u, l, t)
        PROVE  TypeOK'
    <2> DEFINE req == [requests[u] EXCEPT ![u][l] = t]
    <2>1. req \in Table
      BY DEF Table
    <2>2. grant(req, grants[u], l, u) \in Table
      BY <2>1, DecisionType
    <2>3. /\ requests' = [requests EXCEPT ![u] = req]
          /\ grants' = IF u = leader
                         THEN [grants EXCEPT ![u] = grant(req, grants[u], l, u)]
                         ELSE grants
          /\ UNCHANGED <<leader, removed, stored, view, settings, phase>>
          /\ clock' \in [Units -> Time]
      BY <1>2 DEF acquire
    <2> HIDE DEF req
    <2> QED BY <2>1, <2>2, <2>3
  <1>3. ASSUME NEW u \in Units, SaveState(u) PROVE TypeOK'
    <2>1. requests' \in [Units -> Table]
      BY <1>3, MaxTimeAssumption DEF SaveState, Table, Time
    <2> QED BY <1>3, <2>1 DEF SaveState
  <1>4. ASSUME NEW u \in Units, Commit(u) PROVE TypeOK'
    <2>1. stored' \in Table
      BY <1>4 DEF Commit, Table
    <2> QED BY <1>4, <2>1, NoTableType DEF Commit
  <1>5. ASSUME NEW u \in Units, HookFail(u) PROVE TypeOK'
    BY <1>5, NoTableType DEF HookFail
  <1>6. ASSUME NEW u \in Units, NEW v \in Units, PeerChanged(u, v) PROVE TypeOK'
    BY <1>6 DEF PeerChanged, Table
  <1>7. ASSUME NEW u \in Units, NEW v \in Units, PeerDeparted(u, v) PROVE TypeOK'
    BY <1>7, MaxTimeAssumption DEF PeerDeparted, Table, Time
  <1>8. ASSUME NEW u \in Units, UnitRemoved(u) PROVE TypeOK'
    BY <1>8 DEF UnitRemoved
  <1>9. ASSUME NEW u \in Units, Elect(u) PROVE TypeOK'
    BY <1>9 DEF Elect
  <1>10. CASE UNCHANGED vars
    BY <1>10 DEF vars
  <1> QED BY <1>1, <1>2, <1>3, <1>4, <1>5, <1>6, <1>7, <1>8, <1>9, <1>10 DEF Next

\* Type correctness of the coordinator, under either handover.
THEOREM TypeCorrect == Spec => []TypeOK
  <1>1. Init => TypeOK
    BY NoTableType, MaxTimeAssumption DEF Init, TypeOK, Time
  <1>2. TypeOK /\ [Next]_vars => TypeOK'
    BY TypeStep
  <1> QED BY <1>1, <1>2, PTL DEF Spec

-----------------------------------------------------------------------------
(* The inductive invariant, one lemma per action.                          *)

\* The start of a hook preserves the invariant: what the leader decides is
\* exclusive because it knows every request in force.
LEMMA HookStartStep ==
    ASSUME IInv, NEW u \in Units, HookStart(u)
    PROVE  IInv'
  <1> DEFINE req == LoadedRequests(u)
             gr == IF u = leader THEN handle(req, settings) ELSE settings
  <1>1. TypeOK /\ TypeOK'
    BY TypeStep DEF IInv, Next
  <1>2. /\ req \in Table
        /\ req[u] = stored[u]
        /\ \A v \in Units : v # u => req[v] = view[u][v]
    BY <1>1, LoadedType
  <1>3. /\ u \notin removed
        /\ phase[u] = "idle"
        /\ phase' = [phase EXCEPT ![u] = "hook"]
        /\ requests' = [requests EXCEPT ![u] = req]
        /\ grants' = [grants EXCEPT ![u] = gr]
        /\ UNCHANGED <<leader, removed, clock, stored, view, settings>>
    BY DEF HookStart
  <1>4. u = leader =>
          /\ Exclusive(gr)
          /\ \A v \in Units, l \in Locks :
               /\ settings[v][l] = req[v][l] /\ settings[v][l] # 0
                    => gr[v][l] = settings[v][l]
               /\ gr[v][l] \in {0, req[v][l]}
    BY <1>1, <1>2, HandleGrants DEF IInv, OneGrant, TypeOK
  <1>5. u # leader => gr = settings
    OBVIOUS
  <1>6. phase'[u] = "hook" /\ requests'[u] = req /\ grants'[u] = gr
    BY <1>1, <1>3 DEF TypeOK
  <1>7. ASSUME NEW v \in Units, v # u
        PROVE  phase'[v] = phase[v] /\ requests'[v] = requests[v] /\ grants'[v] = grants[v]
    BY <1>1, <1>3, <1>7 DEF TypeOK
  <1> HIDE DEF req, gr
  <1>8. \A v \in Units, l \in Locks : InForce(v, l)' <=> InForce(v, l)
    BY <1>3 DEF InForce
  <1>9. OneGrant'
    BY <1>3, <1>4, <1>6, <1>7, <1>1 DEF IInv, OneGrant, Exclusive, TypeOK
  <1>10. Informed(leader)'
    BY <1>3, <1>8 DEF IInv, Informed
  <1>11. LeaderKeeps'
    <2>1. CASE u = leader
      <3> SUFFICES ASSUME NEW v \in Units, NEW l \in Locks
                   PROVE  /\ InForce(v, l) => gr[v][l] = settings[v][l]
                          /\ gr[v][l] # 0 => gr[v][l] = req[v][l]
        BY <1>3, <1>6, <1>8, <2>1 DEF LeaderKeeps
      <3>1. InForce(v, l) => settings[v][l] = req[v][l] /\ settings[v][l] # 0
        BY <1>2, <2>1 DEF IInv, Informed, InForce
      <3> QED BY <1>4, <2>1, <3>1
    <2>2. CASE u # leader
      BY <1>1, <1>3, <1>7, <1>8, <2>2 DEF IInv, LeaderKeeps, TypeOK
    <2> QED BY <2>1, <2>2
  <1>12. HolderInForce'
    <2> SUFFICES ASSUME NEW v \in Units \ {leader}, NEW l \in Locks, Holds(v, l)'
                 PROVE  InForce(v, l)
      BY <1>3, <1>8 DEF HolderInForce
    <2>1. CASE v = u
      BY <1>2, <1>3, <1>5, <1>6, <2>1 DEF Holds, granted, InForce
    <2>2. CASE v # u
      BY <1>7, <2>2 DEF Holds, granted, IInv, HolderInForce
    <2> QED BY <2>1, <2>2
  <1>13. OwnRequest'
    BY <1>2, <1>3, <1>6, <1>7 DEF IInv, OwnRequest
  <1>14. PeerRequests'
    BY <1>2, <1>3, <1>6, <1>7 DEF IInv, PeerRequests
  <1>15. FreshRequest'
    <2> SUFFICES ASSUME NEW v \in Units, NEW l \in Locks,
                        phase'[v] # "idle", requests'[v][v][l] # 0,
                        requests'[v][v][l] # stored[v][l]
                 PROVE  /\ settings[v][l] < requests'[v][v][l]
                        /\ \A w \in Units :
                             /\ w # v => view[w][v][l] < requests'[v][v][l]
                             /\ phase'[w] = "hook" /\ (w # v \/ v # leader)
                                  => grants'[w][v][l] < requests'[v][v][l]
      BY <1>3 DEF FreshRequest
    <2>1. v # u
      BY <1>2, <1>6
    <2>2. /\ settings[v][l] < requests[v][v][l]
          /\ \A w \in Units : /\ w # v => view[w][v][l] < requests[v][v][l]
                              /\ phase[w] = "hook" /\ (w # v \/ v # leader)
                                   => grants[w][v][l] < requests[v][v][l]
      BY <1>7, <2>1 DEF IInv, FreshRequest
    <2>3. requests[v][v][l] \in Time /\ requests[v][v][l] # 0
      BY <1>1, <1>7, <2>1 DEF TypeOK, Table
    <2>4. gr[v][l] < requests[v][v][l]
      <3>1. CASE u = leader
        <4>1. gr[v][l] \in {0, view[u][v][l]}
          BY <1>2, <1>4, <2>1, <3>1
        <4> QED BY <2>1, <2>2, <2>3, <4>1, MaxTimeAssumption DEF Time
      <3>2. CASE u # leader
        BY <1>5, <2>2, <3>2
      <3> QED BY <3>1, <3>2
    <2> QED BY <1>6, <1>7, <2>1, <2>2, <2>4
  <1>16. PastTimes'
    <2>1. ASSUME NEW v \in Units, NEW l \in Locks PROVE gr[v][l] <= clock[v]
      <3>1. clock[v] \in Nat
        BY <1>1, MaxTimeAssumption DEF TypeOK, Time
      <3>2. gr[v][l] \in {0, settings[v][l], stored[v][l], view[u][v][l]}
        BY <1>2, <1>4, <1>5
      <3> QED BY <3>1, <3>2 DEF IInv, PastTimes
    <2> QED BY <1>2, <1>3, <1>6, <1>7, <2>1 DEF IInv, PastTimes
  <1>17. Active'
    BY <1>3, <1>6, <1>7 DEF IInv, Active
  <1> QED BY <1>1, <1>9, <1>10, <1>11, <1>12, <1>13, <1>14, <1>15, <1>16, <1>17
          DEF IInv

\* A request preserves the invariant: its timestamp is new, and the leader takes
\* only a lock that nobody has.
LEMMA AcquireStep ==
    ASSUME IInv, NEW u \in Units, NEW k \in Locks, NEW t \in Time, acquire(u, k, t)
    PROVE  IInv'
  <1> DEFINE req == [requests[u] EXCEPT ![u][k] = t]
             gr == IF u = leader THEN grant(req, grants[u], k, u) ELSE grants[u]
  <1>1. TypeOK /\ TypeOK'
    BY TypeStep DEF IInv, Next
  <1>2. /\ phase[u] = "hook"
        /\ IF requests[u][u][k] = 0 THEN t > clock[u] ELSE t = requests[u][u][k]
        /\ clock' = [clock EXCEPT ![u] = IF requests[u][u][k] = 0 THEN t ELSE clock[u]]
        /\ requests' = [requests EXCEPT ![u] = req]
        /\ grants' = [grants EXCEPT ![u] = gr]
        /\ UNCHANGED <<leader, removed, stored, view, settings, phase>>
    BY <1>1 DEF acquire, TypeOK
  <1>3. /\ req \in Table
        /\ \A v \in Units, l \in Locks :
             req[v][l] = IF v = u /\ l = k THEN t ELSE requests[u][v][l]
        /\ \A v \in Units : v # u => req[v] = requests[u][v]
    BY <1>1 DEF TypeOK, Table
  <1>4. /\ u = leader => Exclusive(gr)
        /\ \A v \in Units, l \in Locks :
             /\ gr[v][l] \in Time
             /\ u = leader /\ grants[u][v][l] # 0 => gr[v][l] = grants[u][v][l]
             /\ gr[v][l] # grants[u][v][l] =>
                  u = leader /\ v = u /\ l = k /\ gr[v][l] = req[v][l]
    <2>1. CASE u = leader
      <3> DEFINE old == grants[u]
      <3>1. Exclusive(old)
        BY <1>2, <2>1 DEF IInv, OneGrant
      <3>2. old \in Table
        BY <1>1 DEF TypeOK
      <3>3. gr = grant(req, old, k, u)
        BY <2>1
      <3> HIDE DEF req, gr, old
      <3>4. /\ gr \in Table
            /\ Exclusive(gr)
            /\ \A v \in Units, l \in Locks :
                 /\ old[v][l] # 0 => gr[v][l] = old[v][l]
                 /\ gr[v][l] # old[v][l]
                      => v = u /\ l = k /\ gr[v][l] = req[v][l]
        <4>1. req \in Table
          BY <1>3
        <4>2. /\ grant(req, old, k, u) \in Table
              /\ Exclusive(grant(req, old, k, u))
          BY <3>1, <3>2, <4>1, GrantGrants
        <4>3. ASSUME NEW v \in Units, NEW l \in Locks
              PROVE  /\ old[v][l] # 0 => grant(req, old, k, u)[v][l] = old[v][l]
                     /\ grant(req, old, k, u)[v][l] # old[v][l]
                          => v = u /\ l = k /\ grant(req, old, k, u)[v][l] = req[v][l]
          BY <3>1, <3>2, <4>1, GrantGrants
        <4> QED BY <3>3, <4>2, <4>3
      <3>5. \A v \in Units, l \in Locks : gr[v][l] \in Time
        BY <3>4 DEF Table
      <3> QED BY <2>1, <3>4, <3>5 DEF old
    <2>2. CASE u # leader
      BY <1>1, <2>2 DEF TypeOK, Table
    <2> QED BY <2>1, <2>2
  <1>5. requests'[u] = req /\ grants'[u] = gr
    BY <1>1, <1>2 DEF TypeOK
  <1>6. ASSUME NEW v \in Units, v # u
        PROVE  requests'[v] = requests[v] /\ grants'[v] = grants[v] /\ clock'[v] = clock[v]
    BY <1>1, <1>2, <1>6 DEF TypeOK
  <1>7. clock'[u] = IF requests[u][u][k] = 0 THEN t ELSE clock[u]
    BY <1>1, <1>2 DEF TypeOK
  <1>8. \A v \in Units : clock[v] \in Nat /\ clock[v] <= clock'[v]
    BY <1>1, <1>2, <1>6, <1>7, MaxTimeAssumption DEF TypeOK, Time
  <1> HIDE DEF req, gr
  <1>9. \A v \in Units, l \in Locks : InForce(v, l)' <=> InForce(v, l)
    BY <1>2 DEF InForce
  \* The one entry that may change: it was 0 and becomes later than all others.
  <1>10. requests[u][u][k] # 0 => \A v \in Units, l \in Locks : req[v][l] = requests[u][v][l]
    BY <1>2, <1>3
  <1>11. requests[u][u][k] = 0 => stored[u][k] = 0
    BY <1>2 DEF IInv, OwnRequest
  <1>12. OneGrant'
    BY <1>2, <1>4, <1>5, <1>6, <1>1 DEF IInv, OneGrant, Exclusive, TypeOK
  <1>13. Informed(leader)'
    BY <1>2, <1>9 DEF IInv, Informed
  <1>14. LeaderKeeps'
    <2>1. CASE u = leader
      <3> SUFFICES ASSUME NEW v \in Units, NEW l \in Locks
                   PROVE  /\ InForce(v, l) => gr[v][l] = settings[v][l]
                          /\ gr[v][l] # 0 => gr[v][l] = req[v][l]
        BY <1>2, <1>5, <1>9, <2>1 DEF LeaderKeeps
      <3>1. /\ InForce(v, l) => grants[u][v][l] = settings[v][l]
            /\ grants[u][v][l] # 0 => grants[u][v][l] = requests[u][v][l]
        BY <1>2, <2>1 DEF IInv, LeaderKeeps
      <3>2. InForce(v, l) => gr[v][l] = settings[v][l]
        BY <1>4, <2>1, <3>1 DEF InForce
      <3>3. grants[u][v][l] # 0 => gr[v][l] = req[v][l]
        BY <1>2, <1>3, <1>4, <2>1, <3>1
      <3> QED BY <1>4, <3>2, <3>3
    <2>2. CASE u # leader
      BY <1>1, <1>2, <1>6, <1>9, <2>2 DEF IInv, LeaderKeeps, TypeOK
    <2> QED BY <2>1, <2>2
  <1>15. HolderInForce'
    <2> SUFFICES ASSUME NEW v \in Units \ {leader}, NEW l \in Locks, Holds(v, l)'
                 PROVE  Holds(v, l)
      BY <1>2, <1>9 DEF HolderInForce, IInv
    <2>1. CASE v # u
      BY <1>2, <1>6, <2>1 DEF Holds, granted
    <2>2. CASE v = u
      <3>1. gr[u][l] = grants[u][u][l] /\ gr[u][l] = req[u][l] /\ req[u][l] # 0
        BY <1>4, <1>5, <2>2 DEF Holds, granted
      <3>2. grants[u][u][l] <= clock[u]
        BY DEF IInv, PastTimes
      <3>3. req[u][l] = requests[u][u][l]
        BY <1>2, <1>3, <1>8, <3>1, <3>2, MaxTimeAssumption DEF Time
      <3> QED BY <1>2, <2>2, <3>1, <3>3 DEF Holds, granted
    <2> QED BY <2>1, <2>2
  <1>16. OwnRequest'
    <2> SUFFICES ASSUME NEW v \in Units, NEW l \in Locks, stored[v][l] # 0
                 PROVE  requests'[v][v][l] = requests[v][v][l]
      BY <1>2 DEF OwnRequest, IInv
    <2> QED BY <1>2, <1>3, <1>5, <1>6, <1>11
  <1>17. PeerRequests'
    BY <1>2, <1>3, <1>5, <1>6 DEF IInv, PeerRequests
  <1>18. FreshRequest'
    <2> SUFFICES ASSUME NEW v \in Units, NEW l \in Locks,
                        phase[v] # "idle", requests'[v][v][l] # 0,
                        requests'[v][v][l] # stored[v][l]
                 PROVE  /\ settings[v][l] < requests'[v][v][l]
                        /\ \A w \in Units :
                             /\ w # v => view[w][v][l] < requests'[v][v][l]
                             /\ phase[w] = "hook" /\ (w # v \/ v # leader)
                                  => grants'[w][v][l] < requests'[v][v][l]
      BY <1>2 DEF FreshRequest
    <2>1. ASSUME NEW w \in Units, w # v \/ v # leader
          PROVE  grants'[w][v][l] = grants[w][v][l]
      BY <1>4, <1>5, <1>6, <2>1
    <2>2. CASE v = u /\ l = k /\ requests[u][u][k] = 0
      <3>1. requests'[v][v][l] = t /\ t > clock[v] /\ t \in Nat
        BY <1>2, <1>3, <1>5, <2>2, MaxTimeAssumption DEF Time
      <3>2. \A x \in Time : x <= clock[v] => x < t
        BY <1>8, <3>1, MaxTimeAssumption DEF Time
      <3>3. /\ settings[v][l] \in Time
            /\ \A w \in Units : view[w][v][l] \in Time /\ grants[w][v][l] \in Time
        BY <1>1 DEF TypeOK, Table
      <3>4. /\ settings[v][l] <= clock[v]
            /\ \A w \in Units : view[w][v][l] <= clock[v] /\ grants[w][v][l] <= clock[v]
        BY DEF IInv, PastTimes
      <3> QED BY <2>1, <3>1, <3>2, <3>3, <3>4
    <2>3. CASE ~(v = u /\ l = k /\ requests[u][u][k] = 0)
      <3>1. requests'[v][v][l] = requests[v][v][l]
        BY <1>2, <1>3, <1>5, <1>6, <2>3
      <3>2. /\ settings[v][l] < requests[v][v][l]
            /\ \A w \in Units : /\ w # v => view[w][v][l] < requests[v][v][l]
                                /\ phase[w] = "hook" /\ (w # v \/ v # leader)
                                     => grants[w][v][l] < requests[v][v][l]
        BY <3>1 DEF IInv, FreshRequest
      <3> QED BY <2>1, <3>1, <3>2
    <2> QED BY <2>2, <2>3
  <1>19. PastTimes'
    <2> SUFFICES ASSUME NEW v \in Units, NEW l \in Locks
                 PROVE  /\ settings[v][l] <= clock'[v]
                        /\ stored[v][l] <= clock'[v]
                        /\ requests'[v][v][l] <= clock'[v]
                        /\ \A w \in Units : view[w][v][l] <= clock'[v]
                                            /\ grants'[w][v][l] <= clock'[v]
      BY <1>2 DEF PastTimes
    <2>1. \A x \in Time : x <= clock[v] => x <= clock'[v]
      BY <1>1, <1>8, MaxTimeAssumption DEF TypeOK, Time
    <2>2. /\ settings[v][l] \in Time /\ stored[v][l] \in Time
          /\ requests[v][v][l] \in Time
          /\ \A w \in Units : view[w][v][l] \in Time /\ grants[w][v][l] \in Time
      BY <1>1 DEF TypeOK, Table
    <2>3. /\ settings[v][l] <= clock'[v] /\ stored[v][l] <= clock'[v]
          /\ requests[v][v][l] <= clock'[v]
          /\ \A w \in Units : view[w][v][l] <= clock'[v] /\ grants[w][v][l] <= clock'[v]
      BY <2>1, <2>2 DEF IInv, PastTimes
    <2>4. requests'[v][v][l] <= clock'[v]
      BY <1>1, <1>2, <1>3, <1>5, <1>6, <1>7, <2>3, MaxTimeAssumption DEF TypeOK, Time
    <2>5. ASSUME NEW w \in Units PROVE grants'[w][v][l] <= clock'[v]
      BY <1>4, <1>5, <1>6, <2>3, <2>4
    <2> QED BY <2>3, <2>4, <2>5
  <1>20. Active'
    BY <1>2 DEF IInv, Active
  <1> QED BY <1>1, <1>12, <1>13, <1>14, <1>15, <1>16, <1>17, <1>18, <1>19, <1>20
          DEF IInv

\* The leader's atexit callbacks leave every grant in force as it was.
LEMMA SaveKeepsInForce ==
    ASSUME IInv, NEW u \in Units, SaveState(u), NEW v \in Units, NEW l \in Locks,
           InForce(v, l)
    PROVE  settings'[v][l] = settings[v][l]
  BY DEF SaveState, IInv, LeaderKeeps

\* The atexit callbacks preserve the invariant: what is released was granted.
LEMMA SaveStateStep ==
    ASSUME IInv, NEW u \in Units, SaveState(u)
    PROVE  IInv'
  <1>1. TypeOK /\ TypeOK'
    BY TypeStep DEF IInv, Next
  <1>2. /\ phase[u] = "hook"
        /\ settings' = IF u = leader THEN grants[u] ELSE settings
        /\ phase' = [phase EXCEPT ![u] = "saved"]
        /\ UNCHANGED <<leader, removed, clock, stored, view, grants>>
    BY DEF SaveState
  <1>3. /\ phase'[u] = "saved"
        /\ \A v \in Units : v # u => phase'[v] = phase[v]
    BY <1>1, <1>2 DEF TypeOK
  <1>4. /\ \A l \in Locks :
             requests'[u][u][l] = IF granted(u, l) THEN 0 ELSE requests[u][u][l]
        /\ \A v \in Units : v # u => requests'[v] = requests[v]
    BY <1>1 DEF SaveState, TypeOK, Table
  <1>5. \A v \in Units, l \in Locks :
          InForce(v, l) => InForce(v, l)' /\ settings'[v][l] = settings[v][l]
    BY <1>2, SaveKeepsInForce DEF InForce
  <1>6. u = leader => Exclusive(grants[leader])
    BY <1>2 DEF IInv, OneGrant
  <1>7. u # leader => \A v \in Units, l \in Locks : InForce(v, l)' => InForce(v, l)
    BY <1>2 DEF InForce
  <1>8. OneGrant'
    BY <1>1, <1>2, <1>3, <1>6 DEF IInv, OneGrant, Exclusive, TypeOK
  <1>9. Informed(leader)'
    <2> SUFFICES ASSUME NEW v \in Units \ {leader}, NEW l \in Locks, InForce(v, l)'
                 PROVE  view[leader][v][l] = stored[v][l]
      BY <1>2 DEF Informed
    <2>1. CASE u = leader
      <3>1. settings'[v][l] = grants[leader][v][l] /\ grants[leader][v][l] # 0
        BY <1>2, <2>1 DEF InForce
      <3>2. grants[leader][v][l] = requests[leader][v][l]
        BY <1>2, <2>1, <3>1 DEF IInv, LeaderKeeps
      <3>3. requests[leader][v][l] = view[leader][v][l]
        BY <1>2, <2>1 DEF IInv, PeerRequests
      <3> QED BY <1>2, <3>1, <3>2, <3>3 DEF InForce
    <2>2. CASE u # leader
      BY <1>7, <2>2 DEF IInv, Informed
    <2> QED BY <2>1, <2>2
  <1>10. LeaderKeeps'
    <2>1. CASE u = leader
      BY <1>2, <1>3, <2>1 DEF LeaderKeeps
    <2>2. CASE u # leader
      BY <1>1, <1>2, <1>3, <1>4, <1>7, <2>2 DEF IInv, LeaderKeeps, TypeOK
    <2> QED BY <2>1, <2>2
  <1>11. HolderInForce'
    <2> SUFFICES ASSUME NEW v \in Units \ {leader}, NEW l \in Locks, Holds(v, l)'
                 PROVE  InForce(v, l)
      BY <1>2, <1>5 DEF HolderInForce
    <2> QED BY <1>2, <1>3, <1>4 DEF Holds, granted, IInv, HolderInForce
  <1>12. OwnRequest'
    <2> SUFFICES ASSUME NEW v \in Units, NEW l \in Locks, stored[v][l] # 0,
                        requests'[v][v][l] # stored[v][l]
                 PROVE  /\ phase'[v] # "hook"
                        /\ phase'[v] = "saved" => /\ requests'[v][v][l] = 0
                                                  /\ settings'[v][l] = stored[v][l]
      BY <1>2 DEF OwnRequest
    <2>1. CASE v # u
      <3>1. /\ phase[v] # "hook"
            /\ phase[v] = "saved" => /\ requests[v][v][l] = 0
                                     /\ settings[v][l] = stored[v][l]
        BY <1>4, <2>1 DEF IInv, OwnRequest
      <3>2. phase[v] = "saved" => InForce(v, l)
        BY <3>1 DEF IInv, Active, InForce
      <3> QED BY <1>3, <1>4, <1>5, <2>1, <3>1, <3>2
    <2>2. CASE v = u
      <3>1. requests[u][u][l] = stored[u][l]
        BY <1>2, <2>2 DEF IInv, OwnRequest
      <3>2. granted(u, l) /\ requests'[u][u][l] = 0
        BY <1>4, <2>2, <3>1
      <3>3. grants[u][u][l] = stored[u][l]
        BY <3>1, <3>2 DEF granted
      <3>4. u # leader => settings[u][l] = stored[u][l]
        BY <1>2, <3>2 DEF IInv, HolderInForce, Holds, InForce
      <3>5. settings'[u][l] = stored[u][l]
        BY <1>2, <3>3, <3>4
      <3> QED BY <1>3, <2>2, <3>2, <3>5
    <2> QED BY <2>1, <2>2
  <1>13. PeerRequests'
    BY <1>2, <1>3, <1>4 DEF IInv, PeerRequests
  <1>14. FreshRequest'
    <2> SUFFICES ASSUME NEW v \in Units, NEW l \in Locks,
                        phase'[v] # "idle", requests'[v][v][l] # 0,
                        requests'[v][v][l] # stored[v][l]
                 PROVE  /\ settings'[v][l] < requests'[v][v][l]
                        /\ \A w \in Units :
                             /\ w # v => view[w][v][l] < requests'[v][v][l]
                             /\ phase'[w] = "hook" /\ (w # v \/ v # leader)
                                  => grants[w][v][l] < requests'[v][v][l]
      BY <1>2 DEF FreshRequest
    <2>1. requests'[v][v][l] = requests[v][v][l] /\ phase[v] # "idle"
      BY <1>2, <1>3, <1>4
    <2>2. /\ settings[v][l] < requests[v][v][l]
          /\ \A w \in Units : /\ w # v => view[w][v][l] < requests[v][v][l]
                              /\ phase[w] = "hook" /\ (w # v \/ v # leader)
                                   => grants[w][v][l] < requests[v][v][l]
      BY <2>1 DEF IInv, FreshRequest
    <2>3. settings'[v][l] < requests[v][v][l]
      <3>1. CASE u = leader /\ v = u
        <4>1. ~granted(u, l)
          BY <1>4, <3>1
        <4>2. grants[u][u][l] = 0
          BY <1>2, <2>1, <3>1, <4>1 DEF IInv, LeaderKeeps, granted
        <4>3. requests[v][v][l] \in Nat /\ requests[v][v][l] # 0
          BY <1>1, <2>1, MaxTimeAssumption DEF TypeOK, Table, Time
        <4> QED BY <1>2, <3>1, <4>2, <4>3
      <3>2. CASE u = leader /\ v # u
        BY <1>2, <2>2, <3>2
      <3>3. CASE u # leader
        BY <1>2, <2>2, <3>3
      <3> QED BY <3>1, <3>2, <3>3
    <2> QED BY <1>3, <2>1, <2>2, <2>3
  <1>15. PastTimes'
    <2>1. \A v \in Units : clock[v] \in Nat
      BY <1>1, MaxTimeAssumption DEF TypeOK, Time
    <2> QED BY <1>2, <1>4, <2>1 DEF IInv, PastTimes
  <1>16. Active'
    BY <1>2, <1>3 DEF IInv, Active
  <1> QED BY <1>1, <1>8, <1>9, <1>10, <1>11, <1>12, <1>13, <1>14, <1>15, <1>16
          DEF IInv

\* What a hook saves is the request it loaded, nothing, or one that the leader
\* has not granted yet: no grant comes into force at the end of a hook.
LEMMA CommitGrantsNothing ==
    ASSUME IInv, NEW u \in Units, Commit(u), NEW v \in Units, NEW l \in Locks,
           InForce(v, l)'
    PROVE  InForce(v, l) /\ stored'[v][l] = stored[v][l]
  <1>1. /\ TypeOK
        /\ phase[u] = "saved"
        /\ stored' = [stored EXCEPT ![u] = requests[u][u]]
        /\ UNCHANGED <<removed, settings>>
    BY DEF Commit, IInv
  <1>2. CASE v # u
    BY <1>1, <1>2 DEF InForce, TypeOK, Table
  <1>3. CASE v = u
    <2>1. stored'[v][l] = requests[u][u][l]
      BY <1>1, <1>3 DEF TypeOK, Table
    <2>2. requests[u][u][l] # 0 /\ settings[u][l] = requests[u][u][l]
      BY <1>1, <1>3, <2>1 DEF InForce
    <2>3. settings[u][l] \in Nat
      BY <1>1, MaxTimeAssumption DEF TypeOK, Table, Time
    <2>4. requests[u][u][l] = stored[u][l]
      BY <1>1, <2>2, <2>3 DEF IInv, FreshRequest
    <2> QED BY <1>1, <1>3, <2>1, <2>4 DEF InForce
  <1> QED BY <1>2, <1>3

\* The flush of the relation data preserves the invariant.
LEMMA CommitStep ==
    ASSUME IInv, NEW u \in Units, Commit(u)
    PROVE  IInv'
  <1>1. TypeOK /\ TypeOK'
    BY TypeStep DEF IInv, Next
  <1>2. /\ phase[u] = "saved"
        /\ phase' = [phase EXCEPT ![u] = "idle"]
        /\ stored' = [stored EXCEPT ![u] = requests[u][u]]
        /\ requests' = [requests EXCEPT ![u] = NoTable]
        /\ grants' = [grants EXCEPT ![u] = NoTable]
        /\ UNCHANGED <<leader, removed, clock, view, settings>>
    BY DEF Commit
  <1>3. /\ phase'[u] = "idle" /\ stored'[u] = requests[u][u]
        /\ requests'[u] = NoTable /\ grants'[u] = NoTable
        /\ \A v \in Units : v # u => /\ phase'[v] = phase[v]
                                     /\ stored'[v] = stored[v]
                                     /\ requests'[v] = requests[v]
                                     /\ grants'[v] = grants[v]
    BY <1>1, <1>2 DEF TypeOK, Table
  <1>4. \A v \in Units, l \in Locks :
          InForce(v, l)' => InForce(v, l) /\ stored'[v][l] = stored[v][l]
    BY CommitGrantsNothing
  <1>5. \A v \in Units, l \in Locks : NoTable[v][l] = 0
    BY DEF NoTable
  <1>6. OneGrant'
    BY <1>1, <1>2, <1>3 DEF IInv, OneGrant, Exclusive, TypeOK
  <1>7. Informed(leader)'
    BY <1>2, <1>4 DEF IInv, Informed
  <1>8. LeaderKeeps'
    BY <1>1, <1>2, <1>3, <1>4 DEF IInv, LeaderKeeps, TypeOK
  <1>9. HolderInForce'
    <2> SUFFICES ASSUME NEW v \in Units \ {leader}, NEW l \in Locks, Holds(v, l)'
                 PROVE  InForce(v, l)'
      BY <1>2 DEF HolderInForce
    <2>1. v # u
      BY <1>3 DEF Holds
    <2>2. InForce(v, l)
      BY <1>3, <2>1 DEF Holds, granted, IInv, HolderInForce
    <2> QED BY <1>2, <1>3, <2>1, <2>2 DEF InForce
  <1>10. OwnRequest'
    BY <1>2, <1>3 DEF IInv, OwnRequest
  <1>11. PeerRequests'
    BY <1>2, <1>3 DEF IInv, PeerRequests
  <1>12. FreshRequest'
    <2> SUFFICES ASSUME NEW v \in Units, NEW l \in Locks,
                        phase'[v] # "idle", requests'[v][v][l] # 0,
                        requests'[v][v][l] # stored'[v][l]
                 PROVE  /\ settings[v][l] < requests'[v][v][l]
                        /\ \A w \in Units :
                             /\ w # v => view[w][v][l] < requests'[v][v][l]
                             /\ phase'[w] = "hook" /\ (w # v \/ v # leader)
                                  => grants'[w][v][l] < requests'[v][v][l]
      BY <1>2 DEF FreshRequest
    <2>1. v # u
      BY <1>3
    <2>2. /\ settings[v][l] < requests[v][v][l]
          /\ \A w \in Units : /\ w # v => view[w][v][l] < requests[v][v][l]
                              /\ phase[w] = "hook" /\ (w # v \/ v # leader)
                                   => grants[w][v][l] < requests[v][v][l]
      BY <1>3, <2>1 DEF IInv, FreshRequest
    <2> QED BY <1>3, <2>1, <2>2
  <1>13. PastTimes'
    <2>1. \A v \in Units : clock[v] \in Nat
      BY <1>1, MaxTimeAssumption DEF TypeOK, Time
    <2> QED BY <1>2, <1>3, <1>5, <2>1 DEF IInv, PastTimes
  <1>14. Active'
    BY <1>2, <1>3 DEF IInv, Active
  <1> QED BY <1>1, <1>6, <1>7, <1>8, <1>9, <1>10, <1>11, <1>12, <1>13, <1>14
          DEF IInv

\* A failing hook preserves the invariant: it only forgets what was in memory.
LEMMA HookFailStep ==
    ASSUME IInv, NEW u \in Units, HookFail(u)
    PROVE  IInv'
  <1>1. TypeOK /\ TypeOK'
    BY TypeStep DEF IInv, Next
  <1>2. /\ phase' = [phase EXCEPT ![u] = "idle"]
        /\ requests' = [requests EXCEPT ![u] = NoTable]
        /\ grants' = [grants EXCEPT ![u] = NoTable]
        /\ UNCHANGED <<leader, removed, clock, stored, view, settings>>
    BY DEF HookFail
  <1>3. /\ phase'[u] = "idle" /\ requests'[u] = NoTable /\ grants'[u] = NoTable
        /\ \A v \in Units : v # u => /\ phase'[v] = phase[v]
                                     /\ requests'[v] = requests[v]
                                     /\ grants'[v] = grants[v]
    BY <1>1, <1>2 DEF TypeOK
  <1>4. \A v \in Units, l \in Locks : InForce(v, l)' <=> InForce(v, l)
    BY <1>2 DEF InForce
  <1>5. \A v \in Units, l \in Locks : NoTable[v][l] = 0
    BY DEF NoTable
  <1>6. OneGrant'
    BY <1>1, <1>2, <1>3 DEF IInv, OneGrant, Exclusive, TypeOK
  <1>7. Informed(leader)'
    BY <1>2, <1>4 DEF IInv, Informed
  <1>8. LeaderKeeps'
    BY <1>1, <1>2, <1>3, <1>4 DEF IInv, LeaderKeeps, TypeOK
  <1>9. HolderInForce'
    BY <1>2, <1>3, <1>4 DEF Holds, granted, IInv, HolderInForce
  <1>10. OwnRequest'
    BY <1>2, <1>3 DEF IInv, OwnRequest
  <1>11. PeerRequests'
    BY <1>2, <1>3 DEF IInv, PeerRequests
  <1>12. FreshRequest'
    <2> SUFFICES ASSUME NEW v \in Units, NEW l \in Locks,
                        phase'[v] # "idle", requests'[v][v][l] # 0,
                        requests'[v][v][l] # stored[v][l]
                 PROVE  /\ settings[v][l] < requests'[v][v][l]
                        /\ \A w \in Units :
                             /\ w # v => view[w][v][l] < requests'[v][v][l]
                             /\ phase'[w] = "hook" /\ (w # v \/ v # leader)
                                  => grants'[w][v][l] < requests'[v][v][l]
      BY <1>2 DEF FreshRequest
    <2>1. v # u
      BY <1>3
    <2>2. /\ settings[v][l] < requests[v][v][l]
          /\ \A w \in Units : /\ w # v => view[w][v][l] < requests[v][v][l]
                              /\ phase[w] = "hook" /\ (w # v \/ v # leader)
                                   => grants[w][v][l] < requests[v][v][l]
      BY <1>3, <2>1 DEF IInv, FreshRequest
    <2> QED BY <1>3, <2>1, <2>2
  <1>13. PastTimes'
    <2>1. \A v \in Units : clock[v] \in Nat
      BY <1>1, MaxTimeAssumption DEF TypeOK, Time
    <2> QED BY <1>2, <1>3, <1>5, <2>1 DEF IInv, PastTimes
  <1>14. Active'
    BY <1>2, <1>3 DEF IInv, Active
  <1> QED BY <1>1, <1>6, <1>7, <1>8, <1>9, <1>10, <1>11, <1>12, <1>13, <1>14
          DEF IInv

\* Deliveries: a bag as it is now, or nothing once its unit has left, reaches an
\* idle unit.
LEMMA DeliveryStep ==
    ASSUME IInv, NEW u \in Units, NEW v \in Units,
           PeerChanged(u, v) \/ PeerDeparted(u, v)
    PROVE  IInv'
  <1> DEFINE bag == IF v \in removed THEN [l \in Locks |-> 0] ELSE stored[v]
  <1>1. TypeOK /\ TypeOK'
    BY TypeStep DEF IInv, Next
  <1>2. /\ phase[u] = "idle"
        /\ view' = [view EXCEPT ![u][v] = bag]
        /\ UNCHANGED <<leader, removed, clock, stored, settings, phase, requests, grants>>
    BY DEF PeerChanged, PeerDeparted
  <1>3. /\ view'[u][v] = bag
        /\ \A w, x \in Units : ~(w = u /\ x = v) => view'[w][x] = view[w][x]
    BY <1>1, <1>2 DEF TypeOK, Table
  <1>4. \A l \in Locks : bag[l] = IF v \in removed THEN 0 ELSE stored[v][l]
    OBVIOUS
  <1> HIDE DEF bag
  <1>5. \A w \in Units, l \in Locks : InForce(w, l)' <=> InForce(w, l)
    BY <1>2 DEF InForce
  <1>6. OneGrant'
    BY <1>2 DEF IInv, OneGrant, Exclusive
  <1>7. Informed(leader)'
    BY <1>1, <1>2, <1>3, <1>4, <1>5 DEF IInv, Informed, InForce, TypeOK
  <1>8. LeaderKeeps'
    BY <1>2, <1>5 DEF IInv, LeaderKeeps
  <1>9. HolderInForce'
    BY <1>2, <1>5 DEF Holds, granted, IInv, HolderInForce
  <1>10. OwnRequest'
    BY <1>2 DEF IInv, OwnRequest
  <1>11. PeerRequests'
    BY <1>2, <1>3 DEF IInv, PeerRequests
  <1>12. FreshRequest'
    <2> SUFFICES ASSUME NEW x \in Units, NEW l \in Locks,
                        phase[x] # "idle", requests[x][x][l] # 0,
                        requests[x][x][l] # stored[x][l]
                 PROVE  \A w \in Units : w # x => view'[w][x][l] < requests[x][x][l]
      BY <1>2 DEF FreshRequest, IInv
    <2>1. \A w \in Units : w # x => view[w][x][l] < requests[x][x][l]
      BY DEF IInv, FreshRequest
    <2>2. stored[x][l] = 0
      BY <1>1 DEF IInv, OwnRequest, TypeOK
    <2>3. requests[x][x][l] \in Nat
      BY <1>1, MaxTimeAssumption DEF TypeOK, Table, Time
    <2> QED BY <1>3, <1>4, <2>1, <2>2, <2>3
  <1>13. PastTimes'
    <2>1. \A w \in Units : clock[w] \in Nat
      BY <1>1, MaxTimeAssumption DEF TypeOK, Time
    <2> QED BY <1>2, <1>3, <1>4, <2>1 DEF IInv, PastTimes
  <1>14. Active'
    BY <1>2 DEF IInv, Active
  <1> QED BY <1>1, <1>6, <1>7, <1>8, <1>9, <1>10, <1>11, <1>12, <1>13, <1>14
          DEF IInv

\* The removal of a unit preserves the invariant: its grants stop being in force.
LEMMA UnitRemovedStep ==
    ASSUME IInv, NEW u \in Units, UnitRemoved(u)
    PROVE  IInv'
  <1>1. TypeOK /\ TypeOK'
    BY TypeStep DEF IInv, Next
  <1>2. /\ u # leader /\ phase[u] = "idle"
        /\ removed' = removed \cup {u}
        /\ UNCHANGED <<leader, clock, stored, view, settings, phase, requests, grants>>
    BY DEF UnitRemoved
  <1>3. \A v \in Units, l \in Locks : InForce(v, l)' <=> InForce(v, l) /\ v # u
    BY <1>2 DEF InForce
  <1>4. OneGrant' /\ OwnRequest' /\ PeerRequests' /\ FreshRequest' /\ PastTimes'
    BY <1>2 DEF IInv, OneGrant, Exclusive, OwnRequest, PeerRequests, FreshRequest,
                PastTimes
  <1>5. Informed(leader)' /\ LeaderKeeps'
    BY <1>2, <1>3 DEF IInv, Informed, LeaderKeeps
  <1>6. HolderInForce'
    BY <1>2, <1>3 DEF Holds, granted, IInv, HolderInForce
  <1>7. Active'
    BY <1>2 DEF IInv, Active
  <1> QED BY <1>1, <1>4, <1>5, <1>6, <1>7 DEF IInv

\* The one step that needs the assumption on leadership.
LEMMA ElectStep ==
    ASSUME IInv, NEW u \in Units, Elect(u), Handover = "informed"
    PROVE  IInv'
  <1>1. TypeOK /\ TypeOK'
    BY TypeStep DEF IInv, Next
  <1>2. /\ u \notin removed /\ u # leader
        /\ phase[leader] # "hook" /\ phase[u] = "idle" /\ Informed(u)
        /\ leader' = u
        /\ UNCHANGED <<removed, clock, stored, view, settings, phase, requests, grants>>
    BY DEF Elect
  <1>3. \A v \in Units, l \in Locks : InForce(v, l)' <=> InForce(v, l)
    BY <1>2 DEF InForce
  <1>4. OneGrant' /\ OwnRequest' /\ PeerRequests' /\ PastTimes' /\ LeaderKeeps'
    BY <1>2 DEF IInv, OneGrant, Exclusive, OwnRequest, PeerRequests, PastTimes,
                LeaderKeeps
  <1>5. FreshRequest'
    BY <1>1, <1>2 DEF IInv, FreshRequest, TypeOK
  <1>6. Informed(leader)'
    BY <1>2, <1>3 DEF Informed
  <1>7. HolderInForce'
    BY <1>1, <1>2, <1>3 DEF Holds, granted, IInv, HolderInForce, TypeOK
  <1>8. Active'
    BY <1>2 DEF IInv, Active
  <1> QED BY <1>1, <1>4, <1>5, <1>6, <1>7, <1>8 DEF IInv

\* The invariant holds initially.
LEMMA InvariantInit == Init => IInv
  <1> SUFFICES ASSUME Init PROVE IInv
    OBVIOUS
  <1>1. TypeOK
    BY NoTableType, MaxTimeAssumption DEF Init, TypeOK, Time
  <1>2. \A u \in Units, l \in Locks : NoTable[u][l] = 0
    BY DEF NoTable
  <1>3. \A u \in Units, l \in Locks : ~InForce(u, l) /\ ~Holds(u, l)
    BY <1>2 DEF Init, InForce, Holds
  <1>4. OneGrant /\ Informed(leader) /\ LeaderKeeps /\ HolderInForce
    BY <1>2, <1>3 DEF Init, OneGrant, Exclusive, Informed, LeaderKeeps, HolderInForce
  <1>5. OwnRequest /\ PeerRequests /\ FreshRequest /\ Active
    BY <1>2 DEF Init, OwnRequest, PeerRequests, FreshRequest, Active
  <1>6. PastTimes
    BY <1>2 DEF Init, PastTimes
  <1> QED BY <1>1, <1>4, <1>5, <1>6 DEF IInv

\* Every step preserves the invariant, when leadership moves as "informed" says.
LEMMA InvariantStep ==
    ASSUME IInv, [Next]_vars, Handover = "informed"
    PROVE  IInv'
  <1>1. CASE UNCHANGED vars
    <2> USE <1>1 DEF vars
    <2>1. TypeOK' /\ OneGrant' /\ Active' /\ PeerRequests' /\ PastTimes'
      BY DEF IInv, TypeOK, OneGrant, Exclusive, Active, PeerRequests, PastTimes
    <2>2. \A v \in Units, l \in Locks : /\ InForce(v, l)' <=> InForce(v, l)
                                        /\ Holds(v, l)' <=> Holds(v, l)
      BY DEF InForce, Holds, granted
    <2>3. Informed(leader)' /\ LeaderKeeps' /\ HolderInForce'
      BY <2>2 DEF IInv, Informed, LeaderKeeps, HolderInForce
    <2>4. OwnRequest' /\ FreshRequest'
      BY DEF IInv, OwnRequest, FreshRequest
    <2> QED BY <2>1, <2>3, <2>4 DEF IInv
  <1>2. CASE Next
    BY <1>2, HookStartStep, AcquireStep, SaveStateStep, CommitStep, HookFailStep,
       DeliveryStep, UnitRemovedStep, ElectStep DEF Next
  <1> QED BY <1>1, <1>2

\* The strengthening of mutual exclusion holds in every reachable state.
THEOREM InvariantHolds ==
    ASSUME Handover = "informed"
    PROVE  Spec => []IInv
  <1>1. IInv /\ [Next]_vars => IInv'
    BY InvariantStep
  <1> QED BY <1>1, InvariantInit, PTL DEF Spec

-----------------------------------------------------------------------------
(* Safety.                                                                 *)

\* The invariant implies mutual exclusion.
LEMMA InvariantExcludes == IInv => MutualExclusion
  <1> SUFFICES ASSUME IInv, NEW l \in Locks, NEW u \in Units, NEW v \in Units,
                      Holds(u, l), Holds(v, l), u # v
               PROVE  FALSE
    BY DEF MutualExclusion
  <1>1. \A w \in Units : Holds(w, l) /\ w # leader
                           => InForce(w, l) /\ settings[w][l] # 0
    BY DEF IInv, HolderInForce, InForce
  <1>2. CASE u # leader /\ v # leader
    BY <1>1, <1>2 DEF IInv, OneGrant, Exclusive
  <1>3. ASSUME NEW w \in Units, Holds(leader, l), Holds(w, l), w # leader
        PROVE  FALSE
    <2>1. grants[leader][w][l] # 0
      BY <1>1, <1>3 DEF IInv, LeaderKeeps, Holds
    <2>2. grants[leader][leader][l] # 0
      BY <1>3 DEF Holds, granted
    <2> QED BY <1>3, <2>1, <2>2 DEF IInv, OneGrant, Exclusive, Holds, TypeOK
  <1> QED BY <1>2, <1>3

\* No two units are in hooks that hold the same lock.
THEOREM MutualExclusionHolds ==
    ASSUME Handover = "informed"
    PROVE  Spec => []MutualExclusion
  BY InvariantHolds, InvariantExcludes, PTL

\* A waiting unit's request is deleted only while it is granted.
THEOREM RequestKeptHolds ==
    ASSUME Handover = "informed"
    PROVE  Spec => RequestKept
  <1>1. ASSUME IInv, [Next]_vars, NEW u \in Units, NEW l \in Locks,
               stored[u][l] # 0, stored'[u][l] # stored[u][l]
        PROVE  settings[u][l] = stored[u][l]
    <2>1. Commit(u)
      <3>1. ASSUME NEW w \in Units, Commit(w), w # u PROVE FALSE
        BY <1>1, <3>1 DEF Commit, IInv, TypeOK, Table
      <3>2. (\E w \in Units : Commit(w)) \/ stored' = stored
        BY <1>1 DEF Next, vars, HookStart, acquire, SaveState, HookFail, PeerChanged,
                    PeerDeparted, UnitRemoved, Elect
      <3> QED BY <1>1, <3>1, <3>2
    <2>2. phase[u] = "saved" /\ requests[u][u][l] # stored[u][l]
      BY <1>1, <2>1 DEF Commit, IInv, TypeOK, Table
    <2> QED BY <1>1, <2>2 DEF IInv, OwnRequest
  <1>2. IInv /\ [Next]_vars =>
          [\A u \in Units, l \in Locks :
             stored[u][l] # 0 /\ stored'[u][l] # stored[u][l]
               => settings[u][l] = stored[u][l]]_vars
    BY <1>1
  <1> QED BY <1>2, InvariantHolds, PTL DEF Spec, RequestKept

\* No step changes a grant that is in force.
LEMMA GrantStandsStep ==
    ASSUME IInv, [Next]_vars, NEW u \in Units, NEW l \in Locks, InForce(u, l)
    PROVE  settings'[u][l] = settings[u][l]
  <1>1. (\E w \in Units : SaveState(w)) \/ settings' = settings
    BY DEF Next, vars, HookStart, acquire, Commit, HookFail, PeerChanged,
           PeerDeparted, UnitRemoved, Elect
  <1> QED BY <1>1, SaveKeepsInForce

\* A grant in force is neither withdrawn nor replaced.
THEOREM GrantStandsHolds ==
    ASSUME Handover = "informed"
    PROVE  Spec => GrantStands
  <1>1. IInv /\ [Next]_vars =>
          [\A u \in Units, l \in Locks :
             InForce(u, l) /\ stored'[u][l] = stored[u][l] /\ u \notin removed'
               => settings'[u][l] = settings[u][l]]_vars
    BY GrantStandsStep
  <1> QED BY <1>1, InvariantHolds, PTL DEF Spec, GrantStands

-----------------------------------------------------------------------------
(* Refinement: the coordinator implements SerialLock.                      *)

\* At most one unit owns a lock, and only an owner is inside.
OwnedOnce ==
    \A l \in Locks : /\ \A u, v \in Owner[l] : u = v
                     /\ Inside[l] \subseteq Owner[l]
                     /\ Owner[l] \subseteq Units

\* The invariant implies that a lock has one owner, who alone can be inside.
LEMMA OneOwner == IInv => OwnedOnce
  <1> SUFFICES ASSUME IInv, NEW l \in Locks
               PROVE  /\ \A u, v \in Owner[l] : u = v
                      /\ Inside[l] \subseteq Owner[l]
                      /\ Owner[l] \subseteq Units
    BY DEF OwnedOnce
  <1>1. \A u \in Units : Holds(u, l) => InForce(u, l) \/ u = leader
    BY DEF IInv, HolderInForce
  <1>2. ASSUME NEW u \in Units, NEW v \in Units, InForce(u, l), InForce(v, l)
        PROVE  u = v
    BY <1>2 DEF IInv, OneGrant, Exclusive, InForce
  <1>3. ASSUME NEW u \in Units, InForce(u, l), Holds(leader, l)
        PROVE  u = leader
    <2>1. grants[leader][u][l] # 0 /\ grants[leader][leader][l] # 0
      BY <1>3 DEF IInv, LeaderKeeps, InForce, Holds, granted
    <2> QED BY <1>3, <2>1 DEF IInv, OneGrant, Exclusive, Holds, TypeOK
  <1> QED BY <1>1, <1>2, <1>3 DEF Owner, Inside

\* Ownership never passes directly from one unit to another.
LEMMA NoTransfer ==
    ASSUME IInv, IInv', [Next]_vars, Handover = "informed", NEW l \in Locks,
           NEW u \in Owner[l], NEW v \in Owner'[l]
    PROVE  u = v
  <1> SUFFICES ASSUME v \notin Owner[l] PROVE u = v
    BY OneOwner DEF OwnedOnce
  <1>1. u \in Units /\ v \in Units /\ leader \in Units
    BY DEF Owner, IInv, TypeOK
  <1>2. InForce(u, l) \/ (u = leader /\ Holds(u, l))
    BY DEF Owner
  <1>3. InForce(v, l)' \/ (v = leader' /\ Holds(v, l)')
    BY DEF Owner
  <1>4. ~InForce(v, l) /\ ~(v = leader /\ Holds(v, l))
    BY <1>1 DEF Owner
  <1>5. \A x, y \in Owner'[l] : x = y
    <2>1. OwnedOnce'
      BY OneOwner, PTL
    <2> QED BY <2>1 DEF OwnedOnce
  <1>6. ASSUME NEW w \in Units, HookStart(w) PROVE u = v
    <2>1. InForce(v, l)' <=> InForce(v, l)
      BY <1>6 DEF HookStart, InForce
    <2>2. InForce(u, l)' <=> InForce(u, l)
      BY <1>6 DEF HookStart, InForce
    <2>3. v = leader /\ Holds(v, l)' /\ leader' = leader
      BY <1>3, <1>4, <2>1, <1>6 DEF HookStart
    <2>4. v = w
      BY <1>1, <1>4, <1>6, <2>3 DEF HookStart, Holds, granted, IInv, TypeOK
    <2>5. InForce(u, l)
      BY <1>2, <1>6, <2>3, <2>4 DEF HookStart, Holds
    <2>6. u \in Owner'[l]
      BY <1>1, <2>2, <2>5 DEF Owner
    <2> QED BY <1>5, <2>6
  <1>7. ASSUME NEW w \in Units, NEW k \in Locks, NEW t \in Time, acquire(w, k, t)
        PROVE  u = v
    <2>1. InForce(v, l)' <=> InForce(v, l)
      BY <1>7 DEF acquire, InForce
    <2>2. InForce(u, l)' <=> InForce(u, l)
      BY <1>7 DEF acquire, InForce
    <2>3. v = leader
      BY <1>3, <1>4, <2>1, <1>7 DEF acquire
    <2>4. InForce(u, l) => u \in Owner'[l]
      BY <1>1, <2>2 DEF Owner
    <2> QED BY <1>2, <1>5, <2>3, <2>4
  <1>8. ASSUME NEW w \in Units, SaveState(w) PROVE u = v
    <2>1. /\ phase[w] = "hook" /\ phase'[w] = "saved"
          /\ settings' = IF w = leader THEN grants[w] ELSE settings
          /\ UNCHANGED <<leader, removed, stored>>
      BY <1>8 DEF SaveState, IInv, TypeOK
    <2>2. ASSUME w # leader PROVE Holds(leader, l)' <=> Holds(leader, l)
      BY <1>1, <1>8, <2>2 DEF SaveState, Holds, granted, IInv, TypeOK
    <2>3. w = leader /\ InForce(v, l)'
      BY <1>3, <1>4, <2>1, <2>2 DEF InForce, Holds
    <2>4. grants[leader][v][l] # 0
      BY <2>1, <2>3 DEF InForce
    <2>5. grants[leader][u][l] # 0
      BY <1>1, <1>2, <2>1, <2>3 DEF IInv, LeaderKeeps, InForce, Holds, granted
    <2> QED BY <1>1, <2>1, <2>3, <2>4, <2>5 DEF IInv, OneGrant, Exclusive
  <1>9. ASSUME NEW w \in Units, Commit(w) PROVE u = v
    <2>1. leader' = leader /\ phase[w] = "saved" /\ phase'[w] = "idle"
      BY <1>9 DEF Commit, IInv, TypeOK
    <2>2. Holds(leader, l)' => Holds(leader, l)
      BY <1>1, <1>9, <2>1 DEF Commit, Holds, granted, IInv, TypeOK
    <2> QED BY <1>1, <1>3, <1>4, <1>9, <2>1, <2>2, CommitGrantsNothing
  <1>10. ASSUME NEW w \in Units, HookFail(w) PROVE u = v
    <2>1. InForce(v, l)' <=> InForce(v, l)
      BY <1>10 DEF HookFail, InForce
    <2>2. leader' = leader /\ phase'[w] = "idle"
      BY <1>10 DEF HookFail, IInv, TypeOK
    <2>3. Holds(leader, l)' => Holds(leader, l)
      BY <1>1, <1>10, <2>2 DEF HookFail, Holds, granted, IInv, TypeOK
    <2> QED BY <1>3, <1>4, <2>1, <2>2, <2>3
  <1>11. ASSUME NEW w \in Units, Elect(w) PROVE u = v
    <2>1. InForce(v, l)' <=> InForce(v, l)
      BY <1>11 DEF Elect, InForce
    <2>2. phase'[leader'] = "idle"
      BY <1>11 DEF Elect
    <2> QED BY <1>3, <1>4, <2>1, <2>2 DEF Holds
  <1>12. ASSUME UNCHANGED <<leader, stored, settings, phase, requests, grants>>,
                removed \subseteq removed'
         PROVE  u = v
    <2>1. InForce(v, l)' => InForce(v, l)
      BY <1>12 DEF InForce
    <2>2. leader' = leader /\ (Holds(v, l)' <=> Holds(v, l))
      BY <1>12 DEF Holds, granted
    <2> QED BY <1>3, <1>4, <2>1, <2>2
  <1>13. ASSUME NEW w \in Units, NEW x \in Units,
                PeerChanged(w, x) \/ PeerDeparted(w, x) \/ UnitRemoved(w)
         PROVE  u = v
    BY <1>12, <1>13 DEF PeerChanged, PeerDeparted, UnitRemoved
  <1>14. CASE UNCHANGED vars
    BY <1>12, <1>14 DEF vars
  <1> QED BY <1>6, <1>7, <1>8, <1>9, <1>10, <1>11, <1>13, <1>14 DEF Next

\* Every step of the coordinator is a step of the abstract lock, for each lock.
LEMMA RefinementStep ==
    ASSUME IInv, IInv', [Next]_vars, Handover = "informed"
    PROVE  Abstract!Next
  <1> SUFFICES ASSUME NEW l \in Locks
               PROVE  \/ Abstract!Give(l) \/ Abstract!Enter(l) \/ Abstract!Leave(l)
                      \/ Abstract!Release(l) \/ Abstract!Stay(l)
    BY DEF Abstract!Next
  <1> DEFINE O == Owner[l]  I == Inside[l]  P == Owner'[l]  J == Inside'[l]
  <1>1. /\ \A u, v \in O : u = v
        /\ I \subseteq O /\ O \subseteq Units
    BY OneOwner DEF OwnedOnce
  <1>2. /\ \A u, v \in P : u = v
        /\ J \subseteq P /\ P \subseteq Units
    <2>1. OwnedOnce'
      BY OneOwner, PTL
    <2> QED BY <2>1 DEF OwnedOnce
  <1>3. \A u \in O, v \in P : u = v
    BY NoTransfer
  <1> HIDE DEF O, I, P, J
  <1>4. CASE O = {}
    <2>1. P = {} => J = {} /\ I = {}
      BY <1>1, <1>2, <1>4
    <2>2. ASSUME NEW u \in P PROVE P = {u} /\ J \in {{}, {u}} /\ u \in Units
      BY <1>2, <2>2
    <2>3. CASE P = {}
      BY <1>1, <1>4, <2>1, <2>3 DEF Abstract!Stay, O, I, P, J
    <2>4. CASE P # {}
      BY <1>4, <2>2, <2>4 DEF Abstract!Give, O, P, J
    <2> QED BY <2>3, <2>4
  <1>5. CASE O # {} /\ P = {}
    <2>1. J = {}
      BY <1>2, <1>5
    <2> QED BY <1>5, <2>1 DEF Abstract!Leave, Abstract!Release, O, I, P, J
  <1>6. CASE O # {} /\ P # {}
    <2>1. P = O
      BY <1>1, <1>2, <1>3, <1>6
    <2>2. I \in {{}, O} /\ J \in {{}, O}
      BY <1>1, <1>2, <2>1
    <2>3. CASE I = J
      BY <2>1, <2>3 DEF Abstract!Stay, O, I, P, J
    <2>4. CASE I # J
      BY <2>1, <2>2, <2>4 DEF Abstract!Enter, Abstract!Leave, O, I, P, J
    <2> QED BY <2>3, <2>4
  <1> QED BY <1>4, <1>5, <1>6

\* The detailed coordinator implements the abstract lock: ownership is exclusive,
\* covers every critical section and is handed on only through release.
THEOREM Refinement ==
    ASSUME Handover = "informed"
    PROVE  Spec => ImplementsSerialLock
  <1>1. Init => Abstract!Init
    <2> SUFFICES ASSUME Init PROVE Abstract!Init
      OBVIOUS
    <2>1. \A u \in Units, l \in Locks : ~InForce(u, l) /\ ~Holds(u, l)
      BY DEF Init, NoTable, InForce, Holds
    <2> QED BY <2>1 DEF Abstract!Init, Owner, Inside
  <1>2. IInv /\ IInv' /\ [Next]_vars => [Abstract!Next]_<<Owner, Inside>>
    BY RefinementStep
  <1> QED BY <1>1, <1>2, InvariantHolds, PTL DEF Spec, ImplementsSerialLock, Abstract!Spec

=============================================================================
