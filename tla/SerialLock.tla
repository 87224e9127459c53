----------------------------- MODULE SerialLock -----------------------------
(***************************************************************************)
(* What the serial coordinator promises: for each lock, at most one unit   *)
(* owns it, only its owner is inside a critical section, and ownership     *)
(* passes from one unit to another only by way of nobody owning the lock.  *)
(* owner[l] and inside[l] are sets so that "nobody" is the empty set.      *)
(***************************************************************************)
CONSTANTS Units, Locks

VARIABLES owner, inside

Init ==
    /\ owner = [l \in Locks |-> {}]
    /\ inside = [l \in Locks |-> {}]

\* The lock is given to a unit, which may enter at once (the leader) or later.
Give(l) ==
    /\ owner[l] = {}
    /\ \E u \in Units : owner'[l] = {u} /\ inside'[l] \in {{}, {u}}

\* The owner enters its critical section, or leaves it, keeping the lock for
\* another attempt or not.
Enter(l) ==
    /\ owner'[l] = owner[l]
    /\ inside[l] = {} /\ inside'[l] = owner[l]

Leave(l) ==
    /\ inside[l] # {} /\ inside'[l] = {}
    /\ owner'[l] \in {owner[l], {}}

\* The lock is released: the owner has finished, or was removed.
Release(l) ==
    /\ inside[l] = {} /\ inside'[l] = {}
    /\ owner'[l] = {}

Stay(l) == owner'[l] = owner[l] /\ inside'[l] = inside[l]

\* One step of the service may concern several locks.
Next == \A l \in Locks : Give(l) \/ Enter(l) \/ Leave(l) \/ Release(l) \/ Stay(l)

Spec == Init /\ [][Next]_<<owner, inside>>

=============================================================================
