----------------------------- MODULE QueueReports -----------------------------
(***************************************************************************)
(* The action list-unconsumed-queues: one query for the virtual hosts,     *)
(* then one for the queues of each, while clients go on creating, using    *)
(* and deleting both.                                                      *)
(*                                                                         *)
(* A broker without JSON output prints one line per queue, whose words the *)
(* charm counts: a queue with a space in its name cannot be read.          *)
(***************************************************************************)
EXTENDS FiniteSets, Naturals

CONSTANTS
    Vhosts,
    Names,        \* names of queues
    Spaced,       \* the ones with a space
    MaxChanges    \* bound on what clients and the broker do

VARIABLES
    json,         \* the broker's version prints JSON
    up,           \* the broker answers
    vhosts,       \* the virtual hosts there are
    queues,       \* queues[v]: the queues of v
    consumed,     \* consumed[v]: those with a consumer
    todo,         \* the virtual hosts still to be asked
    result,       \* "none", "running", "failed" or "done"
    reported,     \* the queues in the action's output: <<v, n>>
    count,        \* unconsumed-queue-count
    always,       \* the queues that have been unconsumed since the action began
    once,         \* those that have been at some time since then
    changes

vars == <<json, up, vhosts, queues, consumed, todo, result, reported, count, always, once,
          changes>>

Unconsumed(v) == queues[v] \ consumed[v]
Idle == {vn \in vhosts \X Names : vn[2] \in Unconsumed(vn[1])}

Init ==
    /\ json \in BOOLEAN /\ up \in BOOLEAN
    /\ vhosts \in SUBSET Vhosts
    /\ queues \in {qs \in [Vhosts -> SUBSET Names] : \A v \in Vhosts \ vhosts : qs[v] = {}}
    /\ consumed = [v \in Vhosts |-> {}]
    /\ todo = {} /\ result = "none"
    /\ reported = {} /\ count = 0
    /\ always = {} /\ once = {} /\ changes = 0

-----------------------------------------------------------------------------
Broker == <<json, up, vhosts, queues, consumed, changes>>

\* An error of the query is no virtual host.
list_vhosts == IF up THEN vhosts ELSE {}

Start ==
    /\ result = "none"
    /\ result' = "running"
    /\ todo' = list_vhosts
    /\ always' = IF up THEN Idle ELSE {}
    /\ once' = Idle
    /\ UNCHANGED <<Broker, reported, count>>

\* query_rabbit can read the answer.
list_vhost_queue_info(v) == up /\ v \in vhosts /\ (json \/ queues[v] \cap Spaced = {})


\* The next virtual host; the first that cannot be asked, or read, fails the action.
list_unconsumed_queues(v) ==
    /\ result = "running" /\ v \in todo
    /\ IF list_vhost_queue_info(v)
       THEN /\ reported' = reported \cup ({v} \X Unconsumed(v))
            /\ count' = count + Cardinality(Unconsumed(v))
            /\ todo' = todo \ {v}
            /\ UNCHANGED result
       ELSE result' = "failed" /\ UNCHANGED <<reported, count, todo>>
    /\ UNCHANGED <<Broker, always, once>>

Finish ==
    /\ result = "running" /\ todo = {}
    /\ result' = "done"
    /\ UNCHANGED <<Broker, todo, reported, count, always, once>>

-----------------------------------------------------------------------------
\* Something changes under the action.
Change ==
    /\ result = "running" /\ changes < MaxChanges
    /\ changes' = changes + 1
    /\ always' = always \cap Idle' /\ once' = once \cup Idle'
    /\ UNCHANGED <<json, todo, result, reported, count>>

Queue(v, n) ==
    /\ v \in vhosts
    /\ \/ /\ n \in queues[v]
          /\ consumed' = [consumed EXCEPT ![v] = IF n \in @ THEN @ \ {n} ELSE @ \cup {n}]
          /\ UNCHANGED queues
       \/ /\ n \in queues[v]
          /\ queues' = [queues EXCEPT ![v] = @ \ {n}]
          /\ consumed' = [consumed EXCEPT ![v] = @ \ {n}]
       \/ /\ n \notin queues[v]
          /\ queues' = [queues EXCEPT ![v] = @ \cup {n}]
          /\ UNCHANGED consumed
    /\ UNCHANGED <<up, vhosts>>
    /\ Change

Vhost(v) ==
    /\ vhosts' = IF v \in vhosts THEN vhosts \ {v} ELSE vhosts \cup {v}
    /\ queues' = [queues EXCEPT ![v] = {}]
    /\ consumed' = [consumed EXCEPT ![v] = {}]
    /\ UNCHANGED up
    /\ Change

BrokerFails == up' = ~up /\ UNCHANGED <<vhosts, queues, consumed>> /\ Change

Next ==
    \/ Start \/ Finish \/ BrokerFails
    \/ \E v \in Vhosts : list_unconsumed_queues(v) \/ Vhost(v) \/ \E n \in Names : Queue(v, n)

Spec == Init /\ [][Next]_vars

-----------------------------------------------------------------------------
TypeOK ==
    /\ json \in BOOLEAN /\ up \in BOOLEAN
    /\ vhosts \subseteq Vhosts /\ todo \subseteq Vhosts
    /\ queues \in [Vhosts -> SUBSET Names]
    /\ \A v \in Vhosts : consumed[v] \subseteq queues[v]
    /\ result \in {"none", "running", "failed", "done"}
    /\ {reported, always, once} \subseteq SUBSET (Vhosts \X Names)
    /\ count \in Nat /\ changes \in 0..MaxChanges

\* An action that does not fail, with a broker that answered its first query, has reported
\* every queue that was without a consumer all the time, and no queue that never was; the
\* count is theirs.
ReportTrue ==
    result = "done" =>
        /\ always \subseteq reported /\ reported \subseteq once
        /\ count = Cardinality(reported)
=============================================================================
