---------------------------- MODULE ClusterAdmin ----------------------------
(***************************************************************************)
(* Nodes that leave a RabbitMQ cluster, and brokers that have to start     *)
(* again after all have been down.                                         *)
(*                                                                         *)
(* A unit that is removed takes its node out of the cluster in its stop    *)
(* hook.  A unit that vanishes leaves its node behind; the others' status  *)
(* names it, and the operator runs forget-cluster-node on one of them.     *)
(* When no broker starts any more there is force-boot.                     *)
(*                                                                         *)
(* RabbitMQ is external: a broker that was stopped while others ran starts *)
(* only when one of them, or of those that joined since, is there (or it   *)
(* was forced); the one that stopped last just starts; a node that others  *)
(* have forgotten does not start beside them.  Scope: native clustering,   *)
(* min-cluster-size unset, nobody paused; the peer relation's joins are    *)
(* module ClusterFormation's matter.                                       *)
(***************************************************************************)
EXTENDS FiniteSets, Naturals

CONSTANTS
    Nodes,        \* the units there can be, and their brokers
    First,        \* the leader's node
    MaxFaults,    \* bound on new and vanished units, failures, stops and partitions
    None

VARIABLES
    units,        \* the units of the application
    members,      \* the nodes the cluster knows of
    state,        \* state[n]: "running", "app stopped" or "down"
    later,        \* later[n]: the nodes that were running when n stopped
    clustered,    \* the units with "clustered" in their relation data
    partitioned,  \* the nodes that have been apart since they started
    hook,         \* hook[u]: what the hook that runs on u has read
    shown,        \* shown[u]: the status
    abandoned,    \* nodes of units that vanished
    outage,       \* all members have lost power together and none has started since
    faults

vars == <<units, members, state, later, clustered, partitioned, hook, shown, abandoned,
          outage, faults>>

Running == {n \in Nodes : state[n] = "running"}
Together(n) == IF n \in members THEN members \cap Running ELSE {n} \cap Running

\* What a status says; a named node comes with the peers that the hook knew of.
Say(kind) == [kind |-> kind, node |-> None, peers |-> {}]

-----------------------------------------------------------------------------
(* What a unit learns from its broker.                                     *)

\* nodes() and running_nodes(); without the application both are empty.
nodes(u) == IF u \notin Running THEN {} ELSE IF u \in members THEN members ELSE {u}
running_nodes(u) == IF u \in Running THEN Together(u) ELSE {}
is_partitioned(u) == u \in Running /\ running_nodes(u) \cap partitioned # {}

\* Mutant of check_cluster_memberships: a node that does not run is taken for departed.
check_cluster_memberships_running(u) == nodes(u) \ hook[u].running

\* Nodes that no peer claims and that do not run: the peers and the running nodes are
\* those read before, the nodes are read now.
check_cluster_memberships(u) == nodes(u) \ (hook[u].clustered \cup hook[u].running)

\* The checks in their order; the second that can fail is cluster_ready.
assess_cluster_status(u) ==
    IF hook[u].peers # {} /\ Cardinality(hook[u].running) <= 1 THEN {Say("waiting")}
    ELSE IF ~(hook[u].peers \subseteq hook[u].clustered) THEN {Say("waiting")}
    ELSE IF check_cluster_memberships(u) # {}
      THEN {[kind |-> "departed", node |-> n, peers |-> hook[u].peers] :
               n \in check_cluster_memberships(u)}
    ELSE IF hook[u].peers # {} /\ is_partitioned(u) THEN {Say("partitioned")}
    ELSE {Say("fine")}

\* The Nagios check asks the management API of one node.
check_rabbitmq_cluster(n) ==
    IF n \notin Running THEN "UNKNOWN" ELSE IF n \in partitioned THEN "CRITICAL" ELSE "OK"

-----------------------------------------------------------------------------
(* Brokers.                                                                *)

Fault == faults < MaxFaults /\ faults' = faults + 1

\* The brokers in ns stop together.
Stopped(ns, how) ==
    /\ state' = [n \in Nodes |-> IF n \in ns THEN how ELSE state[n]]
    /\ later' = [n \in Nodes |-> IF n \in ns THEN Together(n) \ {n} ELSE later[n]]
    /\ partitioned' = IF Cardinality(partitioned \ ns) > 1 THEN partitioned \ ns ELSE {}

\* A broker that is the only member, or the last that stopped, or has another to ask.
CanStart(n) ==
    \/ n \notin members /\ later[n] = {}
    \/ n \in members /\ (later[n] = {} \/ members \cap Running # {})

Started(n) ==
    /\ state' = [state EXCEPT ![n] = "running"]
    /\ later' = [later EXCEPT ![n] = {}]
    /\ outage' = (outage /\ n \notin members)

service_start(n) == Started(n)

-----------------------------------------------------------------------------
Init ==
    /\ units \in {us \in SUBSET Nodes : First \in us}
    /\ members = units /\ clustered = units
    /\ state = [n \in Nodes |-> IF n \in units THEN "running" ELSE "down"]
    /\ later = [n \in Nodes |-> {}]
    /\ partitioned = {} /\ abandoned = {}
    /\ hook = [n \in Nodes |-> None]
    /\ shown = [n \in Nodes |-> Say("waiting")]
    /\ outage = FALSE /\ faults = 0

\* The peers on the cluster relation, without the unit itself.
related_units(u) == units \ {u}

\* A hook starts, with the peers it knows; update_peer_cluster_status caches the
\* running nodes.
HookStart(u) ==
    /\ u \in units /\ hook[u] = None /\ state[u] # "down"
    /\ hook' = [hook EXCEPT ![u] = [peers |-> related_units(u), clustered |-> clustered \ {u},
                                    running |-> running_nodes(u), asks |-> TRUE,
                                    joined |-> First \in running_nodes(u)]]
    /\ UNCHANGED <<units, members, state, later, clustered, partitioned, shown, abandoned,
                   outage, faults>>

\* join_leader in a hook that has the lock: the cache is cleared after it.
join_leader(u) ==
    /\ hook[u] # None /\ hook[u].asks
    /\ u \in Running \ members /\ First \in members \cap Running
    /\ members' = members \cup {u}
    /\ hook' = [hook EXCEPT ![u].running = (members \cap Running) \cup {u},
                            ![u].asks = FALSE, ![u].joined = TRUE]
    /\ UNCHANGED <<units, state, later, clustered, partitioned, shown, abandoned, outage,
                   faults>>

\* assess_status at the end of the hook, whose relation data is then published.
HookEnd(u) ==
    /\ hook[u] # None /\ u \in Running
    /\ \E status \in assess_cluster_status(u) : shown' = [shown EXCEPT ![u] = status]
    /\ clustered' = IF hook[u].joined THEN clustered \cup {u} ELSE clustered
    /\ hook' = [hook EXCEPT ![u] = None]
    /\ UNCHANGED <<units, members, state, later, partitioned, abandoned, outage, faults>>

HookFails(u) ==
    /\ hook[u] # None /\ Fault
    /\ hook' = [hook EXCEPT ![u] = None]
    /\ UNCHANGED <<units, members, state, later, clustered, partitioned, shown, abandoned,
                   outage>>

-----------------------------------------------------------------------------
(* The stop hook.                                                          *)

\* The unit is no more; what its broker left behind stays.
Gone(u) ==
    /\ units' = units \ {u} /\ clustered' = clustered \ {u}
    /\ hook' = [hook EXCEPT ![u] = None]
    /\ shown' = [shown EXCEPT ![u] = Say("waiting")]

\* Mutant of leave_cluster: an error is logged and the hook goes on.
leave_cluster_quietly(u) ==
    /\ u \in units \ {First} /\ hook[u] = None
    /\ members' = IF (members \cap Running) \ {u} # {} THEN members \ {u} ELSE members
    /\ Stopped({u}, "down") /\ Gone(u)
    /\ UNCHANGED <<abandoned, outage, faults>>

\* stop_app, reset, start_app.  A node that is no member is reset in any case; a member
\* needs another one that runs.
leave_cluster(u) ==
    /\ u \in units \ {First} /\ hook[u] = None /\ state[u] # "down"
    /\ u \in members => (members \cap Running) \ {u} # {}
    /\ members' = members \ {u}
    /\ Stopped({u}, "down") /\ Gone(u)
    /\ UNCHANGED <<abandoned, outage, faults>>

\* It fails after stop_app: the hook is in error, and the application stays stopped.
leave_cluster_fails(u) ==
    /\ u \in units \ {First} /\ hook[u] = None /\ u \in Running /\ Fault
    /\ Stopped({u}, "app stopped")
    /\ UNCHANGED <<units, members, clustered, hook, shown, abandoned, outage>>

\* A machine is lost, or the operator removes a unit without its stop hook.
Vanish(u) ==
    /\ u \in units \ {First} /\ Fault
    /\ Stopped({u}, "down") /\ Gone(u)
    /\ abandoned' = abandoned \cup ({u} \cap members)
    /\ UNCHANGED <<members, outage>>

AddUnit(u) ==
    /\ u \notin units \cup members /\ Fault
    /\ units' = units \cup {u}
    /\ state' = [state EXCEPT ![u] = "running"]
    /\ later' = [later EXCEPT ![u] = {}]
    /\ UNCHANGED <<members, clustered, partitioned, hook, shown, abandoned, outage>>

-----------------------------------------------------------------------------
(* Actions.                                                                *)

\* forget-cluster-node on u, as its status advises; it fails for a node that runs or is
\* no member, and changes nothing then.
forget_cluster_node(u, n) ==
    /\ u \in members \cap Running /\ shown[u].node = n /\ n \in members \ Running
    /\ members' = members \ {n}
    /\ shown' = [shown EXCEPT ![u] = Say("waiting")]
    /\ abandoned' = abandoned \ {n}
    /\ UNCHANGED <<units, state, later, clustered, partitioned, hook, outage, faults>>

\* force-boot: the result of the stop is not looked at; a broker that still runs makes
\* the second command fail.  The flag is used up by the start.
force_boot(u) ==
    /\ u \in units /\ hook[u] = None /\ Fault
    /\ u \in members \/ later[u] = {}
    /\ IF u \in Running
       THEN /\ later' = [later EXCEPT ![u] = {}]
            /\ partitioned' = IF Cardinality(partitioned \ {u}) > 1
                              THEN partitioned \ {u} ELSE {}
            /\ UNCHANGED <<state, outage>>
       ELSE service_start(u) /\ UNCHANGED partitioned
    /\ UNCHANGED <<units, members, clustered, hook, shown, abandoned>>

-----------------------------------------------------------------------------
(* The machines.                                                           *)

Stop(n) ==
    /\ n \in units \cap Running /\ Fault
    /\ Stopped({n}, "down")
    /\ UNCHANGED <<units, members, clustered, hook, shown, abandoned, outage>>

PowerLoss ==
    /\ Running # {} /\ Fault
    /\ Stopped(Running, "down")
    /\ outage' = TRUE
    /\ UNCHANGED <<units, members, clustered, hook, shown, abandoned>>

\* systemd, or wait_app after start_app.
Start(n) ==
    /\ n \in units /\ state[n] # "running" /\ CanStart(n)
    /\ Started(n)
    /\ UNCHANGED <<units, members, clustered, partitioned, hook, shown, abandoned, faults>>

\* The network parts the members for a while.
Part ==
    /\ Cardinality(members \cap Running) > 1 /\ Fault
    /\ partitioned' = members \cap Running
    /\ UNCHANGED <<units, members, state, later, clustered, hook, shown, abandoned, outage>>

Next ==
    \/ \E u \in Nodes :
          \/ HookStart(u) \/ join_leader(u) \/ HookEnd(u) \/ HookFails(u)
          \/ leave_cluster(u) \/ leave_cluster_fails(u) \/ Vanish(u) \/ AddUnit(u)
          \/ force_boot(u) \/ Stop(u) \/ Start(u)
          \/ \E n \in Nodes : forget_cluster_node(u, n)
    \/ PowerLoss \/ Part

Spec == Init /\ [][Next]_vars

-----------------------------------------------------------------------------
Statuses == [kind : {"waiting", "departed", "partitioned", "fine"}, node : Nodes \cup {None},
             peers : SUBSET Nodes]
Reads == [peers : SUBSET Nodes, clustered : SUBSET Nodes, running : SUBSET Nodes,
          asks : BOOLEAN, joined : BOOLEAN]

TypeOK ==
    /\ units \subseteq Nodes /\ members \subseteq Nodes /\ clustered \subseteq units
    /\ state \in [Nodes -> {"running", "app stopped", "down"}]
    /\ later \in [Nodes -> SUBSET Nodes]
    /\ partitioned \subseteq Running
    /\ hook \in [Nodes -> Reads \cup {None}]
    /\ shown \in [Nodes -> Statuses]
    /\ abandoned \subseteq members
    /\ outage \in BOOLEAN /\ faults \in 0..MaxFaults

\* "remove with forget-cluster-node": the node that a status names belongs to none of the
\* units that were there when the hook began, not to the unit itself and to no peer whose
\* broker is down or being replaced, although the nodes, the running nodes and the peers
\* were read at different times.
AdviceSound ==
    \A u \in units : shown[u].kind = "departed" => shown[u].node \notin shown[u].peers \cup {u}

\* When all brokers are down, one of the units' can start without force-boot, whichever
\* left, joined or was forgotten before: excepted are a common power loss, and nodes of
\* vanished units that have not been forgotten.
ClusterRestarts ==
    /\ members \cap Running = {} /\ members \cap units # {}
    /\ abandoned = {} /\ ~outage
    => \E n \in members \cap units : CanStart(n)

\* While a unit's broker reports a partition, whatever its status says first, the Nagios
\* check of a node of the cluster is CRITICAL.
PartitionsTold ==
    \A u \in units : is_partitioned(u) =>
        \E n \in running_nodes(u) : check_rabbitmq_cluster(n) = "CRITICAL"

=============================================================================
