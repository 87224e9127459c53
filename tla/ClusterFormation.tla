-------------------------- MODULE ClusterFormation --------------------------
(***************************************************************************)
(* How the units make one RabbitMQ cluster.                                *)
(*                                                                         *)
(* The leader stores its Erlang cookie and the name of its node in the     *)
(* leader settings when a peer joins.  Every other unit takes over the     *)
(* cookie (restarting its broker), asks for the cluster lock, and in a     *)
(* hook that finds it granted joins its broker to the leader's node; it    *)
(* then sets "clustered" in its peer relation data.  A unit that is        *)
(* removed takes its node out of the cluster in the stop hook.             *)
(*                                                                         *)
(* What Juju does: a unit's relation data is published when its hook       *)
(* succeeds, and brings cluster-relation-changed to the other units; a     *)
(* change of the leader settings is visible at once, and brings            *)
(* leader-settings-changed to all but the leader; a failed hook is run     *)
(* again; leadership moves.  The lock is used through its contract         *)
(* (SerialLock).  RabbitMQ itself is external: a node joins another if     *)
(* their cookies agree, the other one is running and it is in no cluster   *)
(* itself; a failed join leaves its application stopped.                   *)
(*                                                                         *)
(* Scope: native clustering (no hacluster), automatic restarts on, no unit *)
(* paused.  A hook body is one step, its end another.  Cookies and nodes   *)
(* are named after the unit they come from.                                *)
(***************************************************************************)
EXTENDS Naturals, FiniteSets

CONSTANTS
    Units,       \* the units there can be
    None,        \* no unit
    MinSize,     \* min-cluster-size, 0 when unset
    Handover,    \* who may be elected: a "member" of the cluster, or "any"
    Removable,   \* what may be removed: all "but leader_node", or "any" unit
    Unprompted,  \* the hooks that run without an event of the peer relation
    HooksFail    \* whether hooks may fail

ASSUME UnitsAssumption == None \notin Units /\ Units # {}
ASSUME MinSizeAssumption == MinSize \in Nat
ASSUME HandoverAssumption == Handover \in {"member", "any"}
ASSUME RemovableAssumption == Removable \in {"but leader_node", "any"}
ASSUME UnpromptedAssumption == Unprompted \subseteq {"upgrade-charm", "other"}
ASSUME FailAssumption == HooksFail \in BOOLEAN

VARIABLES
    leader,    \* the unit is_leader() is true on
    members,   \* the units of the application
    gone,      \* the units that have been removed
    settings,  \* the leader settings: cookie, leader_node_hostname
    bag,       \* bag[u]: u's data on the peer relation
    waiting,   \* the units that have asked for the cluster lock
    grant,     \* the unit that has it
    due,       \* due[u]: the events whose hooks u still has to run
    cookie,    \* cookie[u]: the Erlang cookie of u
    db,        \* db[u]: the nodes of the cluster, as u's node knows them
    app,       \* the units whose broker is running
    hook       \* hook[u]: the hook that is running on u

vars == <<leader, members, gone, settings, bag, waiting, grant, due, cookie, db, app,
          hook>>

Events == {"cluster-relation-joined", "cluster-relation-changed",
           "leader-settings-changed"}
Hooks == Events \cup Unprompted

\* host: hostname is set; clustered; cookie, set to bring peers to clustering
Bag == [host : BOOLEAN, clustered : BOOLEAN, cookie : Units \cup {None}]
NoBag == [host |-> FALSE, clustered |-> FALSE, cookie |-> None]

Hook == [event : Hooks \cup {"none"},
         out : Bag,          \* the relation data at the end of the hook
         asked : BOOLEAN,    \* a request for the lock
         held : BOOLEAN]     \* granted(COORD_KEY_CLUSTER)
NoHook == [event |-> "none", out |-> NoBag, asked |-> FALSE, held |-> FALSE]

-----------------------------------------------------------------------------
(* The functions of the charm, in a hook of unit u.  s has the fields of   *)
(* Hook that they change, and cookie, db, app and settings.                *)

running_nodes(s, u) ==
    IF u \in s.app THEN {v \in s.db[u] \cap s.app : s.cookie[v] = s.cookie[u]} ELSE {}

clustered(s, u) == Cardinality(running_nodes(s, u)) > 1

\* The leader's node name in the leader settings, None before there is one.
leader_node(s) == s.settings.node

clustered_with_leader(s, u) == leader_node(s) \in running_nodes(s, u)

is_sufficient_peers(u) ==
    1 + Cardinality({v \in members \ {u} : bag[v].host}) >= MinSize

\* Mutant of cluster_ready: the peers' flags are not looked at.
cluster_ready_here(s, u) ==
    LET size == IF MinSize = 0 THEN Cardinality(members) ELSE MinSize IN
    /\ is_sufficient_peers(u)
    /\ size > 1 => clustered(s, u) /\ Cardinality(members) >= size

\* True at once in a deployment of one unit; otherwise when this unit and all the
\* peers are clustered, and there are enough of them.
cluster_ready(s, u) ==
    LET size == IF MinSize = 0 THEN Cardinality(members) ELSE MinSize IN
    /\ is_sufficient_peers(u)
    /\ size > 1 => /\ clustered(s, u)
                   /\ \A v \in members \ {u} : bag[v].clustered
                   /\ Cardinality(members) >= size

update_peer_cluster_status(s, u) ==
    [s EXCEPT !.out.clustered = @ \/ clustered_with_leader(s, u)]

\* The application is stopped, the node joins, the application is started; when
\* the join fails it is not.
join_cluster(s, u, v) ==
    LET all == s.db[v] \cup {u} IN
    IF u # v /\ v \in s.app /\ s.cookie[u] = s.cookie[v] /\ s.db[u] = {u}
      THEN [s EXCEPT !.db = [w \in Units |-> IF w \in all THEN all ELSE @[w]],
                     !.app = @ \cup {u}]
      ELSE [s EXCEPT !.app = @ \ {u}]

\* Mutant of join_leader: no check whether the node is with the leader's already.
join_leader_again(s, u) ==
    IF leader_node(s) = None THEN s
    ELSE LET joined == join_cluster(s, u, leader_node(s)) IN
         IF u \in joined.app THEN update_peer_cluster_status(joined, u) ELSE joined

join_leader(s, u) ==
    IF clustered_with_leader(s, u) \/ leader_node(s) = None THEN s
    ELSE LET joined == join_cluster(s, u, leader_node(s)) IN
         IF u \in joined.app THEN update_peer_cluster_status(joined, u) ELSE joined

coordinated_cluster(s, u) == IF s.held THEN join_leader(s, u) ELSE s

\* The leader takes a free lock at once.
acquire(s, u) ==
    [s EXCEPT !.asked = TRUE, !.held = @ \/ (u = leader /\ grant = None /\ waiting = {})]

\* The broker is restarted with the new cookie.
update_cookie(s, u) ==
    IF s.cookie[u] = s.settings.cookie THEN s
    ELSE [s EXCEPT !.cookie[u] = s.settings.cookie, !.app = @ \cup {u}]

\* Ask for the lock and use it, unless this node is with the leader's.
RequestClustering(s, u) ==
    IF clustered_with_leader(s, u) THEN s ELSE coordinated_cluster(acquire(s, u), u)

\* Mutant of cluster_joined: every unit stores its own cookie and node.
cluster_joined_anywhere(s, u) ==
    [s EXCEPT !.out.host = TRUE, !.settings = [cookie |-> s.cookie[u], node |-> u]]

cluster_joined(s, u) ==
    [s EXCEPT !.out.host = TRUE,
              !.settings = IF u = leader THEN [cookie |-> s.cookie[u], node |-> u] ELSE @]

\* Mutant of cluster_changed: it does not wait for the cookie.
cluster_changed_at_once(s, u) ==
    LET synced == update_cookie(s, u) IN
    coordinated_cluster(IF is_sufficient_peers(u)
                          THEN RequestClustering(update_peer_cluster_status(synced, u), u)
                          ELSE synced, u)

cluster_changed(s, u) ==
    LET synced == update_cookie(s, u)
        asked == IF is_sufficient_peers(u)
                   THEN RequestClustering(update_peer_cluster_status(synced, u), u)
                   ELSE synced
    IN  IF s.settings.cookie = None THEN s ELSE coordinated_cluster(asked, u)

\* Mutant of leader_settings_changed: the locks are not looked at.
leader_settings_changed_cookie_only(s, u) ==
    IF s.settings.cookie = None THEN s
    ELSE [update_cookie(s, u) EXCEPT !.out.cookie = s.settings.cookie]

leader_settings_changed(s, u) ==
    coordinated_cluster(
      IF s.settings.cookie = None THEN s
      ELSE [update_cookie(s, u) EXCEPT !.out.cookie = s.settings.cookie], u)

upgrade_charm(s, u) ==
    LET told == update_peer_cluster_status(s, u) IN
    IF MinSize = 0 THEN told ELSE RequestClustering(told, u)

Body(e, s, u) ==
    CASE e = "cluster-relation-joined" -> cluster_joined(s, u)
      [] e = "cluster-relation-changed" -> cluster_changed(s, u)
      [] e = "leader-settings-changed" -> leader_settings_changed(s, u)
      [] e = "upgrade-charm" -> upgrade_charm(s, u)
      [] e = "other" -> s

-----------------------------------------------------------------------------
\* The first unit is deployed and installed.
Init ==
    /\ leader \in Units
    /\ members = {leader}
    /\ gone = {}
    /\ settings = [cookie |-> None, node |-> None]
    /\ bag = [u \in Units |-> NoBag]
    /\ waiting = {}
    /\ grant = None
    /\ due = [u \in Units |-> {}]
    /\ cookie = [u \in Units |-> u]
    /\ db = [u \in Units |-> {u}]
    /\ app = {leader}
    /\ hook = [u \in Units |-> NoHook]

\* Events for some units.
Send(us, es) == [v \in Units |-> IF v \in us THEN due[v] \cup es ELSE due[v]]

\* Another unit is deployed: it is sent the joined hooks for its peers, and they
\* for it; each is followed by a changed hook.
AddUnit(u) ==
    /\ u \notin members \cup gone
    /\ members' = members \cup {u}
    /\ app' = app \cup {u}
    /\ due' = [Send(members, {"cluster-relation-joined"})
                 EXCEPT ![u] = {"cluster-relation-joined", "leader-settings-changed"}]
    /\ UNCHANGED <<leader, gone, settings, bag, waiting, grant, cookie, db, hook>>

Elect(u) ==
    /\ u \in members \ {leader}
    /\ Handover = "member" => bag[u].clustered
    /\ leader' = u
    /\ due' = [due EXCEPT ![u] = @ \ {"leader-settings-changed"}]
    /\ UNCHANGED <<members, gone, settings, bag, waiting, grant, cookie, db, app, hook>>

\* The stop hook: leave_cluster, after which the unit is no more.
stop(u) ==
    /\ u \in members \ {leader}
    /\ Removable = "but leader_node" => u # settings.node
    /\ hook[u].event = "none"
    /\ members' = members \ {u}
    /\ gone' = gone \cup {u}
    /\ db' = [v \in Units |-> IF v = u THEN {u} ELSE db[v] \ {u}]
    /\ app' = app \ {u}
    /\ bag' = [bag EXCEPT ![u] = NoBag]
    /\ waiting' = waiting \ {u}
    /\ grant' = IF grant = u THEN None ELSE grant
    /\ due' = [due EXCEPT ![u] = {}]
    /\ UNCHANGED <<leader, settings, cookie, hook>>

\* The leader gives the free lock to a unit that waits (Coordinator!handle).
Grant(u) ==
    /\ grant = None
    /\ u \in waiting
    /\ grant' = u
    /\ due' = Send(members \ {leader}, {"leader-settings-changed"})
    /\ UNCHANGED <<leader, members, gone, settings, bag, waiting, cookie, db, app, hook>>

\* Juju follows a joined hook by a changed one.
Follows(e) ==
    IF e = "cluster-relation-joined" THEN {"cluster-relation-changed"} ELSE {}

\* A hook runs: for an event that is due, or unprompted on a unit that has come
\* into the cluster (the operator upgrades the charm of a settled deployment).
Run(u, e) ==
    LET s == Body(e, [out |-> bag[u], asked |-> u \in waiting, held |-> grant = u,
                      cookie |-> cookie, db |-> db, app |-> app,
                      settings |-> settings], u)
    IN  /\ u \in members
        /\ hook[u].event = "none"
        /\ e \in Events => e \in due[u]
        /\ e \in Unprompted => bag[u].clustered
        /\ cookie' = s.cookie
        /\ db' = s.db
        /\ app' = s.app
        /\ settings' = s.settings
        /\ grant' = IF s.held THEN u ELSE grant
        /\ due' = [Send(IF s.settings = settings THEN {} ELSE members \ {u},
                        {"leader-settings-changed"}) EXCEPT ![u] = (@ \ {e}) \cup Follows(e)]
        /\ hook' = [hook EXCEPT ![u] = [event |-> e, out |-> s.out, asked |-> s.asked,
                                        held |-> s.held]]
        /\ UNCHANGED <<leader, members, gone, bag, waiting>>

\* The hook succeeds: a lock it holds is released, its data is published.
HookEnd(u) ==
    LET h == hook[u] IN
    /\ h.event # "none"
    /\ waiting' = IF h.asked /\ ~h.held THEN waiting \cup {u} ELSE waiting \ {u}
    /\ grant' = IF h.held THEN None ELSE grant
    /\ bag' = [bag EXCEPT ![u] = h.out]
    /\ due' = IF bag' = bag /\ waiting' = waiting THEN due
              ELSE Send(members \ {u}, {"cluster-relation-changed"})
    /\ hook' = [hook EXCEPT ![u] = NoHook]
    /\ UNCHANGED <<leader, members, gone, settings, cookie, db, app>>

\* The hook fails: what it did to the broker and the leader settings stays.
HookFail(u) ==
    LET h == hook[u] IN
    /\ HooksFail
    /\ h.event # "none"
    /\ grant' = IF h.held /\ u \notin waiting THEN None ELSE grant
    /\ due' = [due EXCEPT ![u] = @ \cup ({h.event} \cap Events)]
    /\ hook' = [hook EXCEPT ![u] = NoHook]
    /\ UNCHANGED <<leader, members, gone, settings, bag, waiting, cookie, db, app>>

Next ==
    \/ \E u \in Units : AddUnit(u)
    \/ \E u \in Units : Elect(u)
    \/ \E u \in Units : stop(u)
    \/ \E u \in Units : Grant(u)
    \/ \E u \in Units, e \in Hooks : Run(u, e)
    \/ \E u \in Units : HookEnd(u)
    \/ \E u \in Units : HookFail(u)

Spec == Init /\ [][Next]_vars

-----------------------------------------------------------------------------
(* Correctness.                                                            *)

\* Type invariant: the leader is a member, only members ask for the lock, have it
\* or run a broker, and every broker has a cookie.
TypeOK ==
    /\ leader \in members
    /\ members \subseteq Units
    /\ gone \subseteq Units \ members
    /\ settings \in [cookie : Units \cup {None}, node : Units \cup {None}]
    /\ bag \in [Units -> Bag]
    /\ waiting \subseteq members
    /\ grant \in members \cup {None}
    /\ due \in [Units -> SUBSET Events]
    /\ cookie \in [Units -> Units]
    /\ db \in [Units -> SUBSET Units]
    /\ app \subseteq members
    /\ hook \in [Units -> Hook]

\* "to avoid split-brain clusters": whatever was elected, removed or failed in the
\* meantime, the nodes that are in a cluster are all in the one with the leader's
\* node, agree on who is in it, and have the stored cookie, so that they can talk
\* to each other.
OneCluster ==
    \A u \in members :
        db[u] # {u} => /\ settings.node \in db[u]
                       /\ \A v \in db[u] : db[v] = db[u] /\ cookie[v] = settings.cookie

\* "A rabbitmq node can only join a cluster once": a node that is in the cluster
\* is never stopped for another attempt to join.
JoinsOnce == \A u \in members : db[u] # {u} => u \in app

\* "Once cluster_ready returns True it is safe to execute client relation hooks":
\* when the leader finds the cluster ready, all brokers are one.
ReadyIsComplete ==
    LET s == [cookie |-> cookie, db |-> db, app |-> app] IN
    MinSize > 1 /\ cluster_ready(s, leader) => \A u \in members : db[u] = members

\* A hook that can be run again and again is (strong fairness of Run(u, e)), runs
\* to its end, and the leader serves the requests for the lock.
Fairness ==
    \A u \in Units :
        /\ \A e \in Events : []<>(e \in due[u] /\ hook[u].event = "none")
                               => []<>(hook[u].event = e)
        /\ WF_vars(HookEnd(u))
        /\ WF_vars(Grant(u))

FairSpec == Spec /\ Fairness

\* The hooks that Juju sends on their own bring all the units into the cluster.
ClusterForms ==
    <>[](Cardinality(members) >= MinSize) /\ <>[][\A u \in Units : ~HookFail(u)]_vars =>
        <>[](\A u \in members : db[u] = members)

=============================================================================
