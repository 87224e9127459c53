---------------------------- MODULE BrokerAdmin ----------------------------
(***************************************************************************)
(* What the charm keeps in the broker with rabbitmqctl: vhosts, users,     *)
(* tags, permissions and policies, and the management plugin of each node. *)
(*                                                                         *)
(* A hook is a sequence of rabbitmqctl calls, each preceded by a query     *)
(* that decides whether the call is needed; one step of the model is one   *)
(* query and its call.  Between two steps the leader may change, another   *)
(* unit's hook may use rabbitmqctl (the units share one broker), and the   *)
(* operator may change options, which a running hook does not see.  Any    *)
(* call may fail, which ends the hook; Juju runs it again from the start.  *)
(* Errors of list_vhosts and of clearing the HA policy are swallowed.      *)
(*                                                                         *)
(* Where rabbitmqctl cannot answer in JSON (before 3.8.2) the calls are    *)
(* made without asking, which leaves the broker in the same state.  Each   *)
(* relation has a user of its own; the HA and the TTL policies have one    *)
(* definition each, up to the ttl.                                         *)
(***************************************************************************)
EXTENDS Naturals, Sequences, SequencesExt

CONSTANTS
    Units,
    Rels,      \* the amqp relations; each has a user of its own
    Admins,    \* the relations that ask for an administrator
    Vhosts,    \* the vhosts asked for
    Confs,     \* the options set in this instance, members of Conf
    Requests,  \* what clients ask for in this instance, members of Ask
    MaxChanges, \* bound on the changes of options, requests and leader together
    None


VARIABLES
    leader,    \* the unit is_leader() is true on
    conf,      \* the application's options
    ask,       \* ask[r]: what the client has written on r
    due,       \* due[u]: the events u has not handled, config-changed or relations
    broker,    \* the cluster's vhosts, users and policies, see Broker
    plugin,    \* the units whose management plugin is enabled
    tracker,   \* tracker[u][r]: u's kv amqp_config_tracker, None when absent
    hook,      \* hook[u]: the hook of u and the calls it has still to make
    changes,   \* how many changes there were
    excused    \* a fault that only another config-changed repairs has happened

vars == <<leader, conf, ask, due, broker, plugin, tracker, hook, changes, excused>>

Events == {"config-changed"} \cup Rels
Conf == [mirroring : BOOLEAN, nttl : Nat \ {0}, management : BOOLEAN]
Ask == [vhost : Vhosts \cup {None}, ttl : Nat]     \* ttl 0 stands for none
Entry == [vhost : Vhosts, ttl : Nat, mirroring : BOOLEAN, stale : BOOLEAN]

Broker == [vhosts : SUBSET Vhosts,
           users : SUBSET Rels,
           admins : SUBSET Rels,             \* users with the administrator tag
           perms : SUBSET (Rels \X Vhosts),
           ha : SUBSET Vhosts,               \* vhosts with the policy HA
           nttl : Nat,                       \* policy TTL of "openstack", 0: none
           expires : Nat]                    \* policy ttlname of "openstack"

Ops == {"enable_plugin", "is_leader", "set_all_mirroring_queues", "ha_mode",
        "amqp_changed", "create_vhost", "notification_ttl", "configure_ttl",
        "create_user", "grant_permissions", "record", "openstack_ttl"}
Call == [op : Ops, arg : Vhosts \cup Rels \cup {None}]
Hook == [phase : {"idle", "running", "failed"}, event : Events \cup {None},
         seen : Conf,              \* config() of this hook
         asked : [Rels -> Ask],    \* the relation data it sees
         todo : Seq(Call)]

call(op, arg) == [op |-> op, arg |-> arg]
calls(op, args) == [i \in DOMAIN args |-> call(op, args[i])]

-----------------------------------------------------------------------------
(* Queries and what they decide.                                           *)

\* An error of the query looks like a broker without vhosts.
list_vhosts(blind) == IF blind THEN {} ELSE broker.vhosts

get_vhost_policy(policy) == broker[policy]
compare_policy(policy, value) == get_vhost_policy(policy) = value

\* rabbitmqctl set_policy is called unless the policy is there already.
set_policy(policy, value) ==
    IF compare_policy(policy, value) THEN broker
    ELSE [broker EXCEPT ![policy] = value]

set_ha_mode(v) == set_policy("ha", broker.ha \cup {v})

clear_policy(v) ==
    IF v \in get_vhost_policy("ha") THEN [broker EXCEPT !.ha = @ \ {v}] ELSE broker

\* With force, an error is swallowed.
clear_ha_mode(v, blind) == IF blind THEN broker ELSE clear_policy(v)

user_exists(r) == r \in broker.users
list_user_tags(r) == {"administrator" : a \in broker.admins \cap {r}}
list_user_vhost_permissions(r, v) == broker.perms \cap {<<r, v>>}
list_enabled_plugins(u) == plugin \cap {u}

\* set_user_tags replaces the tags, if they are not the ones wanted.
apply_tags(b, r, tags) ==
    IF list_user_tags(r) = tags THEN b
    ELSE [b EXCEPT !.admins = IF tags = {} THEN @ \ {r} ELSE @ \cup {r}]

create_user(r) ==
    apply_tags(IF user_exists(r) THEN broker ELSE [broker EXCEPT !.users = @ \cup {r}],
               r, IF r \in Admins THEN {"administrator"} ELSE {})

\* What configure_amqp records of request q: not whether it is an administrator.
expected(q, c) == [vhost |-> q.vhost, ttl |-> q.ttl,
                   mirroring |-> c.mirroring, stale |-> FALSE]

\* Mutant of configure_amqp: the record is made before the calls.
configure_amqp_eager(u, r, q, c) ==
    IF tracker[u][r] = expected(q, c) THEN <<>>
    ELSE <<call("record", r), call("create_vhost", q.vhost), call("create_user", r),
           call("grant_permissions", r)>>

\* The calls of configure_amqp for request q of r, none if the unit's tracker says
\* that r is configured.  record comes last.
configure_amqp(u, r, q, c) ==
    IF tracker[u][r] = expected(q, c) THEN <<>>
    ELSE <<call("create_vhost", q.vhost)>>
         \o (IF q.vhost # "openstack" THEN <<>>
             ELSE <<call("notification_ttl", r), call("configure_ttl", r)>>)
         \o <<call("create_user", r), call("grant_permissions", r)>>
         \o (IF c.mirroring THEN <<call("ha_mode", q.vhost)>> ELSE <<>>)
         \o <<call("record", r)>>

\* amqp_changed on a unit: only the leader configures; nothing to do before the
\* client has written its request.
amqp_changed(u, r, q, c) ==
    IF u = leader /\ q.vhost # None THEN configure_amqp(u, r, q, c) ELSE <<>>

\* configure_rabbit_install; update_clients comes with cluster_changed.
configure_rabbit_install == <<call("enable_plugin", None), call("is_leader", None)>>

OnLeader ==
    <<call("set_all_mirroring_queues", None)>>
    \o calls("amqp_changed", SetToSeq(Rels)) \o <<call("openstack_ttl", None)>>

-----------------------------------------------------------------------------
InitConf == [mirroring |-> TRUE, nttl |-> 1, management |-> TRUE]
NoAsk == [r \in Rels |-> [vhost |-> None, ttl |-> 0]]
NoHook == [phase |-> "idle", event |-> None, seen |-> InitConf, asked |-> NoAsk,
           todo |-> <<>>]

Init ==
    /\ leader \in Units
    /\ conf = InitConf
    /\ ask = NoAsk
    /\ due = [u \in Units |-> {}]
    /\ broker = [vhosts |-> {}, users |-> {}, admins |-> {}, perms |-> {},
                 ha |-> {}, nttl |-> 0, expires |-> 0]
    /\ plugin = Units
    /\ tracker = [u \in Units |-> [r \in Rels |-> None]]
    /\ hook = [u \in Units |-> NoHook]
    /\ changes = 0
    /\ excused = FALSE

\* No hook is due or under way.
Settled == \A u \in Units : hook[u].phase = "idle" /\ due[u] = {}

Change == changes < MaxChanges /\ changes' = changes + 1

\* juju config
SetOption(c) ==
    /\ Change
    /\ c # conf
    /\ conf' = c
    /\ due' = [u \in Units |-> due[u] \cup {"config-changed"}]
    /\ UNCHANGED <<leader, ask, broker, plugin, tracker, hook, excused>>

\* A client writes its request on the relation, or changes it.
ClientAsks(r, q) ==
    /\ Change
    /\ q # ask[r] /\ q.vhost # None
    /\ ask' = [ask EXCEPT ![r] = q]
    /\ due' = [u \in Units |-> due[u] \cup {r}]
    /\ UNCHANGED <<leader, conf, broker, plugin, tracker, hook, excused>>

\* Leadership moves, also in the middle of a hook (the lease expired).  What the new
\* leader did not apply as a follower, and what the old one still does, is a fault.
Elect(u) ==
    /\ Change
    /\ u # leader
    /\ leader' = u
    /\ excused' = (excused \/ ~Settled)
    /\ UNCHANGED <<conf, ask, due, broker, plugin, tracker, hook>>

\* A hook starts, or starts again after it failed.
HookStart(u, e) ==
    /\ \/ hook[u].phase = "idle" /\ e \in due[u]
       \/ hook[u].phase = "failed" /\ e = hook[u].event
    /\ hook' = [hook EXCEPT ![u] =
                  [phase |-> "running", event |-> e, seen |-> conf, asked |-> ask,
                   todo |-> IF e = "config-changed" THEN configure_rabbit_install
                            ELSE amqp_changed(u, e, ask[e], conf)]]
    /\ due' = [due EXCEPT ![u] = @ \ {e}]
    /\ UNCHANGED <<leader, conf, ask, broker, plugin, tracker, changes, excused>>

Next1(u, op) == hook[u].todo # <<>> /\ Head(hook[u].todo).op = op
Arg(u) == Head(hook[u].todo).arg
Asked(u) == hook[u].asked[Arg(u)]
Then(u, more) == hook' = [hook EXCEPT ![u].todo = more \o Tail(@)]

\* enable_plugin and disable_plugin, which do not trust a failed query.
ManagePlugin(u) ==
    /\ Next1(u, "enable_plugin")
    /\ plugin' = IF hook[u].seen.management = (list_enabled_plugins(u) # {}) THEN plugin
                 ELSE IF hook[u].seen.management THEN plugin \cup {u}
                 ELSE plugin \ {u}
    /\ Then(u, <<>>)
    /\ UNCHANGED <<leader, conf, ask, due, broker, tracker, changes, excused>>

\* "Only set values if this is the leader".  The leader applies all the options
\* again, which makes up for earlier faults if no other unit is at the broker.
IsLeader(u) ==
    /\ Next1(u, "is_leader")
    /\ Then(u, IF u = leader THEN OnLeader ELSE <<>>)
    /\ excused' = (excused
                   /\ (u # leader \/ \E v \in Units \ {u} : hook[v].todo # <<>>))
    /\ UNCHANGED <<leader, conf, ask, due, broker, plugin, tracker, changes>>

set_all_mirroring_queues(u, blind) ==
    /\ Next1(u, "set_all_mirroring_queues")
    /\ Then(u, calls("ha_mode", SetToSeq(list_vhosts(blind))))
    /\ excused' = (excused \/ list_vhosts(blind) # broker.vhosts)
    /\ UNCHANGED <<leader, conf, ask, due, broker, plugin, tracker, changes>>

\* One vhost's turn: an error of set_ha_mode ends the hook, see CallFails.
HaMode(u, blind) ==
    /\ Next1(u, "ha_mode")
    /\ hook[u].seen.mirroring => ~blind
    /\ broker' = IF hook[u].seen.mirroring THEN set_ha_mode(Arg(u))
                 ELSE clear_ha_mode(Arg(u), blind)
    /\ excused' = (excused \/ blind)
    /\ Then(u, <<>>)
    /\ UNCHANGED <<leader, conf, ask, due, plugin, tracker, changes>>

\* Called from update_clients, amqp_changed first marks the records of a unit that is
\* not the leader as stale.
UpdateClient(u) ==
    /\ Next1(u, "amqp_changed")
    /\ tracker' = IF u = leader THEN tracker
                  ELSE [tracker EXCEPT ![u] =
                          [r \in Rels |-> IF @[r] = None THEN None
                                          ELSE [@[r] EXCEPT !.stale = TRUE]]]
    /\ Then(u, amqp_changed(u, Arg(u), Asked(u), hook[u].seen))
    /\ UNCHANGED <<leader, conf, ask, due, broker, plugin, changes, excused>>

\* A vhost that is there cannot be added: with a failed query the hook fails.
create_vhost(u, blind) ==
    /\ Next1(u, "create_vhost")
    /\ Arg(u) \in list_vhosts(blind) \/ Arg(u) \notin broker.vhosts
    /\ broker' = [broker EXCEPT !.vhosts = @ \cup {Arg(u)}]
    /\ Then(u, <<>>)
    /\ UNCHANGED <<leader, conf, ask, due, plugin, tracker, changes, excused>>

configure_notification_ttl(u) ==
    /\ Next1(u, "notification_ttl")
    /\ broker' = set_policy("nttl", hook[u].seen.nttl)
    /\ Then(u, <<>>)
    /\ UNCHANGED <<leader, conf, ask, due, plugin, tracker, changes, excused>>

\* ttlname, ttlreg and ttl are asked for together; without them nothing is set.
configure_ttl(u) ==
    /\ Next1(u, "configure_ttl")
    /\ broker' = IF Asked(u).ttl = 0 THEN broker
                 ELSE set_policy("expires", Asked(u).ttl)
    /\ Then(u, <<>>)
    /\ UNCHANGED <<leader, conf, ask, due, plugin, tracker, changes, excused>>

CreateUser(u) ==
    /\ Next1(u, "create_user")
    /\ broker' = create_user(Arg(u))
    /\ Then(u, <<>>)
    /\ UNCHANGED <<leader, conf, ask, due, plugin, tracker, changes, excused>>

grant_permissions(u) ==
    /\ Next1(u, "grant_permissions")
    /\ broker' = IF list_user_vhost_permissions(Arg(u), Asked(u).vhost) # {} THEN broker
                 ELSE [broker EXCEPT !.perms = @ \cup {<<Arg(u), Asked(u).vhost>>}]
    /\ Then(u, <<>>)
    /\ UNCHANGED <<leader, conf, ask, due, plugin, tracker, changes, excused>>

\* kv is written and flushed after the last call.
Record(u) ==
    /\ Next1(u, "record")
    /\ tracker' = [tracker EXCEPT ![u][Arg(u)] = expected(Asked(u), hook[u].seen)]
    /\ Then(u, <<>>)
    /\ UNCHANGED <<leader, conf, ask, due, broker, plugin, changes, excused>>

OpenstackTtl(u, blind) ==
    /\ Next1(u, "openstack_ttl")
    /\ broker' = IF "openstack" \in list_vhosts(blind)
                   THEN set_policy("nttl", hook[u].seen.nttl) ELSE broker
    /\ excused' = (excused \/ list_vhosts(blind) # broker.vhosts)
    /\ Then(u, <<>>)
    /\ UNCHANGED <<leader, conf, ask, due, plugin, tracker, changes>>

\* rabbitmqctl returns an error.
CallFails(u) ==
    /\ hook[u].todo # <<>>
    /\ Head(hook[u].todo).op \notin
         {"is_leader", "set_all_mirroring_queues", "amqp_changed", "record"}
    /\ Head(hook[u].todo).op = "ha_mode" => hook[u].seen.mirroring
    /\ hook' = [hook EXCEPT ![u].phase = "failed", ![u].todo = <<>>]
    /\ UNCHANGED <<leader, conf, ask, due, broker, plugin, tracker, changes, excused>>

HookEnd(u) ==
    /\ hook[u].phase = "running" /\ hook[u].todo = <<>>
    /\ hook' = [hook EXCEPT ![u] = NoHook]
    /\ UNCHANGED <<leader, conf, ask, due, broker, plugin, tracker, changes, excused>>

Next ==
    \/ \E c \in Confs : SetOption(c)
    \/ \E r \in Rels, q \in Requests : ClientAsks(r, q)
    \/ \E u \in Units : Elect(u)
    \/ \E u \in Units, e \in Events : HookStart(u, e)
    \/ \E u \in Units :
         \/ ManagePlugin(u) \/ IsLeader(u) \/ UpdateClient(u)
         \/ configure_notification_ttl(u) \/ configure_ttl(u)
         \/ CreateUser(u) \/ grant_permissions(u) \/ Record(u)
         \/ CallFails(u) \/ HookEnd(u)
    \/ \E u \in Units, blind \in BOOLEAN :
         \/ set_all_mirroring_queues(u, blind) \/ HaMode(u, blind)
         \/ create_vhost(u, blind) \/ OpenstackTtl(u, blind)

Spec == Init /\ [][Next]_vars

-----------------------------------------------------------------------------
TypeOK ==
    /\ leader \in Units
    /\ conf \in Conf
    /\ ask \in [Rels -> Ask]
    /\ due \in [Units -> SUBSET Events]
    /\ broker \in Broker
    /\ plugin \subseteq Units
    /\ tracker \in [Units -> [Rels -> Entry \cup {None}]]
    /\ hook \in [Units -> Hook]
    /\ changes \in 0..MaxChanges
    /\ excused \in BOOLEAN

\* configure_amqp skips the calls for a relation its tracker records: the record of
\* any unit, a former leader's too, stands for a vhost, a user with its tags and
\* permissions, and a queue expiry that the broker has, whichever calls failed.
RecordedIsApplied ==
    \A u \in Units, r \in Rels :
        LET e == tracker[u][r] IN
        e # None =>
            /\ e.vhost \in broker.vhosts
            /\ r \in broker.users
            /\ r \in broker.admins <=> r \in Admins
            /\ <<r, e.vhost>> \in broker.perms
            /\ e.ttl # 0 /\ e.vhost = "openstack" => broker.expires # 0

\* Once the hooks have run everywhere, the vhosts that clients ask for have the
\* policies that the options say, however the changes of options and requests and
\* the failures interleaved, unless an error was swallowed or leadership moved
\* before that; the plugin is as the option says in any case.
OptionsApplied ==
    Settled =>
        /\ plugin = IF conf.management THEN Units ELSE {}
        /\ ~excused =>
             LET asked == {ask[r].vhost : r \in Rels} \ {None} IN
             /\ IF conf.mirroring THEN asked \subseteq broker.ha ELSE broker.ha = {}
             /\ "openstack" \in asked => broker.nttl = conf.nttl
=============================================================================
