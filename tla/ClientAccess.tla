---------------------------- MODULE ClientAccess ----------------------------
(***************************************************************************)
(* How a client of the amqp relation gets its credentials.                 *)
(*                                                                         *)
(* The client writes what it wants (user, vhost, queue expiry) on its      *)
(* relation.  The leader, once the cluster is complete, finds or makes the *)
(* user's password, configures the broker, publishes the password in its   *)
(* own relation data and stores it in the leader settings; every other     *)
(* unit copies what the leader settings hold to its own relation data.     *)
(* rotate-service-user-password replaces a password.                       *)
(*                                                                         *)
(* What Juju does around a hook: leader-set takes effect at once and is    *)
(* refused to a unit that is not the leader; relation-set takes effect     *)
(* when the hook succeeds; a failed hook is run again; a change of the     *)
(* leader settings brings every other unit a leader-settings-changed hook. *)
(* The broker and the unit's kv store are written at once.                 *)
(*                                                                         *)
(* Scope: the peer relation exists (passwords are not on disk), automatic  *)
(* restarts are on with none pending (is_hook_allowed then says yes, and   *)
(* update_clients goes ahead), and the brokers of the units that have      *)
(* joined the cluster are one.  A password is the number of the pwgen call *)
(* that made it, 0 standing for none.                                      *)
(***************************************************************************)
EXTENDS Naturals

CONSTANTS
    Units,
    Rels,           \* the amqp relations
    Users,          \* user names
    Requests,       \* what a client may ask for: [user, vhost, ttl] records
    MaxPasswords,   \* bound on the passwords generated
    Interventions,  \* what happens in this instance, of AllInterventions
    Handover        \* how leadership moves: "lease" or "quiet", see Elect

AllInterventions == {"elect", "pause", "rotate", "rewrite", "fail"}

ASSUME UnitsAssumption == Units # {}
ASSUME RequestsAssumption == \A q \in Requests : q.user \in Users
ASSUME PasswordsAssumption == MaxPasswords \in Nat
ASSUME InterventionsAssumption == Interventions \subseteq AllInterventions
ASSUME HandoverAssumption == Handover \in {"lease", "quiet"}

VARIABLES
    leader,    \* the unit is_leader() is true on
    joined,    \* the units whose broker has joined the cluster
    paused,    \* the units that are paused
    want,      \* want[r]: what the client has written on r
    due,       \* due[u]: the events whose hooks u still has to run
    passwords, \* how many passwords were generated
    passwd,    \* passwd[n]: "<n>.passwd" in the leader settings
    peer,      \* peer[r]: "<r>_password" in the leader settings
    broker,    \* the users, permissions and policies of the broker
    tracker,   \* tracker[u][r]: u's kv amqp_config_tracker
    updated,   \* the units with kv initial_client_update_done
    bag,       \* bag[u][r]: the password u publishes on r
    hook       \* hook[u]: the hook or action running on u

vars == <<leader, joined, paused, want, due, passwords, passwd, peer, broker,
          tracker, updated, bag, hook>>

\* Requests, and tracker entries, that are not of a client.
Blank(x) == [user |-> x, vhost |-> x, ttl |-> 0]
NoRequest == Blank("none")
Untracked == Blank("none")
Stale == Blank("stale")
Password == 0..MaxPasswords
Vhosts == {q.vhost : q \in Requests}
Ttls == {q.ttl : q \in Requests} \cup {0}
Bag == [Rels -> Password]

\* The events: a client's change, and a hook that calls update_clients
\* (leader-settings-changed for one); any other hook is just "other".
Events == Rels \cup {"update"}

Hook == [event : Events \cup {"other", "rotate", "none"},
         at : {"idle", "each", "password", "broker", "record", "publish",
               "store", "tell"},
         todo : SUBSET Rels,      \* amqp_changed still to run for these
         marks : BOOLEAN,         \* through validate_amqp_config_tracker
         last : BOOLEAN,          \* in the tail of main(), or an action
         rel : Rels \cup {"none"},            \* the relation being served
         req : Requests \cup {NoRequest},     \* and what relation_get returned
         user : Users \cup {"none"},          \* the user being rotated
         pw : Password,
         out : Bag]               \* the relation data at the end of the hook

NoHook == [event |-> "none", at |-> "idle", todo |-> {}, marks |-> FALSE,
           last |-> FALSE, rel |-> "none", req |-> NoRequest, user |-> "none", pw |-> 0,
           out |-> [r \in Rels |-> 0]]

-----------------------------------------------------------------------------
\* The leader is ready when the cluster is complete, a minion once the leader has
\* stored the data of some client.
leader_node_is_ready(u) == u \notin paused /\ u = leader /\ joined = Units
client_node_is_ready(u) == u \notin paused /\ \E r \in Rels : peer[r] # 0

\* The relations that update_clients runs amqp_changed for.
update_clients(u) ==
    IF leader_node_is_ready(u) \/ client_node_is_ready(u) THEN Rels ELSE {}

\* Mutant of expected: the expiry is left out.
expected_without_ttl(q) == [user |-> q.user, vhost |-> q.vhost]

\* The entry that configure_amqp compares with.
expected(q) == q

\* What the broker is told for a request.  An existing user keeps its password;
\* the queue expiry is set on the vhost "openstack" only, if the client has one.
Configured(b, q, pw) ==
    [users |-> [b.users EXCEPT ![q.user] = IF @ = 0 THEN pw ELSE @],
     perms |-> b.perms \cup {<<q.user, q.vhost>>},
     ttl |-> IF q.vhost = "openstack" /\ q.ttl # 0
               THEN [b.ttl EXCEPT ![q.vhost] = q.ttl] ELSE b.ttl]

\* validate_amqp_config_tracker: on a unit that is not the leader, all entries
\* are marked.
Marked(u) ==
    [tracker EXCEPT ![u] = [r \in Rels |-> IF @[r] = Untracked THEN Untracked
                                           ELSE Stale]]

\* The leader settings change: the other units will run leader-settings-changed.
Informs(u) == [v \in Units |-> IF v = u THEN due[v] ELSE due[v] \cup {"update"}]

\* A minion's answer: what it publishes after relation_clear(r) and the copy of
\* everything the leader settings hold for the clients.
relation_clear(out, r) == [out EXCEPT ![r] = 0]
peer_retrieve_by_prefix(r) == peer[r]
Propagated(out, r) ==
    [s \in Rels |-> IF peer_retrieve_by_prefix(s) # 0 THEN peer_retrieve_by_prefix(s)
                    ELSE relation_clear(out, r)[s]]

-----------------------------------------------------------------------------
Init ==
    /\ leader \in Units
    /\ joined = {}
    /\ paused = {}
    /\ want = [r \in Rels |-> NoRequest]
    /\ due = [u \in Units |-> {}]
    /\ passwords = 0
    /\ passwd = [n \in Users |-> 0]
    /\ peer = [r \in Rels |-> 0]
    /\ broker = [users |-> [n \in Users |-> 0], perms |-> {},
                 ttl |-> [v \in Vhosts |-> 0]]
    /\ tracker = [u \in Units |-> [r \in Rels |-> Untracked]]
    /\ updated = {}
    /\ bag = [u \in Units |-> [r \in Rels |-> 0]]
    /\ hook = [u \in Units |-> NoHook]

\* A client writes its request, or ("rewrite") changes it.
ClientAsks(r, q) ==
    /\ want[r] # q
    /\ want[r] = NoRequest \/ "rewrite" \in Interventions
    /\ want' = [want EXCEPT ![r] = q]
    /\ due' = [u \in Units |-> due[u] \cup {r}]
    /\ UNCHANGED <<leader, joined, paused, passwords, passwd, peer, broker, tracker,
                   updated, bag, hook>>

\* The last thing that makes the cluster complete as the units see it; the hook
\* in which they see it updates the clients.
Join(u) ==
    /\ u \notin joined
    /\ joined' = joined \cup {u}
    /\ due' = [v \in Units |-> due[v] \cup {"update"}]
    /\ UNCHANGED <<leader, paused, want, passwords, passwd, peer, broker, tracker,
                   updated, bag, hook>>

\* The actions pause and resume.
Pause(u) ==
    /\ "pause" \in Interventions
    /\ hook[u].at = "idle"
    /\ paused' = IF u \in paused THEN paused \ {u} ELSE paused \cup {u}
    /\ UNCHANGED <<leader, joined, want, due, passwords, passwd, peer, broker,
                   tracker, updated, bag, hook>>

\* Leadership moves to a unit that runs no hook; with "lease" at any time except
\* during a rotation, with "quiet" between the hooks of the old leader.  The new
\* leader is sent leader-elected and no more leader-settings-changed.
Elect(u) ==
    /\ "elect" \in Interventions
    /\ u # leader
    /\ hook[u].at = "idle"
    /\ hook[leader].event # "rotate"
    /\ Handover = "quiet" => hook[leader].at = "idle"
    /\ leader' = u
    /\ due' = [due EXCEPT ![u] = @ \ {"update"}, ![leader] = @ \cup {"update"}]
    /\ UNCHANGED <<joined, paused, want, passwords, passwd, peer, broker, tracker,
                   updated, bag, hook>>

\* A hook starts.  Dispatch runs amqp_changed as it was registered, without the
\* decorator; update_clients runs the decorated one.
HookStart(u, e) ==
    /\ hook[u].at = "idle"
    /\ e \in due[u] \cup {"other"}
    /\ due' = [due EXCEPT ![u] = @ \ {e}]
    /\ hook' = [hook EXCEPT ![u] =
                  [NoHook EXCEPT !.event = e, !.at = "each", !.out = bag[u],
                     !.marks = e = "update",
                     !.todo = CASE e \in Rels -> {e}
                                [] e = "update" -> update_clients(u)
                                [] OTHER -> {}]]
    /\ UNCHANGED <<leader, joined, paused, want, passwords, passwd, peer, broker,
                   tracker, updated, bag>>

\* amqp_changed for r, up to configure_amqp on the leader, complete elsewhere.
amqp_changed(u, r) ==
    LET h == hook[u]
        ready == leader_node_is_ready(u)
        copies == u # leader /\ client_node_is_ready(u) /\ u \in joined
        next == [h EXCEPT !.todo = @ \ {r}]
    IN  /\ h.at = "each"
        /\ r \in h.todo
        /\ tracker' = IF h.marks /\ u # leader THEN Marked(u) ELSE tracker
        /\ hook' = [hook EXCEPT ![u] =
                      IF ready /\ want[r] # NoRequest
                        THEN [next EXCEPT !.at = "password", !.rel = r, !.req = want[r]]
                      ELSE IF copies THEN [next EXCEPT !.out = Propagated(@, r)]
                      ELSE next]
        /\ updated' = IF (ready /\ want[r] = NoRequest) \/ copies
                        THEN updated \cup {u} ELSE updated
        /\ UNCHANGED <<leader, joined, paused, want, due, passwords, passwd, peer,
                       broker, bag>>

\* Mutant of get_rabbit_password: a new password is not stored.
get_rabbit_password_unstored(u) ==
    LET h == hook[u]
        new == passwd[h.req.user] = 0
        pw == IF new THEN passwords + 1 ELSE passwd[h.req.user]
    IN  /\ h.at = "password"
        /\ new => passwords < MaxPasswords
        /\ passwords' = IF new THEN pw ELSE passwords
        /\ hook' = [hook EXCEPT ![u].at = "broker", ![u].pw = pw]
        /\ UNCHANGED <<leader, joined, paused, want, due, passwd, peer, broker, tracker,
                       updated, bag>>

\* Mutant of get_rabbit_password: the tracker is written ahead of the broker.
get_rabbit_password_records(u) ==
    LET h == hook[u]
        n == h.req.user
        new == passwd[n] = 0
        pw == IF new THEN passwords + 1 ELSE passwd[n]
        known == tracker[u][h.rel] = expected(h.req)
    IN  /\ h.at = "password"
        /\ new => u = leader /\ passwords < MaxPasswords
        /\ passwords' = IF new THEN pw ELSE passwords
        /\ passwd' = [passwd EXCEPT ![n] = pw]
        /\ due' = IF new THEN Informs(u) ELSE due
        /\ tracker' = [tracker EXCEPT ![u][h.rel] = expected(h.req)]
        /\ hook' = [hook EXCEPT ![u].at = IF known THEN "publish" ELSE "broker",
                                ![u].pw = pw]
        /\ UNCHANGED <<leader, joined, paused, want, peer, broker, updated, bag>>

\* get_rabbit_password, and the comparison with the tracker.  Storing a new
\* password fails on a unit that is not the leader any more.
get_rabbit_password(u) ==
    LET h == hook[u]
        n == h.req.user
        new == passwd[n] = 0
        pw == IF new THEN passwords + 1 ELSE passwd[n]
        known == tracker[u][h.rel] = expected(h.req)
    IN  /\ h.at = "password"
        /\ new => u = leader /\ passwords < MaxPasswords
        /\ passwords' = IF new THEN pw ELSE passwords
        /\ passwd' = [passwd EXCEPT ![n] = pw]
        /\ due' = IF new THEN Informs(u) ELSE due
        /\ hook' = [hook EXCEPT ![u].at = IF known THEN "publish" ELSE "broker",
                                ![u].pw = pw]
        /\ UNCHANGED <<leader, joined, paused, want, peer, broker, tracker, updated,
                       bag>>

\* The rabbitmqctl calls of configure_amqp, and then the tracker.
configure_amqp(u) ==
    /\ hook[u].at = "broker"
    /\ broker' = Configured(broker, hook[u].req, hook[u].pw)
    /\ hook' = [hook EXCEPT ![u].at = "record"]
    /\ UNCHANGED <<leader, joined, paused, want, due, passwords, passwd, peer,
                   tracker, updated, bag>>

RecordConfigured(u) ==
    LET h == hook[u] IN
    /\ h.at = "record"
    /\ tracker' = [tracker EXCEPT ![u][h.rel] = expected(h.req)]
    /\ hook' = [hook EXCEPT ![u].at = "publish"]
    /\ UNCHANGED <<leader, joined, paused, want, due, passwords, passwd, peer, broker,
                   updated, bag>>

\* peer_store_and_set: the leader settings at once, the relation at the end.
peer_store_and_set(u) ==
    LET h == hook[u] IN
    /\ h.at = "publish"
    /\ u = leader
    /\ peer' = [peer EXCEPT ![h.rel] = h.pw]
    /\ due' = IF peer' = peer THEN due ELSE Informs(u)
    /\ updated' = updated \cup {u}
    /\ hook' = [hook EXCEPT ![u].at = "each", ![u].out[h.rel] = h.pw]
    /\ UNCHANGED <<leader, joined, paused, want, passwords, passwd, broker, tracker,
                   bag>>

\* The tail of main(): until clients were updated once, every hook does it.
MainTail(u) ==
    LET h == hook[u] IN
    /\ h.at = "each" /\ h.todo = {} /\ ~h.last
    /\ hook' = [hook EXCEPT ![u].last = TRUE, ![u].marks = TRUE,
                            ![u].todo = IF u \in updated THEN {} ELSE update_clients(u)]
    /\ UNCHANGED <<leader, joined, paused, want, due, passwords, passwd, peer, broker,
                   tracker, updated, bag>>

\* The hook or action succeeds: Juju flushes its relation-set.
HookEnd(u) ==
    LET h == hook[u] IN
    /\ h.at = "each" /\ h.todo = {} /\ h.last
    /\ bag' = [bag EXCEPT ![u] = h.out]
    /\ hook' = [hook EXCEPT ![u] = NoHook]
    /\ UNCHANGED <<leader, joined, paused, want, due, passwords, passwd, peer, broker,
                   tracker, updated>>

\* The hook raises and will be run again: what it has stored stays.  One that has
\* lost the leadership always does when it comes to write the leader settings.
HookFail(u) ==
    LET h == hook[u] IN
    /\ "fail" \in Interventions \/ (h.at \in {"password", "publish"} /\ u # leader)
    /\ h.at # "idle" /\ h.event # "rotate"
    /\ due' = [due EXCEPT ![u] = @ \cup ({h.event} \cap Events)]
    /\ hook' = [hook EXCEPT ![u] = NoHook]
    /\ UNCHANGED <<leader, joined, paused, want, passwords, passwd, peer, broker,
                   tracker, updated, bag>>

\* The action rotate-service-user-password: the checks and the broker, then the
\* leader settings, then the relations, all of those that have a user name.
rotate_service_user_password(u, n) ==
    /\ "rotate" \in Interventions
    /\ hook[u].at = "idle"
    /\ leader_node_is_ready(u)
    /\ passwd[n] # 0 /\ broker.users[n] # 0
    /\ passwords < MaxPasswords
    /\ passwords' = passwords + 1
    /\ broker' = [broker EXCEPT !.users[n] = passwords + 1]
    /\ hook' = [hook EXCEPT ![u] =
                  [NoHook EXCEPT !.event = "rotate", !.at = "store", !.last = TRUE,
                     !.user = n, !.pw = passwords + 1, !.out = bag[u]]]
    /\ UNCHANGED <<leader, joined, paused, want, due, passwd, peer, tracker, updated,
                   bag>>

StoreRotated(u) ==
    LET h == hook[u] IN
    /\ h.at = "store"
    /\ passwd' = [passwd EXCEPT ![h.user] = h.pw]
    /\ due' = Informs(u)
    /\ hook' = [hook EXCEPT ![u].at = "tell"]
    /\ UNCHANGED <<leader, joined, paused, want, passwords, peer, broker, tracker,
                   updated, bag>>

\* Mutant of TellClients: relation_set in place of peer_store_and_set.
TellClientsDirectly(u) ==
    LET h == hook[u] IN
    /\ h.at = "tell"
    /\ hook' = [hook EXCEPT ![u].at = "each",
                  ![u].out = [r \in Rels |-> IF want[r] # NoRequest THEN h.pw ELSE @[r]]]
    /\ UNCHANGED <<leader, joined, paused, want, due, passwords, passwd, peer, broker,
                   tracker, updated, bag>>

TellClients(u) ==
    LET h == hook[u]
        told == {r \in Rels : want[r] # NoRequest}
        With(f) == [r \in Rels |-> IF r \in told THEN h.pw ELSE f[r]]
    IN  /\ h.at = "tell"
        /\ peer' = With(peer)
        /\ due' = Informs(u)
        /\ hook' = [hook EXCEPT ![u].at = "each", ![u].out = With(@)]
        /\ UNCHANGED <<leader, joined, paused, want, passwords, passwd, broker,
                       tracker, updated, bag>>

Step(u) ==
    \/ \E r \in Rels : amqp_changed(u, r)
    \/ get_rabbit_password(u)
    \/ configure_amqp(u)
    \/ RecordConfigured(u)
    \/ peer_store_and_set(u)
    \/ StoreRotated(u)
    \/ TellClients(u)
    \/ MainTail(u)
    \/ HookEnd(u)

Next ==
    \/ \E r \in Rels, q \in Requests : ClientAsks(r, q)
    \/ \E u \in Units : Join(u)
    \/ \E u \in Units : Pause(u)
    \/ \E u \in Units : Elect(u)
    \/ \E u \in Units, e \in Events \cup {"other"} : HookStart(u, e)
    \/ \E u \in Units : Step(u)
    \/ \E u \in Units : HookFail(u)
    \/ \E u \in Units, n \in Users : rotate_service_user_password(u, n)

Spec == Init /\ [][Next]_vars

-----------------------------------------------------------------------------
(* Correctness.                                                            *)

\* Type invariant: only generated passwords are stored, published and set on the
\* broker, and a tracker entry is a request that a client can have made.
TypeOK ==
    /\ leader \in Units
    /\ joined \subseteq Units
    /\ paused \subseteq Units
    /\ want \in [Rels -> Requests \cup {NoRequest}]
    /\ due \in [Units -> SUBSET Events]
    /\ passwords \in Password
    /\ passwd \in [Users -> Password]
    /\ peer \in Bag
    /\ broker \in [users : [Users -> Password], perms : SUBSET (Users \X Vhosts),
                   ttl : [Vhosts -> Ttls]]
    /\ tracker \in [Units -> [Rels -> Requests \cup {Untracked, Stale}]]
    /\ updated \subseteq Units
    /\ bag \in [Units -> Bag]
    /\ hook \in [Units -> Hook]

\* The password opens the broker: it is that of a user with permissions.
Opens(pw) ==
    \E n \in Users, v \in Vhosts : broker.users[n] = pw /\ <<n, v>> \in broker.perms

\* No unit hands a client a password the broker does not accept, and none is in
\* the leader settings for the other units to copy, whichever hooks failed half
\* way and whoever was leader (password rotation aside).
CredentialsWork ==
    \A r \in Rels : /\ peer[r] # 0 => Opens(peer[r])
                    /\ \A u \in Units : bag[u][r] # 0 => Opens(bag[u][r])

\* The password the broker has for a user is the stored one, so that a retry or a
\* new leader hands out what works; a rotation in progress excepted.
BrokerAgrees ==
    \A n \in Users :
        broker.users[n] # 0 /\ (\A u \in Units : hook[u].user # n) =>
            broker.users[n] = passwd[n]


\* "The password is changed on the relation to the user's units": the password
\* stored for a relation is changed only to that of the user it is for.
OwnPasswordOnly ==
    [][\A r \in Rels : peer'[r] # peer[r] /\ want[r] # NoRequest
         => peer'[r] = passwd'[want[r].user]]_vars

\* The hooks that are due are run to their ends, and the units join the cluster.
Fairness ==
    \A u \in Units :
        /\ WF_vars(Join(u))
        /\ WF_vars(Step(u))
        /\ \A e \in Events : SF_vars(HookStart(u, e))

FairSpec == Spec /\ Fairness

\* A step that is neither a client changing its mind nor a hook failing.
Quiet == want' = want /\ \A u \in Units : ~HookFail(u)

\* When the clients have settled and hooks have stopped failing, every unit ends
\* up publishing the password that the broker accepts, also after a rotation and
\* whatever the failed hooks left behind.
ClientsServed ==
    <>[][Quiet]_vars =>
        <>[](\A u \in Units, r \in Rels :
               want[r] # NoRequest =>
                   /\ bag[u][r] # 0
                   /\ bag[u][r] = broker.users[want[r].user]
                   /\ <<want[r].user, want[r].vhost>> \in broker.perms)

=============================================================================
