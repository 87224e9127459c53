------------------------------- MODULE Cookies -------------------------------
(***************************************************************************)
(* The Erlang cookie, by which the brokers of a cluster know each other,   *)
(* while the units' series is upgraded one after the other.                *)
(*                                                                         *)
(* The cookie that counts is in the leader settings.  A new package may    *)
(* replace a weak cookie on disk by one of its own; after the upgrade the  *)
(* leader makes sure that its cookie is a good one and stores it, and the  *)
(* others take the stored one, in their own upgrade or in later hooks.     *)
(*                                                                         *)
(* Cookies are numbers, 0 the only weak one.  What is stored may end in a  *)
(* newline ("eol"); what is read from the file never does.  Scope: the     *)
(* cluster is formed, nobody pauses a unit but the upgrade, a file that is *)
(* opened can be written.  Juju runs no hook on a unit between the two     *)
(* hooks of the upgrade, and leader-settings-changed on non-leaders only.  *)
(***************************************************************************)
EXTENDS Naturals

CONSTANTS
    Units,
    MaxCookies,   \* bound on cookies that are made
    MaxChanges,   \* bound on elections, failures and changes of the option
    None

VARIABLES
    leader,
    stored,       \* "cookie" in the leader settings: [value, eol]
    bag,          \* bag[u]: "cookie" in u's data on the cluster relation
    file,         \* file[u]: the cookie on u's disk
    loaded,       \* loaded[u]: the one u's broker runs with, None: it is down
    stage,        \* stage[u]: "old", "upgrading", "upgraded" or "new"
    due,          \* due[u]: the hooks due
    permitted,    \* enable-auto-restarts
    cookies,      \* how many have been made
    changes

vars == <<leader, stored, bag, file, loaded, stage, due, permitted, cookies, changes>>

weak(c) == c = 0
Stored(c, eol) == [value |-> c, eol |-> eol]

\* What the comparisons of a stored cookie with one read from disk say.
Same(cookie, local) == cookie = Stored(local, FALSE)

-----------------------------------------------------------------------------
Init ==
    /\ leader \in Units
    /\ stored = Stored(0, FALSE)
    /\ bag = [u \in Units |-> stored]
    /\ file = [u \in Units |-> 0] /\ loaded = file
    /\ stage = [u \in Units |-> "old"]
    /\ due = [u \in Units |-> {}]
    /\ permitted = TRUE
    /\ cookies = 0 /\ changes = 0

Change == changes < MaxChanges /\ changes' = changes + 1
Hooks(u) == stage[u] \in {"old", "new"}

\* pre-series-upgrade pauses the unit.
series_upgrade_prepare(u) ==
    /\ stage[u] = "old"
    /\ \A v \in Units : Hooks(v)
    /\ stage' = [stage EXCEPT ![u] = "upgrading"]
    /\ loaded' = [loaded EXCEPT ![u] = None]
    /\ UNCHANGED <<leader, stored, bag, file, due, permitted, cookies, changes>>

\* The new package leaves the cookie or, if it is weak, makes another.
PackageUpgrade(u) ==
    /\ stage[u] = "upgrading"
    /\ stage' = [stage EXCEPT ![u] = "upgraded"]
    /\ \/ UNCHANGED <<file, cookies>>
       \/ /\ weak(file[u]) /\ cookies < MaxCookies
          /\ cookies' = cookies + 1
          /\ file' = [file EXCEPT ![u] = cookies']
    /\ UNCHANGED <<leader, stored, bag, loaded, due, permitted, changes>>

\* peer_store: the others are told.
peer_store(cookie) ==
    /\ stored' = cookie
    /\ due' = [v \in Units |-> IF v = leader THEN due[v]
                               ELSE due[v] \cup {"leader-settings-changed"}]

\* Mutant of store_cookie: the leader keeps its cookie to itself.
store_cookie_not(local) == UNCHANGED <<stored, due>>

\* "ensure the local cookie matches the one stored"
store_cookie(local) ==
    IF stored = local THEN UNCHANGED <<stored, due>> ELSE peer_store(local)

\* openssl prints a line; without it the leader goes on with the cookie it has.
new_cookie(u) ==
    \/ /\ weak(file[u]) /\ cookies < MaxCookies
       /\ cookies' = cookies + 1
       /\ store_cookie(Stored(cookies', TRUE))
    \/ /\ UNCHANGED cookies
       /\ store_cookie(Stored(file[u], FALSE))

\* The cookie is written once it is stored, on the leader, and is the stored one on others.
check_erlang_cookie_on_series_upgrade(u) ==
    IF u = leader
    THEN /\ new_cookie(u)
         /\ file' = [file EXCEPT ![u] = IF cookies' # cookies THEN cookies' ELSE @]
    ELSE /\ file' = [file EXCEPT ![u] = stored.value]
         /\ UNCHANGED <<stored, due, cookies>>

\* The check, then the unit is resumed.
series_upgrade_complete(u) ==
    /\ stage[u] = "upgraded"
    /\ check_erlang_cookie_on_series_upgrade(u)
    /\ stage' = [stage EXCEPT ![u] = "new"]
    /\ loaded' = [loaded EXCEPT ![u] = file'[u]]
    /\ UNCHANGED <<leader, bag, permitted, changes>>

\* It dies after the leader has stored a cookie and before it is written; Juju runs it
\* again.
series_upgrade_complete_fails(u) ==
    /\ stage[u] = "upgraded" /\ u = leader /\ Change
    /\ new_cookie(u)
    /\ UNCHANGED <<leader, bag, file, loaded, stage, permitted>>

-----------------------------------------------------------------------------
\* The broker starts with what is in the file.
service_restart(u) == loaded' = [loaded EXCEPT ![u] = file'[u]]

\* update_cookie: nothing if it is the same, an exception if restarts are off.
update_cookie(u) ==
    IF Same(stored, file[u]) THEN UNCHANGED <<file, loaded>>
    ELSE /\ permitted
         /\ file' = [file EXCEPT ![u] = stored.value]
         /\ service_restart(u)

\* It also passes the cookie on in the relation, for the leader's sake.
leader_settings_changed(u) ==
    /\ u # leader /\ Hooks(u) /\ "leader-settings-changed" \in due[u]
    /\ update_cookie(u)
    /\ bag' = [bag EXCEPT ![u] = stored]
    /\ due' = [v \in Units |->
                 IF v = u THEN due[v] \ {"leader-settings-changed"}
                 ELSE IF bag' = bag THEN due[v]
                 ELSE due[v] \cup {"cluster-relation-changed"}]
    /\ UNCHANGED <<leader, stored, stage, permitted, cookies, changes>>

cluster_changed(u) ==
    /\ Hooks(u) /\ "cluster-relation-changed" \in due[u]
    /\ update_cookie(u)
    /\ due' = [due EXCEPT ![u] = @ \ {"cluster-relation-changed"}]
    /\ UNCHANGED <<leader, stored, bag, stage, permitted, cookies, changes>>

\* Who ceases to be leader is told of the settings.
Elect(u) ==
    /\ u # leader /\ Change
    /\ leader' = u
    /\ due' = [due EXCEPT ![leader] = @ \cup {"leader-settings-changed"}]
    /\ UNCHANGED <<stored, bag, file, loaded, stage, permitted, cookies>>

SetOption ==
    /\ Change
    /\ permitted' = ~permitted
    /\ UNCHANGED <<leader, stored, bag, file, loaded, stage, due, cookies>>

Next ==
    \/ \E u \in Units :
          \/ series_upgrade_prepare(u) \/ PackageUpgrade(u)
          \/ series_upgrade_complete(u) \/ series_upgrade_complete_fails(u)
          \/ leader_settings_changed(u) \/ cluster_changed(u) \/ Elect(u)
    \/ SetOption

Spec == Init /\ [][Next]_vars

-----------------------------------------------------------------------------
Value == 0..MaxCookies
Cookie == [value : Value, eol : BOOLEAN]

TypeOK ==
    /\ leader \in Units
    /\ stored \in Cookie /\ bag \in [Units -> Cookie]
    /\ file \in [Units -> Value] /\ loaded \in [Units -> Value \cup {None}]
    /\ stage \in [Units -> {"old", "upgrading", "upgraded", "new"}]
    /\ due \in [Units -> SUBSET {"leader-settings-changed", "cluster-relation-changed"}]
    /\ permitted \in BOOLEAN /\ cookies \in Value /\ changes \in 0..MaxChanges

\* No hook is due, and no unit is between its two hooks.  A unit that was elected with
\* leader-settings-changed due is never at rest: Juju runs it only once it is deposed.
AtRest == \A u \in Units : Hooks(u) /\ due[u] = {}

\* However series upgrades, elections, failures and the option came together: when the
\* hooks have run, every unit's file has the stored cookie and its broker runs with it, so
\* that the brokers know each other.
CookieShared ==
    AtRest => \A u \in Units : file[u] = stored.value /\ loaded[u] = file[u]
=============================================================================
