------------------------------ MODULE Passwords ------------------------------
(***************************************************************************)
(* Where the password of a client's user is kept: in a file on the unit    *)
(* while there is no peer relation, in the leader settings once there is,  *)
(* and, in deployments older than leader settings, in the data of every    *)
(* unit on the peer relation.  Each place is emptied into the leader       *)
(* settings when the leader next looks.                                    *)
(*                                                                         *)
(* The broker keeps the password that a user was made with, so every later *)
(* look has to find that one.  Module ClientAccess starts where this one   *)
(* ends: the peer relation is made and nothing is left to be moved.        *)
(* Scope: the cluster is ready; leadership moves between hooks.            *)
(***************************************************************************)
EXTENDS Naturals

CONSTANTS
    Units,
    Users,
    MaxPasswords,  \* bound on passwords
    MaxChanges,    \* bound on elections, failures and rotations
    None

VARIABLES
    related,       \* the peer relation is made
    leader,
    files,         \* files[u][n]: the password in u's file <n>.passwd
    bag,           \* bag[u][n]: the one in u's data on the peer relation
    settings,      \* settings[n]: the one in the leader settings
    migrated,      \* the users in __leader_get_migrated_settings__
    broker,        \* broker[n]: the password the broker has for user n
    served,        \* served[n]: the one the client has been given
    job,           \* the leader's hook: what it does for which user
    passwords,     \* how many have been generated
    changes,
    excused        \* users whose password was left behind, see ServedWorks

vars == <<related, leader, files, bag, settings, migrated, broker, served, job, passwords,
          changes, excused>>

Password == 1..MaxPasswords
Idle == job = None
Nobody == [n \in Users |-> None]

-----------------------------------------------------------------------------
(* The peer storage.                                                       *)

\* Mutant of leader_get: what the unit has on the relation wins.
leader_get_bag(n) == IF bag[leader][n] # None THEN bag[leader][n] ELSE settings[n]

\* What the leader is given: the leader setting, else what it has itself on the relation,
\* unless that has been moved before.
leader_get(n) ==
    IF settings[n] # None \/ n \in migrated THEN settings[n] ELSE bag[leader][n]

\* Reading moves the value, and remembers it.
Migrate(n) ==
    /\ settings' = [settings EXCEPT ![n] = leader_get(n)]
    /\ migrated' = IF leader_get(n) # None THEN migrated \cup {n} ELSE migrated

\* A read of everything moves everything the unit has on the relation.
MigrateAll ==
    /\ settings' = [n \in Users |-> leader_get(n)]
    /\ migrated' = migrated \cup {n \in Users : bag[leader][n] # None}

\* On the peer relation a setting becomes a leader setting.
relation_set(n, password) == settings' = [settings EXCEPT ![n] = password]
peer_store(n, password) == relation_set(n, password)

\* pwgen
Generate == passwords < MaxPasswords /\ passwords' = passwords + 1

get_usernames_for_passwords_on_disk == {n \in Users : files[leader][n] # None}
get_usernames_for_passwords ==
    LET stored == {n \in Users : related /\ leader_get(n) # None}
    IN  IF stored # {} THEN stored ELSE get_usernames_for_passwords_on_disk

-----------------------------------------------------------------------------
\* A deployment that is new, or comes from a charm that kept passwords on the relation.
Init ==
    /\ leader \in Units
    /\ related \in BOOLEAN
    /\ bag \in {[u \in Units |-> Nobody]}
              \cup {[u \in Units |-> [n \in Users |-> 1]] : r \in {related} \cap {TRUE}}
    /\ passwords = IF bag[leader] = Nobody THEN 0 ELSE 1
    /\ broker = bag[leader] /\ served = bag[leader]
    /\ files = [u \in Units |-> Nobody]
    /\ settings = Nobody /\ migrated = {}
    /\ job = None /\ changes = 0 /\ excused = {}

Same == UNCHANGED <<related, leader, bag, changes, excused>>

\* amqp_changed for a client with user n.
amqp_changed(n) ==
    /\ Idle
    /\ job' = [user |-> n, step |-> IF related THEN "move" ELSE "look", password |-> None]
    /\ Same /\ UNCHANGED <<files, settings, migrated, broker, served, passwords>>

\* migrate_passwords_to_peer_relation, a file at a time: first the store ...
migrate_store(n) ==
    /\ ~Idle /\ job.step = "move" /\ job.password = None
    /\ files[leader][n] # None
    /\ peer_store(n, files[leader][n])
    /\ job' = [job EXCEPT !.password = n]
    /\ Same /\ UNCHANGED <<files, migrated, broker, served, passwords>>


\* ... then the file goes.
migrate_unlink ==
    /\ ~Idle /\ job.step = "move" /\ job.password # None
    /\ files' = [files EXCEPT ![leader][job.password] = None]
    /\ job' = [job EXCEPT !.password = None]
    /\ Same /\ UNCHANGED <<settings, migrated, broker, served, passwords>>

Moved ==
    /\ ~Idle /\ job.step = "move" /\ files[leader] = Nobody
    /\ job' = [job EXCEPT !.step = "look"]
    /\ Same /\ UNCHANGED <<files, settings, migrated, broker, served, passwords>>

\* get_rabbit_password with the peer relation: what is there, else a new one, stored.
get_rabbit_password ==
    /\ ~Idle /\ job.step = "look" /\ related
    /\ IF leader_get(job.user) # None
       THEN Migrate(job.user) /\ UNCHANGED passwords
       ELSE Generate /\ peer_store(job.user, passwords') /\ UNCHANGED migrated
    /\ job' = [job EXCEPT !.step = "broker", !.password = settings'[job.user]]
    /\ Same /\ UNCHANGED <<files, broker, served>>

\* Without: the file's, else a new one in a new file.
get_rabbit_password_on_disk ==
    /\ ~Idle /\ job.step = "look" /\ ~related
    /\ IF files[leader][job.user] # None
       THEN UNCHANGED <<files, passwords>>
       ELSE Generate /\ files' = [files EXCEPT ![leader][job.user] = passwords']
    /\ job' = [job EXCEPT !.step = "broker", !.password = files'[leader][job.user]]
    /\ Same /\ UNCHANGED <<settings, migrated, broker, served>>

\* create_user leaves an existing user alone; then the client is told.
create_user ==
    /\ ~Idle /\ job.step = "broker"
    /\ broker' = [broker EXCEPT ![job.user] = IF @ = None THEN job.password ELSE @]
    /\ served' = [served EXCEPT ![job.user] = job.password]
    /\ job' = None
    /\ Same /\ UNCHANGED <<files, settings, migrated, passwords>>

-----------------------------------------------------------------------------
Change == changes < MaxChanges /\ changes' = changes + 1

\* The hook fails between two of its steps and starts anew.
HookFails ==
    /\ ~Idle /\ Change
    /\ job' = None
    /\ UNCHANGED <<related, leader, files, bag, settings, migrated, broker, served,
                   passwords, excused>>

\* list-service-usernames reads, and so moves, everything.
list_service_usernames ==
    /\ Idle /\ related
    /\ MigrateAll
    /\ Same /\ UNCHANGED <<files, broker, served, job, passwords>>

\* What is in a file is not replaced.
rotate_service_user_password(n) ==
    /\ n \in get_usernames_for_passwords /\ broker[n] # None /\ Change /\ Generate
    /\ broker' = [broker EXCEPT ![n] = passwords']
    /\ served' = [served EXCEPT ![n] = passwords']
    /\ settings' = [k \in Users |-> IF k = n THEN passwords'
                                    ELSE IF related THEN leader_get(k) ELSE settings[k]]
    /\ migrated' = migrated \cup {k \in Users : related /\ bag[leader][k] # None}
    /\ excused' = IF files[leader][n] # None THEN excused \cup {n} ELSE excused
    /\ UNCHANGED <<related, leader, files, bag, job>>

\* The action, as a whole; for another user it fails and changes nothing.
RotateAction == Idle /\ \E n \in Users : rotate_service_user_password(n)

PeersRelate ==
    /\ Idle /\ ~related /\ related' = TRUE
    /\ UNCHANGED <<leader, files, bag, settings, migrated, broker, served, job, passwords,
                   changes, excused>>

\* Leadership moves away from a unit, with the passwords still in its files.
Elect(u) ==
    /\ Idle /\ related /\ u # leader /\ Change
    /\ leader' = u
    /\ excused' = excused \cup get_usernames_for_passwords_on_disk
    /\ UNCHANGED <<related, files, bag, settings, migrated, broker, served, job, passwords>>

Next ==
    \/ \E n \in Users : amqp_changed(n) \/ migrate_store(n)
    \/ RotateAction
    \/ migrate_unlink \/ Moved \/ get_rabbit_password \/ get_rabbit_password_on_disk
    \/ create_user \/ HookFails \/ list_service_usernames \/ PeersRelate
    \/ \E u \in Units : Elect(u)

Spec == Init /\ [][Next]_vars

-----------------------------------------------------------------------------
TypeOK ==
    /\ related \in BOOLEAN /\ leader \in Units
    /\ files \in [Units -> [Users -> Password \cup {None}]]
    /\ bag \in [Units -> [Users -> Password \cup {None}]]
    /\ {settings, broker, served} \subseteq [Users -> Password \cup {None}]
    /\ migrated \subseteq Users /\ excused \subseteq Users
    /\ passwords \in 0..MaxPasswords /\ changes \in 0..MaxChanges

=============================================================================
