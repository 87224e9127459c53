---------------------------- MODULE BrokerConfig ----------------------------
(***************************************************************************)
(* What the broker's configuration files say, apart from TLS: how it       *)
(* handles partitions (rabbitmq.conf), its node name and its threads       *)
(* (rabbitmq-env.conf).                                                    *)
(*                                                                         *)
(* The handling of partitions is "ignore" while the cluster is installed.  *)
(* Once there are enough peers the leader puts the option into the leader  *)
(* settings, and every unit renders what it finds there: some hooks later, *)
(* unless it is paused.  Scope: the cookie is in the leader settings,      *)
(* restarts are permitted (config-changed then runs on a paused unit too), *)
(* the hacluster relation is made from the start or never.                 *)
(***************************************************************************)
EXTENDS Integers

CONSTANTS
    Units,
    Modes,        \* values of cluster-partition-handling
    Multipliers,  \* of erl-vm-io-thread-multiplier, in quarters; None: not set
    Machines,     \* [cpus, container, long: the host's name is a qualified one]
    MAX_DEFAULT_THREADS, MAX_NUM_THREADS, DEFAULT_MULTIPLIER,
    MaxChanges,   \* bound on changes of options, elections, pauses and failures
    None

VARIABLES
    machine,   \* machine[u]
    ha,        \* the hacluster relation is made
    option,    \* [mode, vip_only, multiplier]
    enough,    \* enough peers have presented themselves
    leader,
    setting,   \* cluster-partition-handling in the leader settings
    paused,
    due,       \* due[u]: the hooks due
    conf,      \* conf[u]: the mode in u's rabbitmq.conf
    env,       \* env[u]: [nodename, threads, longname] in u's rabbitmq-env.conf
    excused,   \* "mode": the leader has passed over the option; u: u has not rendered
    changes

vars == <<machine, ha, option, enough, leader, setting, paused, due, conf, env, excused,
          changes>>

CLUSTER_MODE_FOR_INSTALL == "ignore"
LegacyHa == ha /\ ~option.vip_only

-----------------------------------------------------------------------------
(* The contexts.                                                           *)

Least(a, b) == IF a < b THEN a ELSE b


\* A multiplier of zero counts as not set, except to the limit of containers.
calculate_threads(u) ==
    LET multiplier == IF option.multiplier \in {None, 0} THEN 4 * DEFAULT_MULTIPLIER
                      ELSE option.multiplier
        count == (machine[u].cpus * multiplier) \div 4
        least == IF count = 0 THEN 1 ELSE count
    IN  Least(MAX_NUM_THREADS,
              IF option.multiplier = None /\ machine[u].container
              THEN Least(MAX_DEFAULT_THREADS, least) ELSE least)

use_long_node_name(u) == machine[u].long


\* RabbitMQEnvContext: a node name that is in the file stays.
RabbitMQEnvContext(u) ==
    [nodename |-> IF env[u].nodename # None THEN env[u].nodename
                  ELSE IF LegacyHa THEN "localhost" ELSE None,
     threads |-> calculate_threads(u), longname |-> use_long_node_name(u)]

RabbitMQClusterContext(mode) == IF mode = None THEN CLUSTER_MODE_FOR_INSTALL ELSE mode

\* The file of u is replaced by the context's rendering; one that would be the same stays.
write_file(files, u, content) ==
    IF files[u] = content THEN files ELSE [files EXCEPT ![u] = content]
render(files, u, context) == write_file(files, u, context)

\* ConfigRenderer.write_all on u, with the mode the leader settings have by then: both
\* contexts are complete before the first file is written.
write_all(u, mode) ==
    /\ conf' = render(conf, u, RabbitMQClusterContext(mode))
    /\ env' = render(env, u, RabbitMQEnvContext(u))

\* leader_set on u: a change of the leader settings is an event of the others.
Informed(u, mode) ==
    [v \in Units |-> IF v # u /\ mode # setting
                     THEN due[v] \cup {"leader-settings-changed"} ELSE due[v]]

\* The leader's part of cluster_changed, from which it returns early with legacy HA, on a
\* paused unit and without enough peers.
Reached(u) == ~LegacyHa /\ ~paused[u] /\ enough
SetMode(u) == IF u = leader /\ Reached(u) THEN option.mode ELSE setting

\* What the excuses are after a hook of u that leaves the mode in the leader settings.
Excuses(u, mode, rendered, over) ==
    LET made_up == (IF rendered THEN {u} ELSE {})
                   \cup (IF mode = option.mode THEN {"mode"} ELSE {})
    IN  (excused \ made_up) \cup (IF over THEN {"mode"} ELSE {})

-----------------------------------------------------------------------------
Init ==
    /\ machine \in [Units -> Machines]
    /\ ha \in BOOLEAN
    /\ option = [mode |-> CLUSTER_MODE_FOR_INSTALL, vip_only |-> FALSE, multiplier |-> None]
    /\ enough = FALSE
    /\ leader \in Units
    /\ setting = None
    /\ paused = [u \in Units |-> FALSE]
    /\ due = [u \in Units |-> {"install"}]
    /\ conf = [u \in Units |-> None]
    /\ env = [u \in Units |-> [nodename |-> None, threads |-> 0, longname |-> FALSE]]
    /\ excused = {} /\ changes = 0

Same == UNCHANGED <<machine, ha, option, enough, leader, paused, changes>>
Idle(u) == "install" \notin due[u]

\* install; config-changed follows it.  A host with a long name renders here already.
install(u) ==
    /\ "install" \in due[u]
    /\ LET mode == IF u = leader /\ setting = None THEN CLUSTER_MODE_FOR_INSTALL ELSE setting
       IN  /\ setting' = mode
           /\ due' = [Informed(u, mode) EXCEPT ![u] = (@ \ {"install"}) \cup {"config-changed"}]
           /\ IF use_long_node_name(u) THEN write_all(u, mode) ELSE UNCHANGED <<conf, env>>
    /\ Same /\ UNCHANGED excused

\* Mutant of config_changed: it ends with what configure_rabbit_install rendered.
config_changed_once(u) ==
    /\ "config-changed" \in due[u]
    /\ LET mode == SetMode(u)
       IN  /\ setting' = mode
           /\ write_all(u, setting)
           /\ due' = [Informed(u, mode) EXCEPT ![u] = @ \ {"config-changed"}]
           /\ excused' = Excuses(u, mode, TRUE, u = leader /\ ~Reached(u))
    /\ Same

\* config_changed: renders in any case, and again when cluster_changed sets the mode.
config_changed(u) ==
    /\ "config-changed" \in due[u]
    /\ LET mode == SetMode(u)
       IN  /\ setting' = mode
           /\ write_all(u, mode)
           /\ due' = [Informed(u, mode) EXCEPT ![u] = @ \ {"config-changed"}]
           /\ excused' = Excuses(u, mode, TRUE, u = leader /\ ~Reached(u))
    /\ Same

\* cluster_changed for an event of a peer: it renders only with a new mode.
cluster_changed(u) ==
    /\ "cluster-changed" \in due[u] /\ Idle(u)
    /\ LET mode == SetMode(u)
       IN  /\ setting' = mode
           /\ IF mode # setting THEN write_all(u, mode) ELSE UNCHANGED <<conf, env>>
           /\ due' = [Informed(u, mode) EXCEPT ![u] = @ \ {"cluster-changed"}]
           /\ excused' = Excuses(u, mode, mode # setting, u = leader /\ ~Reached(u))
    /\ Same

\* It fails between leader-set and the rendering; when it is run again the mode is no news.
cluster_changed_fails(u) ==
    /\ "cluster-changed" \in due[u] /\ Idle(u)
    /\ SetMode(u) # setting /\ changes < MaxChanges
    /\ setting' = SetMode(u)
    /\ due' = Informed(u, setting')
    /\ excused' = Excuses(u, setting', FALSE, FALSE) \cup {u}
    /\ changes' = changes + 1
    /\ UNCHANGED <<machine, ha, option, enough, leader, paused, conf, env>>

\* leader_settings_changed; a paused unit only takes notice.
leader_settings_changed(u) ==
    /\ "leader-settings-changed" \in due[u] /\ Idle(u)
    /\ due' = [due EXCEPT ![u] = @ \ {"leader-settings-changed"}]
    /\ IF paused[u]
       THEN excused' = excused \cup {u} /\ UNCHANGED <<conf, env>>
       ELSE write_all(u, setting) /\ excused' = excused \ {u}
    /\ Same /\ UNCHANGED setting

\* certs_changed renders too.
certs_changed(u) ==
    /\ Idle(u) /\ "config-changed" \notin due[u]
    /\ write_all(u, setting) /\ excused' = excused \ {u}
    /\ Same /\ UNCHANGED <<setting, due>>

-----------------------------------------------------------------------------
Change == changes < MaxChanges /\ changes' = changes + 1
Unset == UNCHANGED <<machine, ha, setting, conf, env>>

PeersJoin ==
    /\ ~enough /\ enough' = TRUE
    /\ due' = [u \in Units |-> due[u] \cup {"cluster-changed"}]
    /\ Unset /\ UNCHANGED <<option, leader, paused, excused, changes>>

SetOption(o) ==
    /\ o # option /\ Change
    /\ option' = o
    /\ due' = [u \in Units |-> IF Idle(u) THEN due[u] \cup {"config-changed"} ELSE due[u]]
    /\ Unset /\ UNCHANGED <<enough, leader, paused, excused>>

\* leader_elected does nothing: an option that the old leader has not put into the settings
\* waits for another event.
Elect(u) ==
    /\ u # leader /\ Change
    /\ leader' = u
    /\ excused' = IF setting = option.mode THEN excused ELSE excused \cup {"mode"}
    /\ Unset /\ UNCHANGED <<option, enough, paused, due>>

\* pause and resume; resuming renders nothing.
Pause(u) ==
    /\ Idle(u) /\ Change
    /\ paused' = [paused EXCEPT ![u] = ~@]
    /\ Unset /\ UNCHANGED <<option, enough, leader, due, excused>>

Options == [mode : Modes, vip_only : BOOLEAN, multiplier : Multipliers]

Next ==
    \/ \E u \in Units :
          \/ install(u) \/ config_changed(u) \/ cluster_changed(u)
          \/ cluster_changed_fails(u) \/ leader_settings_changed(u) \/ certs_changed(u)
          \/ Elect(u) \/ Pause(u)
    \/ PeersJoin
    \/ \E o \in Options : SetOption(o)

Spec == Init /\ [][Next]_vars

-----------------------------------------------------------------------------
Hooks == {"install", "config-changed", "cluster-changed", "leader-settings-changed"}

TypeOK ==
    /\ option \in Options /\ leader \in Units
    /\ setting \in Modes \cup {None}
    /\ due \in [Units -> SUBSET Hooks]
    /\ conf \in [Units -> Modes \cup {None}]
    /\ env \in [Units -> [nodename : {None, "localhost"}, threads : 0..MAX_NUM_THREADS,
                          longname : BOOLEAN]]
    /\ paused \in [Units -> BOOLEAN] /\ {ha, enough} \subseteq BOOLEAN
    /\ excused \subseteq Units \cup {"mode"}
    /\ changes \in 0..MaxChanges

\* When all hooks have run and there are enough peers, every unit's broker is told to
\* handle partitions as the option says, whoever was the leader when it changed.  Excused
\* are a leader that passed over the option (paused, replaced, legacy HA, too few peers)
\* and a unit that was paused, or failed, when it should have rendered.
ModeReached ==
    (\A u \in Units : due[u] = {}) /\ enough /\ "mode" \notin excused =>
        \A u \in Units \ excused : conf[u] = option.mode

\* A broker that starts with the file starts a number of threads that Erlang accepts, and
\* a moderate one in a container whose operator said nothing.
ThreadsAccepted ==
    \A u \in Units :
      conf[u] # None =>
        /\ env[u].threads \in 1..MAX_NUM_THREADS
        /\ due[u] = {} /\ option.multiplier = None /\ machine[u].container =>
              env[u].threads <= MAX_DEFAULT_THREADS


\* A unit's node name, once it is in its file, is never changed: the cluster knows the
\* node by it.
NodenameStays ==
    \A u \in Units : env[u].nodename # None => env'[u].nodename = env[u].nodename
=============================================================================
