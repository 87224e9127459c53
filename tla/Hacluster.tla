----------------------------- MODULE Hacluster -----------------------------
(***************************************************************************)
(* The relation to hacluster: what the charm gives it, and what the        *)
(* clients are told of the virtual address it manages.                     *)
(*                                                                         *)
(* One unit, the leader, whose broker is ready.  Juju's relation settings  *)
(* change when a hook ends well, the script's environment file at once; a  *)
(* hook that fails is run again first, with the options of that moment.    *)
(***************************************************************************)
EXTENDS Naturals

CONSTANTS
    Vips,        \* values of vip, and None for not set
    Ports,       \* values of ha-mcastport
    MaxChanges,  \* bound on changes of options and on failures
    None

VARIABLES
    option,    \* [vip, only, port]: vip, ha-vip-only, ha-mcastport
    peer,      \* hacluster: "absent", "made" or "clustered"
    sent,      \* the settings hacluster has of this unit, None before
    scriptrc,  \* OPENSTACK_PORT_MCASTPORT in scripts/scriptrc, None before
    client,    \* what the client relation has: [clustered, vip, only], None before
    due, retry,
    job,       \* the running hook, with the settings it will publish
    stale,     \* an option has changed since hacluster was told
    changes

vars == <<option, peer, sent, scriptrc, client, due, retry, job, stale, changes>>

Hooks == {"ha-relation-joined", "ha-relation-changed", "amqp-relation-changed"}
idle == [hook |-> None, settings |-> None]

is_clustered == peer = "clustered"
is_relation_made == peer # "absent"

Init ==
    /\ option \in [vip : Vips, only : BOOLEAN, port : Ports]
    /\ peer = "absent"
    /\ sent = None /\ scriptrc = None /\ client = None
    /\ due = {} /\ retry = None
    /\ job = idle
    /\ stale = FALSE
    /\ changes = 0

Change == changes < MaxChanges /\ changes' = changes + 1

\* The file is rewritten at once, whatever becomes of the hook.
save_script_rc(port) == scriptrc' = port

Start(hook, settings) ==
    /\ job = idle
    /\ IF retry = None THEN hook \in due ELSE hook = retry
    /\ due' = IF retry = None THEN due \ {hook} ELSE due
    /\ retry' = None
    /\ job' = [hook |-> hook, settings |-> settings]

\* Mutant of ha_joined: it goes on without an address for hacluster to manage.
ha_joined_unchecked ==
    /\ Start("ha-relation-joined",
             [vip |-> option.vip, only |-> option.only, port |-> option.port,
              resources |-> IF option.only THEN {"vip"} ELSE {"vip", "rabbitmq-server"}])
    /\ save_script_rc(option.port)
    /\ UNCHANGED <<option, peer, sent, client, stale, changes>>

\* Only with ha-vip-only the address has to be set.  rabbitmq-env.conf, which it renders
\* too, is as everywhere.
ha_joined ==
    /\ ~(option.only /\ option.vip = None)
    /\ Start("ha-relation-joined",
             [vip |-> option.vip, only |-> option.only, port |-> option.port,
              resources |-> IF option.only THEN {"vip"} ELSE {"vip", "rabbitmq-server"}])
    /\ save_script_rc(option.port)
    /\ UNCHANGED <<option, peer, sent, client, stale, changes>>

\* It exits with 1 and nothing is sent.
ha_joined_refuses ==
    /\ option.only /\ option.vip = None
    /\ job = idle
    /\ \/ retry = None /\ "ha-relation-joined" \in due
       \/ retry = "ha-relation-joined"
    /\ due' = due \ {"ha-relation-joined"}
    /\ retry' = "ha-relation-joined"
    /\ UNCHANGED <<option, peer, sent, scriptrc, client, job, stale, changes>>

\* It logs that the clients are told of the address, and tells nobody.
ha_changed ==
    /\ Start("ha-relation-changed", None)
    /\ UNCHANGED <<option, peer, sent, scriptrc, client, stale, changes>>

\* Mutant of amqp_changed: the address is given as soon as there is a relation.
amqp_changed_early ==
    /\ Start("amqp-relation-changed",
             [clustered |-> is_relation_made,
              vip |-> IF is_relation_made THEN option.vip ELSE None,
              only |-> is_relation_made /\ option.only])
    /\ UNCHANGED <<option, peer, sent, scriptrc, client, stale, changes>>

amqp_changed ==
    /\ Start("amqp-relation-changed",
             [clustered |-> is_clustered,
              vip |-> IF is_clustered /\ is_relation_made THEN option.vip ELSE None,
              only |-> is_clustered /\ is_relation_made /\ option.only])
    /\ UNCHANGED <<option, peer, sent, scriptrc, client, stale, changes>>

HookEnd ==
    /\ job # idle
    /\ sent' = IF job.hook = "ha-relation-joined" THEN job.settings ELSE sent
    /\ stale' = IF job.hook = "ha-relation-joined"
                THEN job.settings.vip # option.vip \/ job.settings.only # option.only
                ELSE stale
    /\ client' = IF job.hook = "amqp-relation-changed" THEN job.settings ELSE client
    /\ job' = idle
    /\ UNCHANGED <<option, peer, scriptrc, due, retry, changes>>

HookFails ==
    /\ job # idle /\ Change
    /\ retry' = job.hook
    /\ job' = idle
    /\ UNCHANGED <<option, peer, sent, scriptrc, client, due, stale>>

\* config-changed comes to update_clients, which is amqp_changed for every client.
SetOption(o) ==
    /\ Change /\ o # option
    /\ option' = o
    /\ due' = due \cup {"amqp-relation-changed"}
    /\ stale' = (stale \/ (sent # None /\ (o.vip # option.vip \/ o.only # option.only)))
    /\ UNCHANGED <<peer, sent, scriptrc, client, retry, job>>

Relate ==
    /\ peer = "absent"
    /\ peer' = "made" /\ due' = due \cup {"ha-relation-joined"}
    /\ UNCHANGED <<option, sent, scriptrc, client, retry, job, stale, changes>>

\* hacluster has what it needs and forms its cluster.
Clustered ==
    /\ peer = "made" /\ sent # None
    /\ peer' = "clustered" /\ due' = due \cup {"ha-relation-changed"}
    /\ UNCHANGED <<option, sent, scriptrc, client, retry, job, stale, changes>>

\* A client joins or changes its request.
ClientAsks ==
    /\ due' = due \cup {"amqp-relation-changed"}
    /\ due' # due
    /\ UNCHANGED <<option, peer, sent, scriptrc, client, retry, job, stale, changes>>

Next ==
    \/ ha_joined \/ ha_joined_refuses \/ ha_changed \/ amqp_changed
    \/ HookEnd \/ HookFails
    \/ \E o \in [vip : Vips, only : BOOLEAN, port : Ports] : SetOption(o)
    \/ Relate \/ Clustered \/ ClientAsks

Spec == Init /\ [][Next]_vars

-----------------------------------------------------------------------------
TypeOK ==
    /\ option \in [vip : Vips, only : BOOLEAN, port : Ports]
    /\ peer \in {"absent", "made", "clustered"}
    /\ scriptrc \in Ports \cup {None}
    /\ due \subseteq Hooks /\ retry \in Hooks \cup {None}
    /\ stale \in BOOLEAN

\* A client is told of an address only once hacluster manages that address, through
\* failures of the hooks and changes of the options before it was told; with ha-vip-only
\* there is one.  Excused: the options have changed since hacluster was told.
VipIsManaged ==
    /\ (sent # None /\ sent.only) => sent.vip # None
    /\ (client # None /\ client.clustered)
       => /\ is_clustered
          /\ job = idle /\ due = {} /\ retry = None /\ ~stale
             => client.vip = sent.vip /\ client.only = sent.only

\* The scripts outside of hooks know the port hacluster was told, unless the hook that
\* tells it is running or has failed.
ScriptsKnowPort ==
    sent # None /\ job.hook # "ha-relation-joined" /\ retry # "ha-relation-joined"
        => scriptrc = sent.port
=============================================================================
