-------------------------------- MODULE Tls --------------------------------
(***************************************************************************)
(* TLS on one unit: where its key and certificate come from, how they get  *)
(* to the broker's files and when the clients learn of the authority.      *)
(*                                                                         *)
(* The context RabbitMQSSLContext does more than to compute a context: it  *)
(* writes the files, opens the port and changes the clients' relations.    *)
(* Every hook ends with it (assess_status builds a ConfigRenderer), but    *)
(* only config-changed and certificates-relation-changed also render       *)
(* rabbitmq.conf and ask for a restart if that file has changed.  Files    *)
(* change at once, relation data when the hook succeeds.  The unit is the  *)
(* leader and its clients have asked; a material's name stands for a key,  *)
(* its certificate and the authority that signed it.                       *)
(***************************************************************************)
EXTENDS Naturals, Sequences

CONSTANTS
    MaxChanges,  \* bound on the changes of the options and of the relation
    None

VARIABLES
    option,   \* [ssl, given]: ssl; which of ssl_key, ssl_cert and ssl_ca are set
    rel,      \* the bundle the certificates relation has for this unit, None: none
    due,      \* the hooks due: config-changed, certs-changed, other
    ca,       \* ServiceCA: "none", "dir" (only its directory), "ca", "cert"
    files,    \* [key, cert, ca]: the material in each of the broker's files
    port,     \* the TLS port is open
    conf,     \* the mode in rabbitmq.conf
    lock,     \* a restart is waiting for the coordinator's lock
    deferred, \* a restart has been put off
    client,   \* [ca, port]: what the clients' relation says
    job,      \* the hook that runs: what it saw, its steps to do, what it will set
    excused,  \* material was replaced, or the relation removed, and no restart asked for
    changes

vars == <<option, rel, due, ca, files, port, conf, lock, deferred, client,
          job, excused, changes>>

Bundle(n) == <<"relation", n>>
given_material == <<"option", 0>>
service_material == <<"service", 0>>
NoJob == [hook |-> None, seen |-> None, todo |-> <<>>, asks |-> FALSE, holds |-> FALSE,
          sets |-> None, updates |-> FALSE]

\* [mode, material]: the relation's certificate if there is one, else as the options say.
get_ssl_mode(s) ==
    IF s.rel # None
    THEN [mode |-> IF s.option.ssl = "only" THEN "only" ELSE "on", material |-> s.rel]
    ELSE [mode |-> s.option.ssl,
          material |-> IF s.option.given \in {"all", "noca"} THEN given_material
                       ELSE service_material]
seen == get_ssl_mode(job.seen)
saw == [option |-> option, rel |-> rel]
now == get_ssl_mode(saw)
NoCa(s) == s.rel = None /\ s.option.given = "noca"

Init ==
    /\ option = [ssl |-> "off", given |-> "none"]
    /\ rel = None
    /\ due = {"config-changed"}
    /\ ca = "none"
    /\ files = [key |-> None, cert |-> None, ca |-> None]
    /\ port = FALSE /\ conf = "off"
    /\ lock = FALSE /\ deferred = FALSE
    /\ client = [ca |-> None, port |-> FALSE]
    /\ job = NoJob
    /\ excused = FALSE /\ changes = 0

-----------------------------------------------------------------------------
(* The hooks.                                                              *)

\* ServiceCA.get_service_cert: what is there is not made again, and the directory alone
\* counts as the authority: the certificate can then never be signed.
get_service_cert ==
    CASE ca = "none" -> <<"ca_dir", "ca_key", "sign">>
      [] ca = "dir" -> <<"exit">>
      [] ca = "ca" -> <<"sign">>
      [] ca = "cert" -> <<>>

\* What is not base64 is an exception that nothing catches (only TypeError is).
convert_from_base64(s) == s.rel # None \/ s.option.given # "wrong"

\* The steps of RabbitMQSSLContext.  A key without a certificate ends the hook.
context(s, service) ==
    LET m == get_ssl_mode(s)
    IN  IF m.mode = "off" THEN <<"off">>
        ELSE IF ~convert_from_base64(s) \/ (s.rel = None /\ s.option.given = "half") THEN <<"exit">>
        ELSE (IF m.material = service_material THEN service ELSE <<>>)
             \o <<"write_key", "write_cert", "write_ca", "on">>

Begin(hook, todo) ==
    /\ job = NoJob
    /\ job' = [NoJob EXCEPT !.hook = hook, !.seen = saw, !.todo = todo, !.sets = client]
    /\ UNCHANGED <<option, rel, due, ca, files, port, conf, lock, deferred, client, excused,
                   changes>>

\* certs_changed and config_changed: the context, rabbitmq.conf, and at the end of the
\* hook the context again.
RenderingHook(hook) ==
    /\ hook \in due
    /\ Begin(hook, context(saw, get_service_cert) \o <<"render">> \o context(saw, <<>>))

\* The other hooks, with what they do before the context.
OtherHook(first) == Begin("other", first \o context(saw, get_service_cert))
update_status == OtherHook(<<>>)
amqp_changed == OtherHook(<<"update_clients">>)

\* A hook that has the restart lock: the broker is restarted and the clients are updated;
\* or the restart is put off, and they are not.
manage_restart(permitted) ==
    /\ lock
    /\ OtherHook(<<"locked", IF permitted THEN "update_clients" ELSE "put_off">>)

\* The action restart-services makes up for the restart that was put off.
restart_services == deferred /\ OtherHook(<<"restart">>)

step == Head(job.todo)
Done(j) == [j EXCEPT !.todo = Tail(@)]

ServiceCA ==
    /\ \/ step = "ca_dir" /\ ca' = "dir"
       \/ step = "ca_key" /\ ca' = "ca"
       \/ step = "sign" /\ ca' = "cert"
    /\ job' = Done(job)
    /\ UNCHANGED <<files, port, conf, deferred, excused>>

RestartStep ==
    /\ \/ step = "locked" /\ job' = [Done(job) EXCEPT !.holds = TRUE] /\ UNCHANGED deferred
       \/ step = "put_off" /\ job' = Done(job) /\ deferred' = TRUE
       \/ step = "restart" /\ job' = Done(job) /\ deferred' = FALSE
    /\ UNCHANGED <<ca, files, port, conf, excused>>

Replaces == step = "write_cert" /\ files.cert \notin {None, seen.material}

\* Mutant of enable_ssl: a certificate that is there already is kept.
enable_ssl_once ==
    /\ \/ /\ step = "write_key"
          /\ files' = [files EXCEPT !.key = seen.material]
       \/ /\ step = "write_cert"
          /\ files' = [files EXCEPT !.cert = IF @ = None THEN seen.material ELSE @]
       \/ /\ step = "write_ca"
          /\ files' = [files EXCEPT !.ca = IF NoCa(job.seen) THEN @ ELSE seen.material]
    /\ excused' = (excused \/ Replaces)
    /\ job' = Done(job)
    /\ UNCHANGED <<ca, port, conf, deferred>>

\* enable_ssl writes one file after the other.
enable_ssl ==
    /\ \/ step = "write_key" /\ files' = [files EXCEPT !.key = seen.material]
       \/ step = "write_cert" /\ files' = [files EXCEPT !.cert = seen.material]
       \/ /\ step = "write_ca"
          /\ files' = [files EXCEPT !.ca = IF NoCa(job.seen) THEN @ ELSE seen.material]
    /\ excused' = (excused \/ Replaces)
    /\ job' = Done(job)
    /\ UNCHANGED <<ca, port, conf, deferred>>

\* What configure_client_ssl puts on a relation.
configure_client_ssl(c, s) ==
    LET m == get_ssl_mode(s)
    IN  IF m.mode = "off" THEN c
        ELSE [ca |-> IF NoCa(s) THEN c.ca ELSE m.material, port |-> TRUE]

\* Only to clients that have no authority yet; not at all while a restart is put off.
reconfigure_client_ssl(c, enabled) ==
    IF deferred \/ (enabled /\ c.ca # None) \/ (~enabled /\ c.ca = None) THEN c
    ELSE IF enabled THEN configure_client_ssl(c, job.seen)
    ELSE [ca |-> None, port |-> FALSE]

update_clients ==
    /\ step = "update_clients"
    /\ job' = [Done(job) EXCEPT !.updates = TRUE,
                                !.sets = configure_client_ssl(@, job.seen)]
    /\ UNCHANGED <<ca, files, port, conf, deferred, excused>>

Reconfigure ==
    /\ step \in {"on", "off"}
    /\ port' = (step = "on")
    /\ job' = [Done(job) EXCEPT !.sets = reconfigure_client_ssl(@, step = "on")]
    /\ UNCHANGED <<ca, files, conf, deferred, excused>>

\* write_all; a changed rabbitmq.conf asks for a restart.
write_all ==
    /\ step = "render"
    /\ conf' = seen.mode
    /\ job' = [Done(job) EXCEPT !.asks = @ \/ conf # seen.mode]
    /\ UNCHANGED <<ca, files, port, deferred, excused>>

RunStep ==
    /\ job.todo # <<>>
    /\ ServiceCA \/ RestartStep \/ enable_ssl \/ update_clients \/ Reconfigure \/ write_all
    /\ UNCHANGED <<option, rel, due, lock, client, changes>>

\* The changes on the relations and the request for the lock go with the hook, and Juju
\* runs it again; after an action, the next update-status comes.
HookFails ==
    /\ job.todo # <<>>
    /\ due' = due \cup {job.hook}
    /\ job' = NoJob
    /\ UNCHANGED <<option, rel, ca, files, port, conf, lock, deferred, client, excused,
                   changes>>

HookEnds ==
    /\ job # NoJob /\ job.todo = <<>>
    /\ client' = job.sets
    /\ lock' = (job.asks \/ (lock /\ ~job.holds))
    /\ excused' = IF job.updates /\ job.seen = saw
                  THEN conf # now.mode \/ NoCa(saw) ELSE excused
    /\ due' = due \ (IF job.seen = saw THEN {job.hook, "other"} ELSE {"other"})
    /\ job' = NoJob
    /\ UNCHANGED <<option, rel, ca, files, port, conf, deferred, changes>>

-----------------------------------------------------------------------------
(* The operator and the provider of certificates.                          *)

Options == [ssl : {"off", "on", "only"}, given : {"none", "half", "wrong", "noca", "all"}]

SetOption(o) ==
    /\ changes < MaxChanges /\ o # option
    /\ changes' = changes + 1
    /\ option' = o /\ due' = due \cup {"config-changed"}
    /\ UNCHANGED <<rel, ca, files, port, conf, lock, deferred, client, job, excused>>

\* get_bundle_for_cn finds another bundle for this unit.
IssueBundle ==
    /\ changes < MaxChanges
    /\ changes' = changes + 1
    /\ rel' = Bundle(changes') /\ due' = due \cup {"certs-changed"}
    /\ UNCHANGED <<option, ca, files, port, conf, lock, deferred, client, job, excused>>

\* The relation is removed; the charm has no hook for that.
RemoveRelation ==
    /\ rel # None /\ changes < MaxChanges
    /\ changes' = changes + 1
    /\ rel' = None /\ due' = due \ {"certs-changed"}
    /\ excused' = TRUE
    /\ UNCHANGED <<option, ca, files, port, conf, lock, deferred, client, job>>

Next ==
    \/ \E hook \in {"config-changed", "certs-changed"} : RenderingHook(hook)
    \/ update_status \/ amqp_changed \/ restart_services \/ RunStep \/ HookFails \/ HookEnds
    \/ \E permitted \in BOOLEAN : manage_restart(permitted)
    \/ \E o \in Options : SetOption(o)
    \/ IssueBundle \/ RemoveRelation

Spec == Init /\ [][Next]_vars

-----------------------------------------------------------------------------
Materials == {given_material, service_material, None} \cup {Bundle(n) : n \in 1..MaxChanges}

TypeOK ==
    /\ option \in Options /\ rel \in Materials
    /\ due \subseteq {"config-changed", "certs-changed", "other"}
    /\ ca \in {"none", "dir", "ca", "cert"}
    /\ files \in [key : Materials, cert : Materials, ca : Materials]
    /\ conf \in {"off", "on", "only"}
    /\ client \in [ca : Materials, port : BOOLEAN]
    /\ {port, lock, deferred, excused} \subseteq BOOLEAN
    /\ changes \in 0..MaxChanges

AtRest == job = NoJob /\ due = {} /\ ~lock /\ ~deferred

\* Whatever hooks failed in the middle of the files and in whatever order the option, the
\* relation and the restarts came: when all is done, key and certificate belong together,
\* are the ones asked for, and the clients trust the authority that signed them; and
\* with TLS off they are told of none.  Excused is material replaced with rabbitmq.conf
\* as before, and a certificates relation that was removed: no restart is asked for; so is
\* material that follows one without ssl_ca, which leaves the clients' old authority.
ServedIsTrusted ==
    AtRest /\ ~excused =>
      /\ conf = now.mode
      /\ conf = "off" => ~port /\ client.ca = None
      /\ conf # "off" => /\ port
                         /\ files.key = now.material /\ files.cert = now.material
                         /\ NoCa(saw) \/ client.ca = now.material
=============================================================================
