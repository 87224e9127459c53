------------------------------ MODULE Endpoints ------------------------------
(***************************************************************************)
(* The addresses and names of one unit: which address it gives its clients *)
(* under the network options, by which name it asks for a certificate and  *)
(* looks it up again, and which lines it keeps in /etc/hosts.              *)
(*                                                                         *)
(* get_relation_ip and get_hostname are asked again in every hook, and the *)
(* name found last decides whether the unit has a certificate, that is     *)
(* whether it offers TLS at all.  The name server may not answer: the      *)
(* fallback reads /etc/hosts.  Scope: the cluster is complete, the unit    *)
(* has peers and is not paused, restarts are permitted, option ssl is off  *)
(* and certificates come from the relation (module Tls has the rest).      *)
(***************************************************************************)
EXTENDS Naturals, FiniteSets

CONSTANTS
    Networks,   \* [nics, bound, private]: the machine's addresses, each a record
                \* [net, version, scope, iface], the one of the bindings (None: unbound) and
                \* private-address
    Cidrs,      \* the networks that access-network and cluster-network may name
    Ptr,        \* Ptr[a]: the name the name server has for a, None: none
    Peers,
    Self,       \* socket.gethostname()
    MaxChanges,
    None

VARIABLES
    option,     \* [access, cluster, ipv6]: the network options
    net,        \* the one of Networks the machine is in
    hosts,      \* the lines of /etc/hosts: <<address, name>>
    published,  \* published[p]: the cluster address peer p has published, None: not yet
    due,        \* the hooks due
    asked,      \* the request for a certificate: [cn, sans], None: not related
    issued,     \* the request the provider has answered
    conf,       \* rabbitmq.conf has TLS on
    client,     \* [host, tls]: what the clients' relation says
    excused,    \* what was done without the name server: "asked", "rendered" (or the
                \* clients updated since)
    changes

vars == <<option, net, hosts, published, due, asked, issued, conf, client, excused, changes>>

Addresses == UNION {n.nics : n \in Networks}
Options == [access : Cidrs \cup {None}, cluster : Cidrs \cup {None}, ipv6 : BOOLEAN]
Renderers == {"config-changed", "certs-changed", "leader-settings-changed"}

-----------------------------------------------------------------------------
(* Addresses.                                                              *)

get_iface_addr(iface, version) ==
    {a \in net.nics : a.iface = iface /\ a.version = version}
get_iface_from_addr(a) == a.iface

\* A link-local address is in no network.
_get_ipv6_network_from_address(a) == IF a.scope = "link" THEN None ELSE a.net

\* The first address in the network, on any interface, else the fallback.
get_address_in_network(network, fallback) ==
    LET in(a) == IF a.version = 6 THEN _get_ipv6_network_from_address(a) ELSE a.net
        found == {a \in net.nics : in(a) = network}
    IN  IF found = {} THEN fallback ELSE CHOOSE a \in found : TRUE

\* A global IPv6 address that is not temporary, on the interface of the private address
\* and no other; None stands for the exception.
get_ipv6_addr ==
    LET lasting == {a \in get_iface_addr(get_iface_from_addr(net.private), 6) :
                      a.scope = "global"}
    IN  IF lasting = {} THEN None ELSE CHOOSE a \in lasting : TRUE

network_get_primary_address == IF net.bound = None THEN net.private ELSE net.bound

get_relation_ip(cidr_network) ==
    IF option.ipv6 THEN get_ipv6_addr
    ELSE IF cidr_network = None THEN network_get_primary_address
    ELSE get_address_in_network(cidr_network, network_get_primary_address)

access_ip == get_relation_ip(option.access)
cluster_ip == get_relation_ip(option.cluster)

-----------------------------------------------------------------------------
(* Names.                                                                  *)

ns_query(a, answers) == IF answers THEN Ptr[a] ELSE None

\* The name server's answer, else what gethostbyaddr finds in /etc/hosts.
get_hostname(lines, a, answers) ==
    LET local == {line \in lines : line[1] = a}
    IN  IF ns_query(a, answers) # None THEN ns_query(a, answers)
        ELSE IF local = {} THEN None
        ELSE (CHOOSE line \in local : TRUE)[2]

\* Mutant of update_hosts_file: only the lines of the address are taken out.
update_hosts_file_by_address(lines, a, name) ==
    {line \in lines : line[1] # a} \cup {<<a, name>>}

\* The lines of the address and those of the name give way to the new one.
update_hosts_file(lines, a, name) ==
    {line \in lines : line[1] # a /\ line[2] # name} \cup {<<a, name>>}

\* Under its name now, has the unit been given a certificate?
get_relation_cert_data(lines, answers) ==
    LET cn == get_hostname(lines, access_ip, answers)
    IN  issued # None /\ cn # None /\ issued.cn = cn

-----------------------------------------------------------------------------
Init ==
    /\ option = [access |-> None, cluster |-> None, ipv6 |-> FALSE]
    /\ net \in Networks
    /\ hosts = {}
    /\ published = [p \in Peers |-> None]
    /\ due = {"config-changed"}
    /\ asked = None /\ issued = None
    /\ conf = FALSE
    /\ client = [host |-> None, tls |-> FALSE]
    /\ excused = {} /\ changes = 0

\* Every hook ends with the contexts, so with reconfigure_client_ssl.
Ends(hook, answers) ==
    /\ due' = due \ {hook}
    /\ excused' = excused \cup (IF answers THEN {} ELSE {"rendered"})
                          \cup (IF answers \/ hook # "certs-joined" THEN {} ELSE {"asked"})
    /\ UNCHANGED <<option, net, published, issued, changes>>

Rendered(answers) ==
    IF answers THEN excused \ {"rendered"} ELSE excused \cup {"rendered"}

update_clients(tls) == client' = [host |-> access_ip, tls |-> tls]

\* A request for rabbitmq.conf's restart, which ends with update_clients.
Restarts(tls, hook) ==
    due' = (due \ {hook}) \cup IF conf # tls THEN {"restart"} ELSE {}

\* Mutant of certs_joined: the certificate is asked for under the machine's own name.
certs_joined_self(answers) ==
    /\ "certs-joined" \in due /\ access_ip # None
    /\ asked' = [cn |-> Self, sans |-> {access_ip}]
    /\ client' = [client EXCEPT !.tls = get_relation_cert_data(hosts, answers)]
    /\ UNCHANGED <<hosts, conf>>
    /\ Ends("certs-joined", answers)

\* certs_joined, once: nothing asks again when the address or the name changes.
certs_joined(answers) ==
    /\ "certs-joined" \in due /\ access_ip # None
    /\ asked' = [cn |-> get_hostname(hosts, access_ip, answers), sans |-> {access_ip}]
    /\ client' = [client EXCEPT !.tls = get_relation_cert_data(hosts, answers)]
    /\ UNCHANGED <<hosts, conf>>
    /\ Ends("certs-joined", answers)

\* config_changed: the unit's own line, rabbitmq.conf, and through cluster_changed the
\* clients.  The name is asked for after the line is written.
config_changed(answers) ==
    /\ "config-changed" \in due /\ access_ip # None
    /\ hosts' = update_hosts_file(hosts, cluster_ip, Self)
    /\ LET tls == get_relation_cert_data(hosts', answers)
       IN  /\ conf' = tls
           /\ update_clients(tls)
           /\ Restarts(tls, "config-changed")
    /\ excused' = Rendered(answers)
    /\ UNCHANGED <<option, net, published, asked, issued, changes>>

\* certs_changed and leader_settings_changed render rabbitmq.conf too; the second updates
\* the clients, the first leaves that to the restart.
RenderingHook(hook, answers) ==
    /\ hook \in due /\ hook # "config-changed" /\ access_ip # None
    /\ LET tls == get_relation_cert_data(hosts, answers)
       IN  /\ conf' = tls
           /\ IF hook = "certs-changed" THEN client' = [client EXCEPT !.tls = tls]
              ELSE update_clients(tls)
           /\ Restarts(tls, hook)
    /\ excused' = Rendered(answers)
    /\ UNCHANGED <<option, net, hosts, published, asked, issued, changes>>

\* cluster_changed of a peer: its line, and the clients.
cluster_changed(p, answers) ==
    /\ p \in due /\ access_ip # None
    /\ hosts' = update_hosts_file(hosts, published[p], p)
    /\ UNCHANGED <<asked, conf>>
    /\ Ends(p, answers)
    /\ client' = [host |-> access_ip, tls |-> get_relation_cert_data(hosts', answers)]

\* amqp_changed for a client, and the hook that has the restart lock.
ClientHook(hook, answers) ==
    /\ hook \in due /\ hook \in {"amqp-changed", "restart"} /\ access_ip # None
    /\ update_clients(get_relation_cert_data(hosts, answers))
    /\ UNCHANGED <<hosts, asked, conf>>
    /\ Ends(hook, answers)

\* update-status: only the contexts.
update_status(answers) ==
    /\ access_ip # None
    /\ client' = [client EXCEPT !.tls = get_relation_cert_data(hosts, answers)]
    /\ UNCHANGED <<hosts, asked, conf>>
    /\ Ends("update-status", answers)

-----------------------------------------------------------------------------
(* Juju, the operator, the peers and the provider.                         *)

Free(a) == a \notin net.nics /\ \A p \in Peers : published[p] # a

\* The provider answers the request as it stands.
Issue ==
    /\ asked # None /\ issued # asked
    /\ issued' = asked /\ due' = due \cup {"certs-changed"}
    /\ UNCHANGED <<option, net, hosts, published, asked, conf, client, excused, changes>>

Change(hooks) ==
    /\ changes < MaxChanges
    /\ changes' = changes + 1
    /\ due' = due \cup hooks
    /\ UNCHANGED <<hosts, asked, issued, conf, client, excused>>

Relate == asked = None /\ Change({"certs-joined"}) /\ UNCHANGED <<option, net, published>>
ClientAsks == Change({"amqp-changed"}) /\ UNCHANGED <<option, net, published>>
SettingsChange ==
    Change({"leader-settings-changed"}) /\ UNCHANGED <<option, net, published>>

SetOption(o) ==
    /\ o # option
    /\ option' = o
    /\ Change({"config-changed"}) /\ UNCHANGED <<net, published>>

\* The machine is given other addresses: Juju runs config-changed.
Renumber(n) ==
    /\ n # net
    /\ \A p \in Peers : published[p] \notin n.nics
    /\ net' = n
    /\ Change({"config-changed"}) /\ UNCHANGED <<option, published>>

\* A peer's cluster_joined.
PeerPublishes(p, a) ==
    /\ Free(a)
    /\ published' = [published EXCEPT ![p] = a]
    /\ Change({p}) /\ UNCHANGED <<option, net>>

Next ==
    \/ \E answers \in BOOLEAN :
          \/ certs_joined(answers) \/ config_changed(answers) \/ update_status(answers)
          \/ \E hook \in Renderers : RenderingHook(hook, answers)
          \/ \E p \in Peers : cluster_changed(p, answers)
          \/ \E hook \in {"amqp-changed", "restart"} : ClientHook(hook, answers)
    \/ Issue \/ Relate \/ ClientAsks \/ SettingsChange
    \/ \E o \in Options : SetOption(o)
    \/ \E n \in Networks : Renumber(n)
    \/ \E p \in Peers, a \in Addresses : PeerPublishes(p, a)

Spec == Init /\ [][Next]_vars

-----------------------------------------------------------------------------
Requests == [cn : {Self, None} \cup Peers \cup {Ptr[a] : a \in Addresses},
             sans : SUBSET Addresses]

TypeOK ==
    /\ option \in Options /\ net \in Networks
    /\ hosts \subseteq Addresses \X (Peers \cup {Self})
    /\ published \in [Peers -> Addresses \cup {None}]
    /\ due \subseteq Renderers \cup {"certs-joined", "amqp-changed", "restart"} \cup Peers
    /\ {asked, issued} \subseteq Requests \cup {None}
    /\ conf \in BOOLEAN /\ excused \subseteq {"asked", "rendered"}
    /\ client \in [host : Addresses \cup {None}, tls : BOOLEAN]
    /\ changes \in 0..MaxChanges

AtRest == due = {}

\* Whatever addresses moved between this unit and its peers and in whatever order their
\* hooks came: when they have run, /etc/hosts has one line for each that has published an
\* address, with that address, and no other line has it.
HostsResolve ==
    AtRest =>
      /\ {line \in hosts : line[1] = cluster_ip \/ line[2] = Self} = {<<cluster_ip, Self>>}
      /\ \A p \in Peers : published[p] # None =>
            {line \in hosts : line[1] = published[p] \/ line[2] = p} = {<<published[p], p>>}

\* However the options, the addresses and the name server's failures came: when the hooks
\* have run and the last rendering had its names, clients are given the address the
\* options ask for and told of TLS exactly if rabbitmq.conf has it; and it has TLS if the
\* address is the one a certificate was asked for, under the name the server has for it.
EndpointCertified ==
    AtRest /\ "rendered" \notin excused =>
      /\ client.host = access_ip
      /\ client.tls = conf
      /\ conf => issued # None
      /\ option.ipv6 => access_ip.version = 6
      /\ excused = {} /\ issued # None /\ Ptr[access_ip] # None =>
            (conf <=> issued.sans = {access_ip})
\* The two above.
EndpointsHold == HostsResolve /\ EndpointCertified
=============================================================================
