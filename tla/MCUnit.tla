------------------------------- MODULE MCUnit -------------------------------
(***************************************************************************)
(* Model checking of the parts of a unit that do not meet in one state:    *)
(* one run explores each of them from its own initial states.  "part" says *)
(* which, and v1, v2, ... stand for that part's variables, in the order of *)
(* its vars; what a part does not use stays None.                          *)
(***************************************************************************)
EXTENDS Naturals, Sequences, TLC

CONSTANTS None, u1, u2, u3, Units, Rels, Admins, VhostNames, Own, Apps, MaxVersion,
          MaxTime, Services, SavedOptions, MaxValue, MaxWrites, Hardens, Disturbed,
          MaxFaults, Ubuntu, CMD_RETRY_COUNT, Queues, MaxCount, MaxAge, Probes, Messages, MaxRuns,
          MaxChanges, MaxMoves, Modes, Multipliers, MAX_DEFAULT_THREADS, MAX_NUM_THREADS,
          DEFAULT_MULTIPLIER, Users, MaxPasswords, MaxEdits, MaxCookies, MaxSteps

VARIABLES part, v1, v2, v3, v4, v5, v6, v7, v8, v9, v10, v11, v12, v13, v14

vars == <<part, v1, v2, v3, v4, v5, v6, v7, v8, v9, v10, v11, v12, v13, v14>>

\* Options, requests, yaml files, sources and checks, each with what the properties tell
\* apart; every number bounds its counter.
Option(mirroring, nttl, management) ==
    [mirroring |-> mirroring, nttl |-> nttl, management |-> management]
BConfs == {Option(TRUE, 1, TRUE), Option(FALSE, 1, TRUE), Option(TRUE, 2, TRUE),
           Option(FALSE, 1, FALSE)}
BRequests == [vhost : {"openstack"}, ttl : {0, 1}] \cup [vhost : {"other"}, ttl : {1}]

Yamls == {<<>>, "retries" :> FALSE, "module_loading" :> FALSE,
          ("client.weak_hmac" :> TRUE) @@ ("server.weak_hmac" :> TRUE)}

Source(form, rel, os) == [form |-> form, rel |-> rel, os |-> os]
Srcs == {Source("distro", None, None), Source("cloud-pair", "jammy", "caracal"),
         Source("bare", None, "yoga"), Source("bare-proposed", None, "bobcat"),
         Source("repository", None, None), Source("unknown", None, None)}

Limit(pattern, warn, crit) == [pattern |-> pattern, warn |-> warn, crit |-> crit]
Checks == [ssl |-> "on", limits |-> <<Limit("*", 1, 3)>>, wrong |-> FALSE, exclude |-> {},
           busiest |-> 0, cron |-> 1, mgmt |-> TRUE, vhosts |-> {"v"}]
MConfs == {Checks, [Checks EXCEPT !.vhosts = {}, !.ssl = ""],
           [Checks EXCEPT !.cron = 0, !.mgmt = FALSE, !.ssl = "only", !.wrong = TRUE],
           [Checks EXCEPT !.limits = <<Limit("*", 1, 2), Limit("q1", 1, 1)>>,
                          !.exclude = {"q2"}, !.ssl = "off"],
           [Checks EXCEPT !.limits = <<Limit("q1", 1, 2), Limit("*", 1, 2)>>,
                          !.cron = 2, !.busiest = 1]}

\* A machine with one network, one with a second and IPv6, and one that has moved.
Addr(n, v, s, i) == [net |-> n, version |-> v, scope |-> s, iface |-> i]
V4 == Addr("a", 4, "global", "eth0")
V4Moved == Addr("b", 4, "global", "eth1")
V6Link == Addr("c", 6, "link", "eth1")
V6Temporary == Addr("c", 6, "temporary", "eth1")
V6 == Addr("c", 6, "global", "eth1")
ENetworks ==
    {[nics |-> {V4, V6Link, V6}, bound |-> None, private |-> V4],
     [nics |-> {V4, V4Moved, V6Link, V6Temporary, V6}, bound |-> V4, private |-> V4Moved],
     [nics |-> {V4Moved, V6Temporary}, bound |-> V4Moved, private |-> V4Moved]}
DnsNames == [a \in {V4, V4Moved, V6Link, V6Temporary, V6} |->
             IF a = V4 THEN "rabbit.example" ELSE None]

CMachines == {[cpus |-> 1, container |-> FALSE, long |-> FALSE],
              [cpus |-> 4, container |-> TRUE, long |-> TRUE]}

OHooks == {"config-changed", "cluster-relation-changed", "leader-settings-changed",
           "certificates-relation-changed", "other"}
OActions == {"pause", "resume", "restart-services", "run-deferred-hooks"}
OOptions == {"content", "source", "enable-auto-restarts"}

-----------------------------------------------------------------------------
\* Policies, users and plugins of the broker, on two units.
B == INSTANCE BrokerAdmin WITH
    Vhosts <- VhostNames, Confs <- BConfs, Requests <- BRequests, leader <- v1,
    conf <- v2, ask <- v3, due <- v4, broker <- v5, plugin <- v6, tracker <- v7, hook <- v8, changes <- v9,
    excused <- v10
\* Deferred restarts and hooks, with another application on the machine.
D == INSTANCE DeferredEvents WITH
    Services <- {Own}, now <- v1, conf <- v2, due <- v3, saved <- v4, applied <- v5,
    policy <- v6, events <- v7, started <- v8, hooks <- v9, pending <- v10,
    asked <- v11, excused <- v12, bundled <- v13
\* Pause, resume, series upgrade and the status shown.
U == INSTANCE UnitStatus WITH
    running <- v1, enabled <- v2, masked <- v3, paused <- v4, upgrading <- v5,
    series <- v6, cluster <- v7, requested <- v8, shown <- v9, job <- v10
\* What a process saves.
S == INSTANCE UnitStore WITH
    Options <- SavedOptions, proc <- v1, conf <- v2, file <- v3, cur <- v4, prev <- v5,
    db <- v6, view <- v7, revision <- v8, sent <- v9, own <- v10, cached <- v11, writes <- v12, base <- v13,
    raised <- v14
\* OS and ssh hardening.
H == INSTANCE Hardening WITH
    Overrides <- Yamls, MaxFaults <- MaxEdits, harden <- v1, installed <- v2, version <- v3, settings <- v4,
    disk <- v5, bad <- v6, kv <- v7, serving <- v8, run <- v9, faults <- v10,
    excused <- v11, unloaded <- v12
\* Package source, installation and upgrade.
P == INSTANCE Packages WITH
    Sources <- Srcs, option <- v1, due <- v2, prev <- v3, lists <- v4, keys <- v5,
    indexes <- v6, pkgs <- v7, deferred <- v8, locked <- v9, job <- v10,
    changes <- v11, absorbed <- v12
\* Keys, certificates and authorities.
T == INSTANCE Tls WITH
    option <- v1, rel <- v2, due <- v3, ca <- v4, files <- v5, port <- v6, conf <- v7,
    lock <- v8, deferred <- v9, client <- v10, job <- v11, excused <- v12,
    changes <- v13
\* Nagios checks and their statistics.
M == INSTANCE Monitoring WITH
    Confs <- MConfs, conf <- v1, due <- v2, nagios <- v3, plugins <- v4,
    cronfile <- v5, nrped <- v6, loaded <- v7, monitors <- v8, access <- v9,
    job <- v10, managed <- v11, stats <- v12, age <- v13, changes <- v14
\* The two checks of a virtual host that send test messages.
A == INSTANCE AmqpProbe WITH
    exchange <- v1, bound <- v2, queue <- v3, pc <- v4, seen <- v5, sent <- v6,
    inbox <- v7, got <- v8, run <- v9, verdict <- v10, shared <- v11
\* Addresses, names and the lines of /etc/hosts.
E == INSTANCE Endpoints WITH
    Networks <- ENetworks, Cidrs <- {"b"}, Ptr <- DnsNames, Peers <- {"peer"},
    Self <- "self", MaxChanges <- MaxMoves, option <- v1, net <- v2, hosts <- v3,
    published <- v4, due <- v5, asked <- v6, issued <- v7, conf <- v8, client <- v9,
    excused <- v10, changes <- v11
\* Partition handling, node name and threads in the broker's configuration files.
C == INSTANCE BrokerConfig WITH
    Machines <- CMachines, machine <- v1, ha <- v2, option <- v3, enough <- v4,
    leader <- v5, setting <- v6, paused <- v7, due <- v8, conf <- v9, env <- v10,
    excused <- v11, changes <- v12
\* Nodes that leave a cluster, and brokers that start again.
L == INSTANCE ClusterAdmin WITH
    Nodes <- Units \cup {u3}, First <- u3, units <- v1,
    members <- v2, state <- v3, later <- v4, clustered <- v5, partitioned <- v6,
    hook <- v7, shown <- v8, abandoned <- v9, outage <- v10, faults <- v11
\* Where passwords are kept.
W == INSTANCE Passwords WITH
    MaxChanges <- MaxMoves, related <- v1, leader <- v2, files <- v3, bag <- v4,
    settings <- v5, migrated <- v6, broker <- v7, served <- v8, job <- v9,
    passwords <- v10, changes <- v11, excused <- v12
\* The Erlang cookie through series upgrades.
K == INSTANCE Cookies WITH
    leader <- v1, stored <- v2, bag <- v3, file <- v4, loaded <- v5, stage <- v6,
    due <- v7, permitted <- v8, cookies <- v9, changes <- v10
\* The report of queues without a consumer.
Q == INSTANCE QueueReports WITH
    Vhosts <- {"v", "w"}, Names <- {"q", "a b"}, Spaced <- {"a b"}, json <- v1, up <- v2,
    vhosts <- v3, queues <- v4, consumed <- v5, todo <- v6, result <- v7, reported <- v8,
    count <- v9, always <- v10, once <- v11, changes <- v12
\* Restarts and upgrades on one unit: every hook, action and option, hooks that fail.
O == INSTANCE CoordinatedOps WITH
    Units <- {u3}, HookKinds <- OHooks, Actions <- OActions, Options <- OOptions,
    HooksFail <- TRUE, leader <- v1, conf <- v2, due <- v3, node <- v4, waiting <- v5,
    owner <- v6, hook <- v7
\* The Prometheus exporter, the management plugin and the file the broker reads.
R == INSTANCE Exporter WITH
    Rels <- Units, MaxChanges <- MaxSteps, pkg <- v1, json <- v2, plugins <- v3,
    files <- v4, ports <- v5, told <- v6, made <- v7, management <- v8, due <- v9,
    retry <- v10, job <- v11, version <- v12, excused <- v13, changes <- v14
\* hacluster and its virtual address.
V == INSTANCE Hacluster WITH
    Vips <- {"10.0.0.100", "10.0.0.200", None}, Ports <- {5404, 5406}, option <- v1,
    peer <- v2, sent <- v3, scriptrc <- v4, client <- v5, due <- v6, retry <- v7,
    job <- v8, stale <- v9, changes <- v10

\* Two units form a cluster; hooks fail and are run again, other hooks come in between.
F == INSTANCE ClusterFormation WITH
    MinSize <- 2, Handover <- "member", Removable <- "but leader_node",
    Unprompted <- {"upgrade-charm", "other"}, HooksFail <- TRUE, leader <- v1,
    members <- v2, gone <- v3, settings <- v4, bag <- v5, waiting <- v6, grant <- v7,
    due <- v8, cookie <- v9, db <- v10, app <- v11, hook <- v12

From14 == v14 = None
From13 == v13 = None /\ From14
From12 == v12 = None /\ From13
From11 == v11 = None /\ From12
From8 == v8 = None /\ v9 = None /\ v10 = None /\ From11

Init ==
    \/ part = "broker" /\ B!Init /\ From11
    \/ part = "deferral" /\ D!Init /\ From14
    \/ part = "status" /\ U!Init /\ From11
    \/ part = "store" /\ S!Init
    \/ part = "hardening" /\ H!Init /\ From13
    \/ part = "packages" /\ P!Init /\ From13
    \/ part = "tls" /\ T!Init /\ From14
    \/ part = "monitoring" /\ M!Init
    \/ part = "probe" /\ A!Init /\ From12
    \/ part = "endpoints" /\ E!Init /\ From12
    \/ part = "config" /\ C!Init /\ From13
    \/ part = "nodes" /\ L!Init /\ From12
    \/ part = "passwords" /\ W!Init /\ From13
    \/ part = "cookies" /\ K!Init /\ From11
    \/ part = "queues" /\ Q!Init /\ From13
    \/ part = "ops" /\ O!Init /\ From8
    \/ part = "exporter" /\ R!Init
    \/ part = "hacluster" /\ V!Init /\ From11
    \/ part = "cluster" /\ F!Init /\ From13

Next ==
    /\ UNCHANGED part
    /\ \/ part = "broker" /\ B!Next /\ UNCHANGED <<v11, v12, v13, v14>>
       \/ part = "deferral" /\ D!Next /\ UNCHANGED <<v14>>
       \/ part = "status" /\ U!Next /\ UNCHANGED <<v11, v12, v13, v14>>
       \/ part = "store" /\ S!Next
       \/ part = "hardening" /\ H!Next /\ UNCHANGED <<v13, v14>>
       \/ part = "packages" /\ P!Next /\ UNCHANGED <<v13, v14>>
       \/ part = "tls" /\ T!Next /\ UNCHANGED <<v14>>
       \/ part = "monitoring" /\ M!Next
       \/ part = "probe" /\ A!Next /\ UNCHANGED <<v12, v13, v14>>
       \/ part = "endpoints" /\ E!Next /\ UNCHANGED <<v12, v13, v14>>
       \/ part = "config" /\ C!Next /\ UNCHANGED <<v13, v14>>
       \/ part = "nodes" /\ L!Next /\ UNCHANGED <<v12, v13, v14>>
       \/ part = "passwords" /\ W!Next /\ UNCHANGED <<v13, v14>>
       \/ part = "cookies" /\ K!Next /\ UNCHANGED <<v11, v12, v13, v14>>
       \/ part = "queues" /\ Q!Next /\ UNCHANGED <<v13, v14>>
       \/ part = "ops" /\ O!Next /\ UNCHANGED <<v8, v9, v10, v11, v12, v13, v14>>
       \/ part = "exporter" /\ R!Next
       \/ part = "hacluster" /\ V!Next /\ UNCHANGED <<v11, v12, v13, v14>>
       \/ part = "cluster" /\ F!Next /\ UNCHANGED <<v13, v14>>

Spec == Init /\ [][Next]_vars
Symmetry == Permutations(Units)

-----------------------------------------------------------------------------
\* The type invariant of every part.
TypeOK ==
    /\ part = "broker" => B!TypeOK
    /\ part = "deferral" => D!TypeOK
    /\ part = "status" => U!TypeOK
    /\ part = "store" => S!TypeOK
    /\ part = "hardening" => H!TypeOK
    /\ part = "packages" => P!TypeOK
    /\ part = "tls" => T!TypeOK
    /\ part = "monitoring" => M!TypeOK
    /\ part = "probe" => A!TypeOK
    /\ part = "endpoints" => E!TypeOK
    /\ part = "config" => C!TypeOK
    /\ part = "nodes" => L!TypeOK
    /\ part = "passwords" => W!TypeOK
    /\ part = "cookies" => K!TypeOK
    /\ part = "queues" => Q!TypeOK
    /\ part = "ops" => O!TypeOK
    /\ part = "exporter" => R!TypeOK
    /\ part = "hacluster" => V!TypeOK
    /\ part = "cluster" => F!TypeOK

\* A relation that configure_amqp's tracker records has its vhost, user, tags and
\* permissions, whichever calls failed and whoever was the leader; when the hooks have run,
\* the policies are those the options ask for.
BrokerApplied == part = "broker" => B!RecordedIsApplied /\ B!OptionsApplied


\* A change of an option is reported until a hook has come to its end with it; a process
\* reads what it has set; what a HookData block wrote before an exception is never on disk.
StoreHolds == part = "store" => S!ChangeReported /\ S!WritesHold


\* When no hook or upgrade is due, the broker's version is one the source asks for.
SourceHonoured == part = "packages" => P!SourceHonoured

\* When all hooks have run, the clients trust the certificate the broker has.
ServedIsTrusted == part = "tls" => T!ServedIsTrusted



\* A check of a virtual host that says it has received its messages has received them.
OkMeansDelivered == part = "probe" => A!OkMeansDelivered

\* /etc/hosts and the clients have the addresses the unit has, TLS is on exactly under the
\* name a certificate was asked for, and the virtual address clients are told is managed.
EndpointsHold ==
    /\ part = "endpoints" => E!EndpointsHold
    /\ part = "hacluster" => V!VipIsManaged /\ V!ScriptsKnowPort




\* When the hooks have run, every broker runs with the stored cookie.
CookieShared == part = "cookies" => K!CookieShared

\* The exporter serves the relations that know its port, and what depends on the broker's
\* version fits the one installed.
ExporterHolds == part = "exporter" => R!ExporterHolds


\* A unit shows "active" only if its services run in a complete cluster, and a pause that
\* leaves a service running does not show the unit as paused.
StatusHonest ==
    [][part = "status" => U!ShowsActiveHonestly /\ U!PausesHonestly]_vars

\* With automatic restarts off, no hook restarts the broker.
RestartsStayOff == [][part = "ops" => O!RestartsAsTold]_vars
=============================================================================
