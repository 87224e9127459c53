--------------------------- MODULE MCClientAccess ---------------------------
(* Instances of ClientAccess for TLC: see the .cfg files. *)
EXTENDS ClientAccess

Ask(n, v, t) == [user |-> n, vhost |-> v, ttl |-> t]

\* Two services with their own users.
TwoUsers == {Ask("nova", "openstack", 0), Ask("heat", "openstack", 1)}

\* One service that changes its mind about the expiry of its queues.
TwoTtls == {Ask("heat", "openstack", 1), Ask("heat", "openstack", 2)}

=============================================================================
