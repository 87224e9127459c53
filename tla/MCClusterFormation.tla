------------------------- MODULE MCClusterFormation -------------------------
(* Instances of ClusterFormation for TLC: see the .cfg files. *)
EXTENDS ClusterFormation, TLC

\* No unit differs from another before one is elected.
Symmetry == Permutations(Units)

=============================================================================
