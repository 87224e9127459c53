-------------------------- MODULE MCCoordinatedOps --------------------------
(* Instances of CoordinatedOps for TLC: see the .cfg files. *)
EXTENDS CoordinatedOps

\* The hooks that call check_coordinated_functions.
WiredHooks == {"config-changed", "cluster-relation-changed",
               "leader-settings-changed"}

=============================================================================
