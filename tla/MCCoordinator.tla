--------------------------- MODULE MCCoordinator ---------------------------
(* Instances of Coordinator for TLC: see the .cfg files. *)
EXTENDS Coordinator

=============================================================================
