---------------------------- MODULE MCFabricTasks ----------------------------
(* A small instance of FabricTasks for TLC. *)
EXTENDS FabricTasks, TLC

Symmetry == Permutations(Actors) \cup Permutations(Tokens) \cup Permutations(Ops)
=============================================================================
