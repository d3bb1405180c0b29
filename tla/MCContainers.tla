---------------------------- MODULE MCContainers ----------------------------
(***************************************************************************)
(* Instance of Containers for TLC: see containers.cfg for the bounds.      *)
(***************************************************************************)
EXTENDS Containers, TLC

Symmetry == Permutations(Chats) \cup Permutations(Attaches)

=============================================================================
