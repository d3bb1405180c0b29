---------------------------- MODULE MCCompaction ----------------------------
(***************************************************************************)
(* Instance of Compaction for TLC: see compaction.cfg for the bounds.      *)
(***************************************************************************)
EXTENDS Compaction

=============================================================================
