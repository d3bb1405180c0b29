------------------------------ MODULE MCIngest ------------------------------
(***************************************************************************)
(* A pool of one file, two threads and one reconciliation.                 *)
(***************************************************************************)
EXTENDS Ingest, TLC

CONSTANTS a, w1, w2, s1

=============================================================================
