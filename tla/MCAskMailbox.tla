---------------------------- MODULE MCAskMailbox ----------------------------
(***************************************************************************)
(* Two turns and three cards: two people answer the model's q1, one of     *)
(* them also the agent's q2; the agent's q3 is asked and left.             *)
(***************************************************************************)
EXTENDS AskMailbox, TLC

CONSTANTS t1, t2, q1, q2, q3, a1, a2, a3

Answered == (a1 :> q1) @@ (a2 :> q1) @@ (a3 :> q2)
=============================================================================
