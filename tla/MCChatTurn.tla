----------------------------- MODULE MCChatTurn -----------------------------
(***************************************************************************)
(* Small instances of ChatTurn: the owner olga and a member gus, up to     *)
(* four messages and one Retry.  Each run's cfg says who typed what and    *)
(* what is allowed to happen.                                              *)
(***************************************************************************)
EXTENDS ChatTurn, TLC

CONSTANTS olga, gus, m1, m2, m3, m4, r1

OlgaAndGus == {olga, gus}

\* olga types m1, gus everything else.
GusAnswers == (m1 :> olga) @@ (m2 :> gus) @@ (m3 :> gus) @@ (m4 :> gus)

\* olga types m1 and m2 and presses Retry, gus answers.
OlgaEdits == (m1 :> olga) @@ (m2 :> olga) @@ (m3 :> gus) @@ (m4 :> gus) @@ (r1 :> olga)

\* gus types everything, so the messages are interchangeable but for the steer.
GusAlone == [c \in Calls |-> gus]
AnyOrder == Permutations(Msgs \ Steers)

\* Restricted to the calls of the run.
Only(f) == [c \in Calls |-> f[c]]
GusAnswersHere == Only(GusAnswers)
OlgaEditsHere == Only(OlgaEdits)
=============================================================================
