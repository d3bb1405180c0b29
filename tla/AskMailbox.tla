------------------------------ MODULE AskMailbox ------------------------------
(***************************************************************************)
(* The question cards of one conversation: the waiting card and its        *)
(* settlement (src/lib/ask-mailbox.ts), the tools that park a turn on one  *)
(* (src/lib/tools/ask.ts for the model, src/lib/tools/sandbox-task.ts for  *)
(* the Sandbox agent) and the route people answer through                  *)
(* (src/app/api/chat/answer/route.ts).                                     *)
(*                                                                         *)
(* Settling a card resolves a promise; what the tool does with the result  *)
(* (ask_done on the turn's stream) runs as microtasks of the same turn of  *)
(* the event loop and belongs to the step that settles.                    *)
(***************************************************************************)
EXTENDS Naturals

CONSTANTS
  Turns,       \* the turns the conversation may have
  Cards,       \* the questions asked, each with an id of its own
  AgentCards,  \* those the Sandbox agent asks; the model asks the others
  Answers,     \* submissions of the card by people
  CardOf,      \* [Answers -> Cards]
  MaxRuns,     \* agent runs in one turn (its tool rounds are bounded)
  None

ASSUME AskAssumption ==
  /\ AgentCards \subseteq Cards
  /\ CardOf \in [Answers -> Cards]
  /\ MaxRuns \in Nat
  /\ None \notin Turns /\ None \notin Cards /\ None \notin Answers

VARIABLES
  turn,     \* the running turn, or None
  over,     \* the turns that have ended
  aborted,  \* the turns that were stopped
  agent,    \* an agent run is in progress in the running turn
  runs,     \* agent runs the turn has begun
  pending,  \* the entry of the pending map, or None
  status,   \* per card
  asker,    \* per card: the turn that asked it, or None
  stage,    \* per submission: how far the route has got
  rows,     \* the submissions saved as a user message
  heard     \* per card: the submission its tool was given, or None

vars == <<turn, over, aborted, agent, runs, pending, status, asker,
          stage, rows, heard>>

turns == <<turn, over, aborted, agent, runs>>
route == <<stage, rows>>

Init ==
  /\ turn = None /\ over = {} /\ aborted = {} /\ agent = FALSE /\ runs = 0
  /\ pending = None
  /\ status = [c \in Cards |-> "unasked"]
  /\ asker = [c \in Cards |-> None]
  /\ stage = [a \in Answers |-> "typed"]
  /\ rows = {}
  /\ heard = [c \in Cards |-> None]

\* The model is parked on a card of its own (tool calls run one by one).
Parked == \E c \in Cards \ AgentCards : status[c] = "waiting"

\* settle, for every card of S still waiting; the map forgets it.
Settle(S, s) ==
  /\ status' = [c \in Cards |-> IF c \in S /\ status[c] = "waiting" THEN s ELSE status[c]]
  /\ pending' = IF pending \in S THEN None ELSE pending

-----------------------------------------------------------------------------
(* The turn *)

StartTurn(t) ==
  /\ turn = None /\ t \notin over
  /\ turn' = t /\ runs' = 0
  /\ UNCHANGED <<over, aborted, agent, pending, status, asker, route, heard>>

AgentBegin ==
  /\ turn # None /\ ~agent /\ ~Parked /\ runs < MaxRuns
  /\ agent' = TRUE /\ runs' = runs + 1
  /\ UNCHANGED <<turn, over, aborted, pending, status, asker, route, heard>>

\* The run finishes, fails or hits its wall clock; nothing dismisses a card
\* it was parked on, which an answer may still settle.
AgentEnd ==
  /\ agent
  /\ agent' = FALSE
  /\ UNCHANGED <<turn, over, aborted, runs, pending, status, asker, route, heard>>

\* Who may ask now: the model between agent runs and one card at a time, an
\* agent whenever it runs.
MayAsk(c) ==
  /\ turn # None /\ status[c] = "unasked"
  /\ IF c \in AgentCards THEN agent ELSE ~agent /\ ~Parked

\* Bug: the card that waits is left to wait.
AskOver(c) ==
  /\ MayAsk(c)
  /\ asker' = [asker EXCEPT ![c] = turn]
  /\ \/ turn \in aborted /\ status' = [status EXCEPT ![c] = "dismissed"] /\ pending' = None
     \/ turn \notin aborted /\ status' = [status EXCEPT ![c] = "waiting"] /\ pending' = c
  /\ UNCHANGED <<turns, route, heard>>

\* openAsk: the card that waits is dismissed first; a turn already stopped
\* does not wait.
Ask(c) ==
  /\ MayAsk(c)
  /\ asker' = [asker EXCEPT ![c] = turn]
  /\ LET cleared == [x \in Cards |-> IF x = pending THEN "dismissed" ELSE status[x]] IN
     \/ /\ turn \in aborted
        /\ status' = [cleared EXCEPT ![c] = "dismissed"]
        /\ pending' = None
     \/ /\ turn \notin aborted
        /\ status' = [cleared EXCEPT ![c] = "waiting"]
        /\ pending' = c
  /\ UNCHANGED <<turns, route, heard>>

\* Bug: the timer forgets the card and leaves its promise.
ExpireUnsettled(c) ==
  /\ status[c] = "waiting"
  /\ pending' = IF pending = c THEN None ELSE pending
  /\ UNCHANGED <<turns, status, asker, route, heard>>

\* The card's own timer.
Expire(c) ==
  /\ status[c] = "waiting"
  /\ Settle({c}, "expired")
  /\ UNCHANGED <<turns, asker, route, heard>>

\* Stop, or the hard stop: every card listening to the turn's signal.
Abort ==
  /\ turn \notin aborted \cup {None}
  /\ aborted' = aborted \cup {turn}
  /\ Settle({c \in Cards : asker[c] = turn}, "dismissed")
  /\ UNCHANGED <<turn, over, agent, runs, asker, route, heard>>

\* Bug: the finally closes the interjection mailbox alone.
EndTurnUndismissed ==
  /\ turn # None /\ ~agent /\ ~Parked
  /\ turn' = None /\ over' = over \cup {turn}
  /\ UNCHANGED <<aborted, agent, runs, pending, status, asker, route, heard>>

\* The runner's finally: dismissAsk, then endTurn.
EndTurn ==
  /\ turn # None /\ ~agent /\ ~Parked
  /\ turn' = None /\ over' = over \cup {turn}
  /\ Settle({pending}, "dismissed")
  /\ UNCHANGED <<aborted, agent, runs, asker, route, heard>>

-----------------------------------------------------------------------------
(* POST /api/chat/answer *)

\* peekAsk: a card that is not the waiting one is answered 409, stale.
Peek(a) ==
  /\ stage[a] = "typed" /\ status[CardOf[a]] # "unasked"
  /\ stage' = [stage EXCEPT ![a] = IF pending = CardOf[a] THEN "looked" ELSE "stale"]
  /\ UNCHANGED <<turns, pending, status, asker, rows, heard>>

\* The answer becomes a user row.
Save(a) ==
  /\ stage[a] = "looked"
  /\ stage' = [stage EXCEPT ![a] = "saved"]
  /\ rows' = rows \cup {a}
  /\ UNCHANGED <<turns, pending, status, asker, heard>>

\* Bug: whatever card waits takes the answer.
DeliverToAny(a) ==
  /\ stage[a] = "saved"
  /\ \/ /\ pending # None
        /\ stage' = [stage EXCEPT ![a] = "delivered"]
        /\ heard' = [heard EXCEPT ![pending] = a]
        /\ Settle({pending}, "answered")
     \/ /\ pending = None
        /\ stage' = [stage EXCEPT ![a] = "late"]
        /\ UNCHANGED <<pending, status, heard>>
  /\ UNCHANGED <<turns, asker, rows>>

\* ask_answer is shown, then settleAsk looks again: the first to get here wins.
Deliver(a) ==
  /\ stage[a] = "saved"
  /\ LET c == CardOf[a] IN
     \/ /\ pending = c
        /\ stage' = [stage EXCEPT ![a] = "delivered"]
        /\ heard' = [heard EXCEPT ![c] = a]
        /\ Settle({c}, "answered")
     \/ /\ pending # c
        /\ stage' = [stage EXCEPT ![a] = "late"]
        /\ UNCHANGED <<pending, status, heard>>
  /\ UNCHANGED <<turns, asker, rows>>

-----------------------------------------------------------------------------
Next ==
  \/ \E t \in Turns : StartTurn(t)
  \/ AgentBegin \/ AgentEnd \/ Abort \/ EndTurn
  \/ \E c \in Cards : Ask(c) \/ Expire(c)
  \/ \E a \in Answers : Peek(a) \/ Save(a) \/ Deliver(a)

Spec == Init /\ [][Next]_vars

\* Timers fire, an agent run ends by its own wall clock, a runner with
\* nothing to wait for ends its turn.  People answer only if they like.
FairSpec ==
  /\ Spec
  /\ WF_vars(AgentEnd) /\ WF_vars(EndTurn)
  /\ \A c \in Cards : WF_vars(Expire(c))

-----------------------------------------------------------------------------
Settled == {"answered", "expired", "dismissed"}

\* Every variable has its shape, and no turn runs more agents than its budget.
TypeOK ==
  /\ turn \in Turns \cup {None} /\ over \subseteq Turns /\ aborted \subseteq Turns
  /\ agent \in BOOLEAN /\ runs \in 0..MaxRuns
  /\ pending \in Cards \cup {None}
  /\ status \in [Cards -> {"unasked", "waiting"} \cup Settled]
  /\ asker \in [Cards -> Turns \cup {None}]
  /\ stage \in [Answers -> {"typed", "looked", "saved", "delivered", "late", "stale"}]
  /\ rows \subseteq Answers
  /\ heard \in [Cards -> Answers \cup {None}]

\* At most one card waits, and it is the one an answer can reach: a card
\* that waits outside the map could only time out (openAsk).
OneCardWaits == \A c \in Cards : status[c] = "waiting" <=> pending = c

\* Nothing waits for a turn that has ended or was stopped, so its promise
\* never leaks and a stopped turn winds down at once (dismissAsk, the signal).
NoWaitOutlivesTurn ==
  \A c \in Cards : status[c] = "waiting" => asker[c] = turn /\ turn \notin aborted \cup {None}

\* The reply "ok: true" is the truth: of all who answered a card, in one turn
\* or across turns, exactly the one told so was heard by the tool that asked.
OkMeansHeard ==
  /\ \A a \in Answers : stage[a] = "delivered" <=> heard[CardOf[a]] = a
  /\ \A c \in Cards : status[c] = "answered" <=> heard[c] # None

\* A settled card stays as it was settled, whatever timer, Stop or second
\* answer comes after.
SettledOnce ==
  [][\A c \in Cards : status[c] \in Settled =>
       status'[c] = status[c] /\ heard'[c] = heard[c]]_vars

\* A turn never hangs on its question: it ends although nobody answers.
TurnOutlivesQuestion == \A t \in Turns : turn = t ~> turn # t

\* What the proofs carry from step to step.
AskInv == TypeOK /\ OneCardWaits /\ NoWaitOutlivesTurn /\ OkMeansHeard
=============================================================================
