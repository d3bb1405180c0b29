---------------------------- MODULE TurnDeadline ----------------------------
(***************************************************************************)
(* The hard stop of a running turn (src/lib/turn-stream.ts) and the        *)
(* Sandbox agent's tool call that stretches it and snaps it back           *)
(* (src/lib/tools/sandbox-task.ts).  Deadlines are epoch times in the code *)
(* and the minutes left until them here: Tick takes one off each, and a    *)
(* time that has passed is 0, which is all Math.max(ms, remaining) sees    *)
(* of it.  Agent calls of a turn run one after the other.                  *)
(***************************************************************************)
EXTENDS Integers

CONSTANTS
  TurnBudget,    \* what startChatTurn arms: 15 minutes
  AfterAgent,    \* AFTER_AGENT_TURN_MS
  AgentBudgets,  \* what an agent call may ask for: maxMinutes and two more
  MaxCalls       \* agent calls in one turn (its tool rounds are bounded)

ASSUME DeadlineAssumption ==
  /\ TurnBudget \in Nat /\ AfterAgent \in Nat
  /\ AgentBudgets \subseteq Nat
  /\ MaxCalls \in Nat

VARIABLES
  running,  \* the turn is registered and has not ended
  timer,    \* its hardStop timer is pending
  left,     \* until deadlineAt
  base,     \* until baseDeadlineAt, or Unset
  aborted,  \* the AbortController fired
  agent,    \* an agent call is in progress
  calls,    \* agent calls begun
  \* history, read by properties alone
  owed,     \* what is left of the budget the current agent call asked for
  budget    \* what is left of the budget the turn was armed with, 0 once an agent
            \* call has needed no stretch

stopVars == <<running, timer, left, base, aborted, agent, calls, owed, budget>>

Unset == -1

Bigger(a, b) == IF a >= b THEN a ELSE b
Less(t) == IF t > 0 THEN t - 1 ELSE t

StopInit ==
  /\ running = FALSE /\ timer = FALSE /\ aborted = FALSE /\ agent = FALSE
  /\ left = 0 /\ base = Unset /\ calls = 0 /\ owed = 0 /\ budget = 0

Arm(ms) == left' = ms /\ timer' = TRUE

\* startTurn makes a fresh entry and startChatTurn arms it.
Start ==
  /\ ~running
  /\ running' = TRUE /\ aborted' = FALSE
  /\ base' = Unset /\ calls' = 0
  /\ budget' = TurnBudget
  /\ Arm(TurnBudget)
  /\ UNCHANGED <<agent, owed>>

\* Bug: the stretch is added to what the turn still has.
ExtendOnTop(ms) ==
  /\ base' = IF base = Unset THEN left ELSE base
  /\ Arm(left + ms)

\* Bug: a turn that has been stretched once is not stretched again.
ExtendOnce(ms) ==
  \/ calls > 0 /\ UNCHANGED <<left, base, timer>>
  \/ calls = 0 /\ base' = left /\ Arm(ms)

\* Bug: the old timer is cleared and no new one set.
ExtendUnarmed(ms) ==
  \/ left >= ms /\ UNCHANGED <<left, base, timer>>
  \/ left < ms /\ left' = ms /\ timer' = FALSE /\ UNCHANGED base

\* extendTurnHardStop: never shortens, and remembers the deadline it replaces.
Extend(ms) ==
  \/ left >= ms /\ UNCHANGED <<left, base, timer>>
  \/ /\ left < ms
     /\ base' = IF base = Unset THEN left ELSE base
     /\ Arm(ms)

\* Bug: what the stretch remembered is forgotten.
ResetShort(ms) == Arm(ms) /\ base' = Unset

\* resetTurnHardStop: ms, or what the remembered deadline still holds.
Reset(ms) ==
  /\ Arm(Bigger(ms, IF base = Unset THEN 0 ELSE base))
  /\ base' = Unset

AgentBegin(ms) ==
  /\ running /\ ~agent /\ calls < MaxCalls
  /\ agent' = TRUE /\ calls' = calls + 1
  /\ owed' = ms
  /\ budget' = IF left >= ms THEN 0 ELSE budget
  /\ Extend(ms)
  /\ UNCHANGED <<running, aborted>>

\* The finally of executeSandboxTask.
AgentEnd ==
  /\ running /\ agent
  /\ agent' = FALSE /\ owed' = 0
  /\ Reset(AfterAgent)
  /\ UNCHANGED <<running, aborted, calls, budget>>

\* The timer fires; its callback aborts the turn.
Fire ==
  /\ timer /\ left = 0
  /\ timer' = FALSE /\ aborted' = TRUE
  /\ UNCHANGED <<running, left, base, agent, calls, owed, budget>>

\* The runner is done: its tools have returned; clearTurnHardStop.
EndTurn ==
  /\ running /\ ~agent
  /\ running' = FALSE /\ timer' = FALSE /\ left' = 0
  /\ UNCHANGED <<base, aborted, agent, calls, owed, budget>>

\* A minute passes; a timer that is due fires first.
Tick ==
  /\ ~(timer /\ left = 0)
  /\ left' = Less(left) /\ base' = Less(base)
  /\ owed' = Less(owed) /\ budget' = Less(budget)
  /\ UNCHANGED <<running, timer, aborted, agent, calls>>

StopNext ==
  \/ Start \/ AgentEnd \/ Fire \/ EndTurn \/ Tick
  \/ \E ms \in AgentBudgets : AgentBegin(ms)

StopSpec == StopInit /\ [][StopNext]_stopVars

\* Time passes and timers fire; a provider, a tool or an agent may hang.
FairSpec == StopSpec /\ WF_stopVars(Tick) /\ WF_stopVars(Fire)

-----------------------------------------------------------------------------
FlagsOK ==
  /\ running \in BOOLEAN /\ timer \in BOOLEAN
  /\ aborted \in BOOLEAN /\ agent \in BOOLEAN
  /\ agent => running

MinutesOK ==
  /\ left \in Nat /\ base \in Nat \cup {Unset} /\ calls \in 0..MaxCalls
  /\ owed \in Nat /\ budget \in Nat

\* Every variable has its shape, and no agent call outlives its turn.
StopTypeOK == FlagsOK /\ MinutesOK

\* The turn stretches to the agent's own budget while an agent is active: the
\* hard stop never cuts an agent call short of what it asked for
\* (extendTurnHardStop).
AgentRunGetsBudget == agent => left >= owed

\* A turn that has not been aborted always has a timer that will abort it,
\* through every stretch and snap-back (armTurnHardStop).
AlwaysArmed == running /\ ~aborted => timer

\* Stretches do not add up: the hard stop is never further away than the
\* longest single budget, and neither is the deadline it remembers.
Longest == {TurnBudget, AfterAgent} \cup AgentBudgets
Bounded(t) == \E m \in Longest : t <= m
StretchIsBounded == Bounded(left) /\ Bounded(base)

\* What the proofs carry from step to step.
DeadlineInv == StopTypeOK /\ AgentRunGetsBudget /\ AlwaysArmed /\ StretchIsBounded

\* A turn whose provider or agent hangs is aborted, so the conversation is
\* not "active" forever (armTurnHardStop).
HungTurnIsStopped == running ~> (aborted \/ ~running)

\* turn-stream.ts:179-180, the snap-back is "never shorter than either" of
\* ms and what is left of "the turn's ORIGINAL budget": outside an agent call
\* the turn has at least what is left of the budget it was armed with, through
\* any number of calls that stretched it (extendTurnHardStop remembers nothing
\* of a call that needed no stretch, and then it may have less).
SnapBackKeepsBudget == running /\ ~agent => left >= budget
=============================================================================
