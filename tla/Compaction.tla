----------------------------- MODULE Compaction -----------------------------
(***************************************************************************)
(* Conversation compaction (lib/compaction.ts, lib/compaction-core.ts and  *)
(* its call in lib/chat-turn.ts) for one chat: a turn that sends, edits or *)
(* retries, the boot sweep, the one compaction that may be in flight, and  *)
(* the stored compactions a turn's history is rebuilt from.                *)
(*                                                                         *)
(* A row is [id, role, size]; ids are in the order of the thread           *)
(* (orderThreadRows).  A summary is the set of row ids it has absorbed.    *)
(***************************************************************************)
EXTENDS Integers, Sequences, FiniteSets, SequencesExt

CONSTANTS
  Sizes,       \* sizes a user's message may have (tokens)
  Trigger,     \* compactAtTokens
  Keep,        \* compactKeepTokens
  SummarySize, \* what a summary pair weighs
  MaxId,       \* bound: rows ever written
  MaxStored    \* bound: compactions ever stored, by this process or another

\* limits.ts clamps the kept tail to half the trigger
ASSUME CompactionAssumption ==
  /\ Sizes \subseteq Nat /\ Sizes # {}
  /\ Trigger \in Nat /\ Keep \in Nat /\ SummarySize \in Nat
  /\ Keep <= Trigger \div 2
  /\ MaxId \in Nat /\ MaxStored \in Nat

VARIABLES
  thread,  \* Seq(row): the chat's user and assistant messages
  nextId,  \* the next row's id
  stored,  \* conversation_compactions, newest last: boundary and rows absorbed;
           \* `raced` (history): planned from one stored after it was decided on
  turn,    \* the request, then the turn: at, kind, rows and what it will replay
  job,     \* the compaction in flight (`inflight`), if any
  sweep    \* the boot sweep at this chat

vars == <<thread, nextId, stored, turn, job, sweep>>

---------------------------------------------------------------------------
(* compaction-core.ts                                                      *)

Ids(rows)     == {rows[i].id : i \in DOMAIN rows}
Tokens(rows)  == FoldLeft(LAMBDA n, r : n + r.size, 0, rows)
From(rows, i) == SubSeq(rows, i, Len(rows))

\* Bug: every row starts a turn.
StartsAnywhere(rows) == DOMAIN rows

\* Indexes where a turn starts: user rows, and the first row in any case.
Starts(rows) == {i \in DOMAIN rows : rows[i].role = "user" \/ i = 1}

\* Index of the first row kept: walking back a turn at a time while the kept
\* tail stays within the budget.
CutAt(rows) ==
  LET fits == {i \in Starts(rows) : Tokens(From(rows, i)) <= Keep}
  IN IF fits = {} THEN Len(rows) + 1 ELSE CHOOSE i \in fits : \A j \in fits : i <= j

\* Bug: the first row to keep is summarised too.
BoundaryOneLate(rows, after) ==
  IF CutAt(rows) = 1 /\ after = 0 THEN 0
  ELSE IF after > 0 /\ CutAt(rows) - 1 <= after THEN Len(rows)
  ELSE IF CutAt(rows) > Len(rows) THEN Len(rows) ELSE CutAt(rows)

\* Index of the last row to summarise, 0 for nothing to do; `after` is the
\* previous boundary's (0 for none).
Boundary(rows, after) ==
  IF CutAt(rows) = 1 /\ after = 0 THEN 0
  ELSE IF after > 0 /\ CutAt(rows) - 1 <= after THEN Len(rows)
  ELSE CutAt(rows) - 1

---------------------------------------------------------------------------
(* compaction.ts                                                           *)

None == [index |-> 0, absorbed |-> {}, raced |-> FALSE]

\* Bug: a compaction whose boundary row is gone is still used.
LoadedUnchecked(rows) ==
  IF stored = <<>> THEN None
  ELSE [index    |-> Cardinality({i \in DOMAIN rows : rows[i].id <= Last(stored).boundary}),
        absorbed |-> Last(stored).absorbed,
        raced    |-> Last(stored).raced]

\* The newest compaction, if its boundary row is among the rows.
Loaded(rows) ==
  IF stored = <<>> \/ Last(stored).boundary \notin Ids(rows) THEN None
  ELSE [index    |-> CHOOSE i \in DOMAIN rows : rows[i].id = Last(stored).boundary,
        absorbed |-> Last(stored).absorbed,
        raced    |-> Last(stored).raced]

\* compactedHistory: the summary pair, then the rows after the boundary.
History(rows, c) ==
  [absorbed |-> c.absorbed, kept |-> From(rows, c.index + 1), raced |-> c.raced]
Weight(h)        == (IF h.absorbed = {} THEN 0 ELSE SummarySize) + Tokens(h.kept)
Replayed(rows)   == Weight(History(rows, Loaded(rows)))

\* `looked` (history): how many were stored when it looked for a rival.
NoJob == [at |-> "none", rows |-> <<>>, from |-> 0, prev |-> None, upTo |-> 0, raced |-> FALSE,
          looked |-> 0]
Idle  == [at |-> "idle", kind |-> "send", rows |-> <<>>, history |-> History(<<>>, None),
          late |-> FALSE, failed |-> FALSE,
          joined |-> FALSE, lent |-> FALSE]

Init ==
  /\ thread = <<>> /\ nextId = 1
  /\ stored = <<>>
  /\ turn = Idle
  /\ job = NoJob
  /\ sweep = [at |-> "due", rows |-> <<>>]

---------------------------------------------------------------------------
(* A request: startChatTurn up to the registration of its turn.            *)

\* Bug: the row is written before its content is known.
RowEmpty(role, size) == [id |-> nextId, role |-> role, size |-> 0]

Row(role, size) == [id |-> nextId, role |-> role, size |-> size]

\* Retry drops the replies at the end and answers the last question again.
TrailingReplies ==
  {i \in DOMAIN thread : \A j \in i..Len(thread) : thread[j].role = "assistant"}

\* Load the thread, and for an edit or a retry delete what it replaces.
Load(kind, rows) ==
  /\ turn.at = "idle"
  /\ thread' = rows
  /\ turn' = [Idle EXCEPT !.at = "loaded", !.kind = kind, !.rows = rows]
  /\ UNCHANGED <<nextId, stored, job, sweep>>

Send == nextId < MaxId /\ Load("send", thread)

Edit == \E cut \in DOMAIN thread :
  thread[cut].role = "user" /\ nextId < MaxId /\ Load("edit", SubSeq(thread, 1, cut - 1))

Retry == /\ nextId <= MaxId
         /\ LET rows == SubSeq(thread, 1, Len(thread) - Cardinality(TrailingReplies))
            IN rows # <<>> /\ Load("retry", rows)

\* The history is mapped, the new message written and the turn registered.
Register(size) ==
  /\ turn.at = "loaded"
  /\ IF turn.kind = "retry"
     THEN UNCHANGED <<thread, nextId>>
     ELSE thread' = Append(thread, Row("user", size)) /\ nextId' = nextId + 1
  /\ turn' = [turn EXCEPT !.at = "active", !.history = History(turn.rows, Loaded(turn.rows))]
  /\ UNCHANGED <<stored, job, sweep>>

---------------------------------------------------------------------------
(* compactConversation, called by a turn or by the sweep.                  *)

Active == turn.at \notin {"idle", "loaded"}

\* One compaction per chat at a time: a second caller waits for the first.
Begin(rows) ==
  IF job.at = "none"
  THEN job' = [NoJob EXCEPT !.at = "plan", !.rows = rows, !.from = Len(stored)]
  ELSE UNCHANGED job

\* Bug: the trigger is compared with what comes after the previous summary.
CheckLeavesSummaryOut ==
  /\ turn.at = "active"
  /\ IF Tokens(turn.rows) >= Trigger /\ Loaded(turn.rows) = None
     THEN /\ Begin(turn.rows)
          /\ turn' = [turn EXCEPT !.at = "waiting",
                                  !.joined = job.at # "none" /\ job.rows # turn.rows,
                                  !.lent = job.at # "none" /\ ~IsPrefix(job.rows, turn.rows)]
     ELSE /\ turn' = [turn EXCEPT !.at = "ready",
                        !.late = turn.history # History(turn.rows, Loaded(turn.rows))]
          /\ UNCHANGED job
  /\ UNCHANGED <<thread, nextId, stored, sweep>>

\* The trigger is asked of the rows the turn loaded, with the compaction that
\* is stored NOW; below it the history mapped at Register goes out.
CheckTrigger ==
  /\ turn.at = "active"
  /\ IF turn.rows # <<>> /\ Replayed(turn.rows) >= Trigger
     THEN /\ Begin(turn.rows)
          /\ turn' = [turn EXCEPT !.at = "waiting",
                                  !.joined = job.at # "none" /\ job.rows # turn.rows,
                                  !.lent = job.at # "none" /\ ~IsPrefix(job.rows, turn.rows)]
     ELSE /\ turn' = [turn EXCEPT !.at = "ready",
                        !.late = turn.history # History(turn.rows, Loaded(turn.rows))]
          /\ UNCHANGED job
  /\ UNCHANGED <<thread, nextId, stored, sweep>>

\* Bug: only the caller that started the compaction is answered.
SettleStarterOnly(result) ==
  /\ job' = NoJob
  /\ IF turn.at = "waiting" /\ job.rows = turn.rows
     THEN turn' = [turn EXCEPT !.at = "ready",
                     !.history = IF result = None THEN @ ELSE History(turn.rows, result),
                     !.failed = result = None]
     ELSE UNCHANGED turn
  /\ sweep' = IF sweep.at = "waiting" THEN [sweep EXCEPT !.at = "done"] ELSE sweep

\* What every caller gets when the compaction settles: its result, with the
\* boundary as an index into the rows of whoever STARTED it.
Settle(result) ==
  /\ job' = NoJob
  /\ IF turn.at = "waiting"
     THEN turn' = [turn EXCEPT !.at = "ready",
                     !.history = IF result = None THEN @ ELSE History(turn.rows, result),
                     !.failed = result = None]
     ELSE UNCHANGED turn
  /\ sweep' = IF sweep.at = "waiting" THEN [sweep EXCEPT !.at = "done"] ELSE sweep

\* doCompact plans from the newest compaction and the rows it was given.
Plan ==
  /\ job.at = "plan"
  /\ LET prev == Loaded(job.rows)
         upTo == Boundary(job.rows, prev.index)
     IN IF upTo <= prev.index
        THEN Settle(None)
        ELSE /\ job' = [job EXCEPT !.at = "summarise", !.prev = prev, !.upTo = upTo,
                                !.raced = prev.raced \/ Len(stored) > job.from]
             /\ UNCHANGED <<turn, sweep>>
  /\ UNCHANGED <<thread, nextId, stored>>

\* The summariser fails, or is not configured: logged, and nothing stored.
Fail ==
  /\ job.at = "summarise"
  /\ Settle(None)
  /\ UNCHANGED <<thread, nextId, stored>>

\* Bug: the rows are summarised from one too late.
AbsorbsLate(rows, prev, upTo) == prev.absorbed \cup Ids(SubSeq(rows, prev.index + 2, upTo))

Absorbs(rows, prev, upTo) == prev.absorbed \cup Ids(SubSeq(rows, prev.index + 1, upTo))

\* Bug: a rival is not looked for.
NeverSuperseded(rows) == FALSE

\* A rival stored since we started that covers as much makes ours redundant.
Superseded(rows) == Len(stored) > job.from /\ Loaded(rows).index >= job.upTo

\* Bound: an insert that has been decided on keeps its place.
Room == Len(stored) + (IF job.at = "insert" THEN 1 ELSE 0) < MaxStored

\* The look for a rival: its answer is awaited, and so is the insert after it.
LookForRival ==
  /\ job.at = "summarise"
  /\ IF Superseded(job.rows)
     THEN Settle(Loaded(job.rows))
     ELSE /\ Room
          /\ job' = [job EXCEPT !.at = "insert", !.looked = Len(stored)]
          /\ UNCHANGED <<turn, sweep>>
  /\ UNCHANGED <<thread, nextId, stored>>

\* Whatever was stored since the look, the summary becomes the newest one.
Insert ==
  /\ job.at = "insert"
  /\ LET sum == Absorbs(job.rows, job.prev, job.upTo)
     IN /\ stored' = Append(stored, [boundary |-> job.rows[job.upTo].id, absorbed |-> sum,
                                     raced |-> job.raced])
        /\ Settle([index |-> job.upTo, absorbed |-> sum, raced |-> job.raced])
  /\ UNCHANGED <<thread, nextId>>

\* Another process compacts the chat (compaction.ts:238-242).
Rival ==
  /\ Room
  /\ LET prev == Loaded(thread)
         upTo == Boundary(thread, prev.index)
     IN /\ Replayed(thread) >= Trigger /\ upTo > prev.index
        /\ stored' = Append(stored, [boundary |-> thread[upTo].id,
                                     absorbed |-> Absorbs(thread, prev, upTo),
                                     raced |-> prev.raced])
  /\ UNCHANGED <<thread, nextId, turn, job, sweep>>

---------------------------------------------------------------------------
(* The reply                                                               *)

\* The prompt is `history`, then the new message, if there is one, unweighed.
Prompt ==
  /\ turn.at = "ready"
  /\ turn' = [turn EXCEPT !.at = "replying"]
  /\ UNCHANGED <<thread, nextId, stored, job, sweep>>

EndTurn ==
  /\ turn.at = "replying"
  /\ \/ /\ nextId <= MaxId
        /\ thread' = Append(thread, Row("assistant", 1)) /\ nextId' = nextId + 1
     \/ UNCHANGED <<thread, nextId>>
  /\ turn' = Idle
  /\ UNCHANGED <<stored, job, sweep>>

---------------------------------------------------------------------------
(* sweepOversizedConversations at this chat: passed over while a turn is   *)
(* active; its rows are read later, and compacted later still.             *)

SweepRead ==
  /\ sweep.at = "due" /\ ~Active
  /\ sweep' = [at |-> "read", rows |-> thread]
  /\ UNCHANGED <<thread, nextId, stored, turn, job>>

SweepCompact ==
  /\ sweep.at = "read"
  /\ IF sweep.rows # <<>> /\ Replayed(sweep.rows) >= Trigger
     THEN sweep' = [at |-> "waiting", rows |-> <<>>] /\ Begin(sweep.rows)
     ELSE sweep' = [at |-> "done", rows |-> <<>>] /\ UNCHANGED job
  /\ UNCHANGED <<thread, nextId, stored, turn>>

---------------------------------------------------------------------------
Next ==
  \/ Send \/ Edit \/ Retry \/ \E size \in Sizes : Register(size)
  \/ CheckTrigger \/ Plan \/ Fail \/ LookForRival \/ Insert \/ Rival
  \/ Prompt \/ EndTurn
  \/ SweepRead \/ SweepCompact

Spec == Init /\ [][Next]_vars

\* Awaits settle; a summariser call answers or fails.
Fairness == WF_vars(Plan) /\ WF_vars(Fail \/ LookForRival \/ Insert)

FairSpec == Spec /\ Fairness

---------------------------------------------------------------------------
(* Properties.                                                             *)

Prompted == turn.at = "replying"
RowIds   == 1..MaxId

\* The types of the rows, of the stored compactions and of the phases.
TypeOK ==
  /\ \A rows \in {thread, turn.rows, job.rows, sweep.rows, turn.history.kept} :
       \A i \in DOMAIN rows :
         /\ rows[i].id \in RowIds /\ rows[i].role \in {"user", "assistant"}
         /\ rows[i].size \in Sizes \cup {1}
  /\ nextId \in 1..(MaxId + 1)
  /\ Len(stored) <= MaxStored
  /\ \A i \in DOMAIN stored : stored[i].boundary \in RowIds /\ stored[i].absorbed \subseteq RowIds
  /\ turn.at \in {"idle", "loaded", "active", "waiting", "ready", "replying"}
  /\ turn.kind \in {"send", "edit", "retry"} /\ turn.history.absorbed \subseteq RowIds
  /\ job.at \in {"none", "plan", "summarise", "insert"} /\ job.raced \in BOOLEAN
  /\ sweep.at \in {"due", "read", "waiting", "done"}

\* Every message of the thread a turn loaded reaches the model, verbatim or
\* in the summary: nothing falls between the summary and the kept tail --
\* unless the turn waited for a compaction begun from other rows.
NothingLost ==
  Prompted /\ ~turn.lent =>
    Ids(turn.rows) \subseteq turn.history.absorbed \cup Ids(turn.history.kept)

\* What an edit or a retry deleted does not come back in a summary, however
\* the compactions and the deletions interleaved (same exception).
NothingDeletedReturns ==
  Prompted /\ ~turn.lent => turn.history.absorbed \subseteq Ids(turn.rows)

\* The row a kept reply answers: the one before the first kept row.
Cut(rows, kept) == rows[(CHOOSE i \in DOMAIN rows : rows[i] = Head(kept)) - 1]

\* No row is sent both summarised and verbatim, and a reply is kept without
\* its question only when that question alone outweighs the kept tail (or the
\* summary was planned from a compaction stored after it was decided on).
WholeTurns ==
  Prompted /\ ~turn.lent =>
    /\ turn.history.absorbed \cap Ids(turn.history.kept) = {}
    /\ (/\ turn.history.kept # <<>> /\ turn.history.absorbed # {}
        /\ Head(turn.history.kept).role = "assistant" /\ ~turn.history.raced)
         => LET q == Cut(turn.rows, turn.history.kept)
            IN q.role = "user" /\ q.size > Keep

\* What the model is sent is the thread: each of its rows once, verbatim or in
\* the summary, a turn at a time, and nothing else.
PromptIsThread == TypeOK /\ NothingLost /\ NothingDeletedReturns /\ WholeTurns

\* A retried question is the last thing the model reads -- unless it alone is
\* larger than the kept tail, or the summary in use was planned from a
\* compaction stored after it was decided on: then it is summarised away.
RetryAsks ==
  Prompted /\ turn.kind = "retry" /\ ~turn.lent /\ ~turn.history.raced =>
    \/ turn.history.kept # <<>> /\ Last(turn.history.kept) = Last(turn.rows)
    \/ Last(turn.rows).size > Keep

\* The history a reply is sent is under the trigger (the new message comes on
\* top of it, uncounted: chat-turn.ts:578 asks the trigger of the rows loaded
\* before it) -- unless summarising failed, the turn waited for a compaction of
\* other rows than its own, or another compaction was stored after the turn had
\* mapped its history.
HistoryUnderTrigger ==
  Prompted /\ ~turn.failed /\ ~turn.joined /\ ~turn.late => Weight(turn.history) < Trigger

\* A compaction never covers less than the newest one it FOUND when it looked
\* for a rival, if it knows the row that one reached (compaction.ts:238-247).
\* A rival stored between the look and the insert may reach further all the
\* same: that the boundary then retreats loses nothing (PromptIsThread).
BoundaryAdvances ==
  [][(/\ job.at = "insert" /\ job' = NoJob /\ job.looked > 0
      /\ stored[job.looked].boundary \in Ids(job.rows))
       => stored[job.looked].boundary <= Last(stored').boundary]_vars

\* A turn that waits for a summary is never left waiting.
TurnIsNotHeldUp == turn.at = "waiting" ~> turn.at # "waiting"

=============================================================================
