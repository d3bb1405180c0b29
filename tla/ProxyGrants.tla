----------------------------- MODULE ProxyGrants -----------------------------
(***************************************************************************)
(* The organisation's key lent to Sandbox runs: the per-run bearer a run   *)
(* mints (lib/agent/proxy-tokens.ts, lib/tools/sandbox-task.ts), and the   *)
(* credential proxy that admits each model call on it, passes the answer   *)
(* through and books what it cost (app/api/agent-proxy/[...path]/route.ts).*)
(*                                                                         *)
(* A call costs one unit for its prompt (message_start) and one for its    *)
(* answer (the last message_delta).                                        *)
(***************************************************************************)
EXTENDS Integers, FiniteSets

CONSTANTS
  Runs,      \* Sandbox runs; a run holds at most one grant
  Calls,     \* bound: model calls ever made
  Ceiling,   \* maxBudgetUsd; 0 is no ceiling
  MaxFaults  \* bound: broken streams, failed bookings, runs that die unready

ASSUME GrantsAssumption ==
  /\ "none" \notin Runs /\ IsFiniteSet(Calls)
  /\ Ceiling \in Nat /\ MaxFaults \in Nat

VARIABLES
  run,    \* executeSandboxTask: how far it is, and whether `proxy` is set
  grant,  \* the run's entry in the grants map
  call,   \* one request to the proxy, with what it cost and what was booked
  faults  \* faults so far

vars == <<run, grant, call, faults>>

---------------------------------------------------------------------------
(* proxy-tokens.ts                                                         *)

None    == [at |-> "none", spent |-> 0]
Minted  == [at |-> "live", spent |-> 0]
Revoked(g) == IF g.at = "live" THEN [g EXCEPT !.at = "gone"] ELSE g

CallAllowed(g) == Ceiling = 0 \/ g.spent < Ceiling

\* A charge on a grant that is gone lands nowhere.
Charged(g, n) == IF g.at = "live" THEN [g EXCEPT !.spent = @ + n] ELSE g

---------------------------------------------------------------------------
(* The run                                                                 *)

NewCall == [at |-> "new", run |-> "none", priced |-> TRUE, bill |-> 0, seen |-> 0,
            booked |-> FALSE, booking |-> 0, rows |-> {}, lost |-> FALSE,
            before |-> 0, late |-> FALSE]

Init ==
  /\ run = [r \in Runs |-> [at |-> "idle", key |-> FALSE]]
  /\ grant = [r \in Runs |-> None]
  /\ call = [c \in Calls |-> NewCall]
  /\ faults = 0

\* On the API key the bearer is minted before anything else is ready.
Begin(r) ==
  /\ run[r].at = "idle"
  /\ \E key \in BOOLEAN :
       /\ run' = [run EXCEPT ![r] = [at |-> "preparing", key |-> key]]
       /\ grant' = IF key THEN [grant EXCEPT ![r] = Minted] ELSE grant
  /\ UNCHANGED <<call, faults>>

Work(r) ==
  /\ run[r].at = "preparing"
  /\ run' = [run EXCEPT ![r].at = "working"]
  /\ UNCHANGED <<grant, call, faults>>

\* No stream to emit into, or a directory, skill or row that cannot be had:
\* the run ends outside the `try`, and a bearer it minted outlives it.
Quit(r) ==
  /\ run[r].at = "preparing" /\ faults < MaxFaults
  /\ run' = [run EXCEPT ![r].at = "quit"]
  /\ faults' = faults + 1
  /\ UNCHANGED <<grant, call>>

\* The subscription failed the run, and an organisation key is there.
FailOver(r) ==
  /\ run[r].at = "working" /\ ~run[r].key
  /\ run' = [run EXCEPT ![r].key = TRUE]
  /\ grant' = [grant EXCEPT ![r] = Minted]
  /\ UNCHANGED <<call, faults>>

\* Bug: the `finally` of a run that failed over knows no bearer.
FinishAsBegun(r) ==
  /\ run[r].at = "working"
  /\ run' = [run EXCEPT ![r].at = "over"]
  /\ UNCHANGED <<grant, call, faults>>

Finish(r) ==
  /\ run[r].at = "working"
  /\ run' = [run EXCEPT ![r].at = "over"]
  /\ grant' = IF run[r].key THEN [grant EXCEPT ![r] = Revoked(@)] ELSE grant
  /\ UNCHANGED <<call, faults>>

\* Two hours pass: looked up or pruned, the grant is gone.  No run lasts that
\* long.
Expire(r) ==
  /\ run[r].at = "quit" /\ grant[r].at = "live"
  /\ grant' = [grant EXCEPT ![r] = Revoked(@)]
  /\ UNCHANGED <<run, call, faults>>

---------------------------------------------------------------------------
(* The proxy route                                                         *)

Ended(r) == run[r].at \in {"over", "quit"}

\* What the run's calls have cost whose answer is over and whose booking is
\* not lost, and so is in `spentUsd` already.
Settled(c) == call[c].at \in {"closed", "gone"} /\ call[c].booking = 0 /\ ~call[c].lost
Units(r) == {u \in Calls \X (1 .. 2) :
               call[u[1]].run = r /\ Settled(u[1]) /\ u[2] <= call[u[1]].bill}
Spent(r) == Cardinality(Units(r))

\* lookupProxyToken and proxyCallAllowed, before the route's first await.
Enter(c, r) ==
  /\ call[c].at = "new"
  /\ grant[r].at = "live" /\ CallAllowed(grant[r])
  /\ \E priced \in BOOLEAN :
       call' = [call EXCEPT ![c] = [NewCall EXCEPT !.at = "reading", !.run = r, !.priced = priced,
                                                   !.before = Spent(r), !.late = Ended(r)]]
  /\ UNCHANGED <<run, grant, faults>>

\* No key, a body too large or not JSON, Anthropic out of reach or refusing.
TurnAway(c) ==
  /\ call[c].at = "reading"
  /\ call' = [call EXCEPT ![c].at = "refused"]
  /\ UNCHANGED <<run, grant, faults>>

Forward(c) ==
  /\ call[c].at = "reading"
  /\ \E at \in {"streaming", "whole"} : call' = [call EXCEPT ![c].at = at]
  /\ UNCHANGED <<run, grant, faults>>

\* The stream's next usage passes the tee.
Feed(c) ==
  /\ call[c].at = "streaming" /\ call[c].seen < 2
  /\ call' = [call EXCEPT ![c].seen = @ + 1, ![c].bill = @ + 1]
  /\ UNCHANGED <<run, grant, faults>>

\* Bug: the cumulative counts of the stream's usages are added up.
BookSummed(k) == IF k.booked THEN k ELSE [k EXCEPT !.booked = TRUE, !.booking = (k.seen * (k.seen + 1)) \div 2]

\* Bug: bookOnce without its flag.
BookEach(k) == [k EXCEPT !.booked = TRUE, !.booking = k.seen]

\* Starts booking what the tracker has seen, unless that was done.
BookOnce(k) == IF k.booked THEN k ELSE [k EXCEPT !.booked = TRUE, !.booking = k.seen]

\* The tee's flush: the answer is whole.
Flush(c) ==
  /\ call[c].at = "streaming" /\ call[c].seen = 2
  /\ call' = [call EXCEPT ![c] = [BookOnce(@) EXCEPT !.at = "closed"]]
  /\ UNCHANGED <<run, grant, faults>>

\* Anthropic's side breaks off: no flush.
Break(c) ==
  /\ call[c].at = "streaming" /\ faults < MaxFaults
  /\ call' = [call EXCEPT ![c].at = "broken"]
  /\ faults' = faults + 1
  /\ UNCHANGED <<run, grant>>

\* The caller goes: mid-answer, after it, or after it broke.
Abort(c) ==
  /\ call[c].at \in {"streaming", "closed", "broken"}
  /\ call' = [call EXCEPT ![c] = [BookOnce(@) EXCEPT !.at = "gone"]]
  /\ UNCHANGED <<run, grant, faults>>

\* An answer that is not streamed is read whole and booked; the caller may go
\* before it is, and then it is booked nowhere.
Answer(c) ==
  /\ call[c].at = "whole"
  /\ call' = [call EXCEPT ![c] = [BookOnce([@ EXCEPT !.seen = 2, !.bill = 2]) EXCEPT !.at = "closed"]]
  /\ UNCHANGED <<run, grant, faults>>

\* ... while it is fetched (agent-proxy 140-148) or read whole (219).
Drop(c) ==
  /\ call[c].at = "whole" /\ faults < MaxFaults
  /\ \E bill \in 0 .. 2 : call' = [call EXCEPT ![c].at = "gone", ![c].bill = bill, ![c].lost = TRUE]
  /\ faults' = faults + 1
  /\ UNCHANGED <<run, grant>>

\* Bug: an unpriced model costs what estimateCost says it does.
EstimateOnly(k) == IF k.priced THEN k.booking ELSE 0

\* What is charged: the estimate, or the dearest rate where there is none.
Price(k) == k.booking

\* book(): the usage row first, then the charge.
Record(c) ==
  /\ call[c].booking > 0
  /\ call' = [call EXCEPT ![c].booking = 0, ![c].rows = @ \union {<<Cardinality(@) + 1, call[c].booking>>}]
  /\ grant' = [grant EXCEPT ![call[c].run] = Charged(@, Price(call[c]))]
  /\ UNCHANGED <<run, faults>>

\* A usage row that cannot be written takes the charge with it.
RecordFails(c) ==
  /\ call[c].booking > 0 /\ faults < MaxFaults
  /\ call' = [call EXCEPT ![c].booking = 0, ![c].lost = TRUE]
  /\ faults' = faults + 1
  /\ UNCHANGED <<run, grant>>

RunStep(r)  == Begin(r) \/ Work(r) \/ Quit(r) \/ FailOver(r) \/ Finish(r) \/ Expire(r)
CallStep(c) ==
  \/ \E r \in Runs : Enter(c, r)
  \/ TurnAway(c) \/ Forward(c) \/ Feed(c) \/ Flush(c) \/ Break(c) \/ Abort(c)
  \/ Answer(c) \/ Drop(c) \/ Record(c) \/ RecordFails(c)

Next == (\E r \in Runs : RunStep(r)) \/ (\E c \in Calls : CallStep(c))
Spec == Init /\ [][Next]_vars

---------------------------------------------------------------------------
(* Properties                                                              *)

CallTypes == {"new", "reading", "refused", "streaming", "whole", "broken", "closed", "gone"}

\* Type invariant.
TypeOK ==
  /\ \A r \in Runs :
       /\ run[r] \in [at : {"idle", "preparing", "working", "over", "quit"}, key : BOOLEAN]
       /\ grant[r].at \in {"none", "live", "gone"} /\ grant[r].spent \in 0 .. 2 * Cardinality(Calls)
  /\ \A c \in Calls :
       /\ call[c].at \in CallTypes /\ call[c].bill \in 0 .. 2 /\ call[c].booking \in 0 .. 2
       /\ call[c].run = "none" <=> call[c].at = "new"
  /\ faults \in 0 .. MaxFaults

\* proxyCallAllowed and bookOnce: by the time a call is let in, what the run's
\* earlier calls cost and had booked is under the ceiling, whatever the model
\* was priced at, whether its answer was streamed, read whole or dropped by the
\* caller.  What is still in flight then is the overshoot the code accepts.
CeilingHolds ==
  Ceiling > 0 => \A c \in Calls : call[c].at # "new" => call[c].before < Ceiling

\* bookOnce: a call is booked once and in full - what had passed when it ended
\* or was dropped - unless its row could not be written or the caller left
\* before a whole answer.
BookedInFull ==
  \A c \in Calls :
    /\ Cardinality(call[c].rows) <= 1
    /\ Settled(c) => {n[2] : n \in call[c].rows} = {call[c].bill} \ {0}

\* "The bearer dies with the run": no call is let in on the key of a run that
\* has ended, however it came to the key, unless the run died before its `try`.
BearerDiesWithRun ==
  \A c \in Calls : call[c].late => run[call[c].run].at = "quit"

\* What holds of runs and their bearers at every moment.
GrantsInv == TypeOK /\ BearerDiesWithRun

=============================================================================
