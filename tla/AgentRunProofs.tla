--------------------------- MODULE AgentRunProofs ---------------------------
(***************************************************************************)
(* What a Sandbox run may spend: the key it is lent, for any number of     *)
(* runs, calls and faults and any ceiling, and the time of the turn it     *)
(* runs in, for every budget and every number of agent calls.              *)
(*                                                                         *)
(* Of the key, BookInv says how far the booking of a call is; LedgerInv    *)
(* that a live bearer's `spent` is what its settled calls cost, which      *)
(* needs that a bearer not yet minted has no calls.  Of the time,          *)
(* DeadlineInv is inductive: beside the three properties it bounds the     *)
(* remembered deadline, which the snap-back arms again.                    *)
(***************************************************************************)
EXTENDS ProxyGrants, TurnDeadline, FiniteSetTheorems, TLAPS

-----------------------------------------------------------------------------
(* Bookings *)

\* No usage row, or one.
Rows == {{}} \cup {{<<1, n>>} : n \in 1 .. 2}

CallRec ==
  [at : CallTypes, run : Runs \cup {"none"}, priced : BOOLEAN, bill : 0 .. 2, seen : 0 .. 2,
   booked : BOOLEAN, booking : 0 .. 2, rows : Rows,
   lost : BOOLEAN, before : Nat, late : BOOLEAN]

\* Nothing is booked before the answer is over.
Unbooked(k) == ~k.booked /\ k.booking = 0 /\ k.rows = {}

\* What bookOnce started is waiting to be written, lost, or written once.
Booked(k) ==
  /\ k.booked
  /\ \/ k.booking = k.bill /\ k.rows = {} /\ ~k.lost
     \/ k.booking = 0 /\ k.rows = {} /\ k.lost
     \/ k.booking = 0 /\ k.rows = {<<1, k.bill>>} /\ k.bill > 0 /\ ~k.lost

CallOK(k) ==
  /\ k.run = "none" <=> k.at = "new"
  /\ k.at \in {"new", "reading", "refused", "streaming", "whole", "broken"} =>
       Unbooked(k) /\ ~k.lost
  /\ k.at = "closed" => Booked(k)
  /\ k.at = "gone" => Booked(k) \/ (Unbooked(k) /\ k.lost)
  /\ k.at \in {"streaming", "broken"} => k.seen = k.bill
  /\ k.at \in {"new", "reading"} => k.seen = 0 /\ k.bill = 0

BookInv == call \in [Calls -> CallRec] /\ \A c \in Calls : CallOK(call[c])

\* What a ledger can hold of a call: nothing, or one entry of it.
LEMMA RowsHave == {} \in Rows /\ \A n \in 1 .. 2 : {<<1, n>>} \in Rows
BY DEF Rows

\* What the steps below write into a call leaves it a record of a call.
LEMMA Entered ==
  ASSUME NEW k \in CallRec, NEW at \in CallTypes, NEW r \in Runs, NEW p \in BOOLEAN,
         NEW b \in Nat, NEW l \in BOOLEAN
  PROVE  [k EXCEPT !.at = at, !.run = r, !.priced = p, !.before = b, !.late = l] \in CallRec
BY DEF CallRec

\* An answer, and what it costs.
LEMMA Answered ==
  ASSUME NEW k \in CallRec, NEW at \in CallTypes, NEW n \in 0 .. 2
  PROVE  [[k EXCEPT !.seen = n, !.bill = n] EXCEPT !.at = at] \in CallRec
BY DEF CallRec

\* What is booked of a call.
LEMMA Recorded ==
  ASSUME NEW k \in CallRec, NEW x \in 0 .. 2, NEW o \in Rows, NEW l \in BOOLEAN
  PROVE  /\ [k EXCEPT !.booking = x, !.rows = o] \in CallRec
         /\ [k EXCEPT !.booking = x, !.lost = l] \in CallRec
<1>1. [k EXCEPT !.booking = x, !.rows = o] \in CallRec
  BY DEF CallRec
<1>2. [k EXCEPT !.booking = x, !.lost = l] \in CallRec
  BY DEF CallRec
<1> QED BY <1>1, <1>2

\* A call before it is let in.
LEMMA NewCallOK == NewCall \in CallRec /\ CallOK(NewCall)
BY GrantsAssumption, RowsHave DEF NewCall, CallRec, CallTypes, CallOK, Unbooked

\* Starting a booking of what a call was seen to cost, or leaving one that was
\* started, books it once and in full.
LEMMA BookedOnce ==
  ASSUME NEW k \in CallRec, CallOK(k), NEW at \in {"closed", "gone"},
         k.at \in {"streaming", "closed", "broken"}
  PROVE  /\ [BookOnce(k) EXCEPT !.at = at] \in CallRec
         /\ CallOK([BookOnce(k) EXCEPT !.at = at])
<1> USE DEF CallRec, CallOK, CallTypes
<1>1. CASE k.booked
  BY <1>1 DEF BookOnce, Booked, Unbooked
<1>2. CASE ~k.booked
  BY <1>2 DEF BookOnce, Booked, Unbooked
<1> QED BY <1>1, <1>2

\* The units a run's calls have cost can be counted.
LEMMA UnitsFinite ==
  ASSUME NEW r
  PROVE  /\ IsFiniteSet(Units(r)) /\ Spent(r) \in Nat
         /\ Spent(r) <= 2 * Cardinality(Calls)
<1>1. IsFiniteSet(Calls)
  BY GrantsAssumption
<1>2. IsFiniteSet(1 .. 2) /\ Cardinality(1 .. 2) = 2
  <2>1. 1 \in Int /\ 2 \in Int
    OBVIOUS
  <2>2. Cardinality(1 .. 2) = IF 1 > 2 THEN 0 ELSE 2 - 1 + 1
    BY <2>1, FS_Interval
  <2>3. IsFiniteSet(1 .. 2)
    BY <2>1, FS_Interval
  <2> QED BY <2>2, <2>3
<1>3. /\ IsFiniteSet(Calls \X (1 .. 2))
      /\ Cardinality(Calls \X (1 .. 2)) = Cardinality(Calls) * 2
  BY <1>1, <1>2, FS_Product
<1>4. Units(r) \in SUBSET (Calls \X (1 .. 2))
  BY DEF Units
<1>5. Cardinality(Calls) \in Nat
  BY <1>1, FS_CardinalityType
<1>6. IsFiniteSet(Units(r)) /\ Cardinality(Units(r)) <= Cardinality(Calls \X (1 .. 2))
  BY <1>3, <1>4, FS_Subset
<1>7. Cardinality(Units(r)) \in Nat
  BY <1>6, FS_CardinalityType
<1> QED BY <1>3, <1>5, <1>6, <1>7 DEF Spent

\* Every step of a call leaves it a well-booked call, and the others alone.
LEMMA CallStepOK ==
  ASSUME BookInv, NEW c \in Calls, CallStep(c)
  PROVE  \E k \in CallRec : CallOK(k) /\ call' = [call EXCEPT ![c] = k]
<1> DEFINE k == call[c]
           Fits(n) == n \in CallRec /\ CallOK(n)
<1>0. k \in CallRec /\ CallOK(k)
  BY DEF BookInv
<1>e. ASSUME NEW n, Fits(n), call' = [call EXCEPT ![c] = n]
      PROVE  \E x \in CallRec : CallOK(x) /\ call' = [call EXCEPT ![c] = x]
  BY <1>e
<1> HIDE DEF k
<1>1. ASSUME NEW r \in Runs, Enter(c, r)
      PROVE  \E x \in CallRec : CallOK(x) /\ call' = [call EXCEPT ![c] = x]
  <2>1. PICK priced \in BOOLEAN :
          call' = [call EXCEPT ![c] = [NewCall EXCEPT !.at = "reading", !.run = r,
                     !.priced = priced, !.before = Spent(r), !.late = Ended(r)]]
    BY <1>1 DEF Enter
  <2> DEFINE n == [NewCall EXCEPT !.at = "reading", !.run = r,
                     !.priced = priced, !.before = Spent(r), !.late = Ended(r)]
  <2>2. Ended(r) \in BOOLEAN /\ Spent(r) \in Nat /\ r # "none"
    BY GrantsAssumption, UnitsFinite DEF Ended
  <2>3. Fits(n)
    <3> DEFINE late == Ended(r)
               before == Spent(r)
               at == "reading"
               m == [NewCall EXCEPT !.at = at, !.run = r, !.priced = priced,
                       !.before = before, !.late = late]
    <3>1. late \in BOOLEAN /\ before \in Nat /\ at \in CallTypes
      BY <2>2 DEF CallTypes
    <3> HIDE DEF late, before, at
    <3>2. m \in CallRec
      BY <2>2, <3>1, NewCallOK, Entered
    <3>3. /\ m.at = at /\ m.run = r /\ m.seen = 0 /\ m.bill = 0 /\ ~m.booked
          /\ m.booking = 0 /\ m.rows = {} /\ ~m.lost
      BY NewCallOK DEF NewCall
    <3> HIDE DEF m
    <3>4. CallOK(m)
      BY <2>2, <3>3 DEF CallOK, Unbooked, at
    <3> QED BY <3>2, <3>4 DEF m, late, before, at
  <2> QED BY <2>1, <2>3, <1>e
<1>2. CASE TurnAway(c)
  <2>1. Fits([k EXCEPT !.at = "refused"])
    BY <1>0, <1>2 DEF TurnAway, CallRec, CallOK, CallTypes, Unbooked, k
  <2> QED BY <1>2, <2>1, <1>e DEF TurnAway, k
<1>3. CASE Forward(c)
  <2>1. PICK at \in {"streaming", "whole"} : call' = [call EXCEPT ![c].at = at]
    BY <1>3 DEF Forward
  <2>2. Fits([k EXCEPT !.at = at])
    BY <1>0, <1>3 DEF Forward, CallRec, CallOK, CallTypes, Unbooked, k
  <2> QED BY <2>1, <2>2, <1>e DEF k
<1>4. CASE Feed(c)
  <2> DEFINE n == [k EXCEPT !.seen = @ + 1, !.bill = @ + 1]
  <2>1. k.at = "streaming" /\ k.seen < 2 /\ k.seen = k.bill /\ k.bill + 1 \in 0 .. 2
    BY <1>0, <1>4 DEF Feed, CallRec, CallOK, k
  <2>2. n \in CallRec
    BY <1>0, <2>1 DEF CallRec
  <2>3. CallOK(n)
    BY <1>0, <2>1 DEF CallRec, CallOK, Unbooked
  <2> QED BY <1>4, <2>2, <2>3, <1>e DEF Feed, k
<1>5. CASE Flush(c)
  <2>1. Fits([BookOnce(k) EXCEPT !.at = "closed"])
    BY <1>0, <1>5, BookedOnce DEF Flush, k
  <2> QED BY <1>5, <2>1, <1>e DEF Flush, k
<1>6. CASE Break(c)
  <2>1. Fits([k EXCEPT !.at = "broken"])
    BY <1>0, <1>6 DEF Break, CallRec, CallOK, CallTypes, Unbooked, k
  <2> QED BY <1>6, <2>1, <1>e DEF Break, k
<1>7. CASE Abort(c)
  <2>1. Fits([BookOnce(k) EXCEPT !.at = "gone"])
    BY <1>0, <1>7, BookedOnce DEF Abort, k
  <2> QED BY <1>7, <2>1, <1>e DEF Abort, k
<1>8. CASE Answer(c)
  <2> DEFINE w == [[k EXCEPT !.seen = 2, !.bill = 2] EXCEPT !.at = "streaming"]
  <2>a. k.at = "whole"
    BY <1>8 DEF Answer, k
  <2>b. w \in CallRec
    <3> DEFINE at == "streaming"
               two == 2
    <3>1. at \in CallTypes /\ two \in 0 .. 2
      BY DEF CallTypes
    <3> HIDE DEF at, two
    <3>2. [[k EXCEPT !.seen = two, !.bill = two] EXCEPT !.at = at] \in CallRec
      BY <1>0, <3>1, Answered
    <3> QED BY <3>2 DEF at, two
  <2>1. CallOK(w) /\ w.at = "streaming"
    BY <1>0, <2>a DEF CallRec, CallOK, Unbooked
  <2> HIDE DEF w
  <2>2. Fits([BookOnce(w) EXCEPT !.at = "closed"])
    BY <2>b, <2>1, BookedOnce
  <2> USE DEF w
  <2>3. [BookOnce(w) EXCEPT !.at = "closed"]
          = [BookOnce([k EXCEPT !.seen = 2, !.bill = 2]) EXCEPT !.at = "closed"]
    BY <1>0 DEF BookOnce, CallRec
  <2> QED BY <1>8, <2>2, <2>3, <1>e DEF Answer, k
<1>9. CASE Drop(c)
  <2>1. PICK bill \in 0 .. 2 :
          call' = [call EXCEPT ![c].at = "gone", ![c].bill = bill, ![c].lost = TRUE]
    BY <1>9 DEF Drop
  <2>2. Fits([k EXCEPT !.at = "gone", !.bill = bill, !.lost = TRUE])
    BY <1>0, <1>9 DEF Drop, CallRec, CallOK, CallTypes, Unbooked, Booked, k
  <2> QED BY <2>1, <2>2, <1>e DEF k
<1>10. CASE Record(c)
  <2> DEFINE n == [k EXCEPT !.booking = 0, !.rows = @ \union {<<Cardinality(@) + 1, k.booking>>}]
  <2>1. Booked(k) /\ k.rows = {} /\ k.bill = k.booking /\ k.booking > 0 /\ ~k.lost
    BY <1>0, <1>10 DEF Record, CallRec, CallOK, CallTypes, Unbooked, Booked, k
  <2>2. Cardinality({}) = 0
    BY FS_EmptySet
  <2> DEFINE one == {<<1, k.bill>>}
  <2>3. n = [k EXCEPT !.booking = 0, !.rows = one]
    <3>1. Cardinality(k.rows) + 1 = 1
      BY <2>1, <2>2
    <3>2. k.rows \union {<<Cardinality(k.rows) + 1, k.booking>>} = one
      BY <2>1, <3>1
    <3> QED BY <3>2
  <2>4. one \in Rows
    BY <1>0, <2>1, RowsHave DEF CallRec
  <2>5. Fits(n)
    <3> DEFINE m == [k EXCEPT !.booking = 0, !.rows = one]
    <3> HIDE DEF one
    <3>1. m \in CallRec
      <4> DEFINE zero == 0
      <4>1. zero \in 0 .. 2
        OBVIOUS
      <4> HIDE DEF zero
      <4>2. [k EXCEPT !.booking = zero, !.rows = one] \in CallRec
        BY <1>0, <2>4, <4>1, Recorded
      <4> QED BY <4>2 DEF zero
    <3>2. /\ m.at = k.at /\ m.run = k.run /\ m.seen = k.seen /\ m.bill = k.bill
          /\ m.booked = k.booked /\ m.booking = 0 /\ m.rows = one /\ m.lost = k.lost
      BY <1>0 DEF CallRec
    <3> HIDE DEF m
    <3>3. CallOK(m)
      BY <1>0, <2>1, <3>2 DEF CallRec, CallOK, Unbooked, Booked, one
    <3> QED BY <2>3, <3>1, <3>3 DEF m
  <2> HIDE DEF Fits, n
  <2>6. call' = [call EXCEPT ![c] = n]
    BY <1>10 DEF Record, k, n
  <2> QED BY <2>5, <2>6, <1>e
<1>11. CASE RecordFails(c)
  <2> DEFINE n == [k EXCEPT !.booking = 0, !.lost = TRUE]
  <2>1. Booked(k) /\ k.rows = {} /\ k.at \in {"closed", "gone"}
    BY <1>0, <1>11 DEF RecordFails, CallRec, CallOK, CallTypes, Unbooked, Booked, k
  <2>2. n \in CallRec
    <3> DEFINE zero == 0
    <3>1. zero \in 0 .. 2
      OBVIOUS
    <3> HIDE DEF zero
    <3>2. [k EXCEPT !.booking = zero, !.lost = TRUE] \in CallRec
      BY <1>0, <3>1, RowsHave, Recorded
    <3> QED BY <3>2 DEF zero
  <2>3. CallOK(n)
    BY <1>0, <2>1 DEF CallRec, CallOK, Booked
  <2> QED BY <1>11, <2>2, <2>3, <1>e DEF RecordFails, k
<1> QED BY <1>1, <1>2, <1>3, <1>4, <1>5, <1>6, <1>7, <1>8, <1>9, <1>10, <1>11 DEF CallStep

\* Every step keeps the bookings in order.
LEMMA BookStep == BookInv /\ [Next]_vars => BookInv'
<1> SUFFICES ASSUME BookInv, [Next]_vars PROVE BookInv'
  OBVIOUS
<1>1. ASSUME NEW r \in Runs, RunStep(r) PROVE BookInv'
  BY <1>1 DEF BookInv, RunStep, Begin, Work, Quit, FailOver, Finish, Expire
<1>2. ASSUME NEW c \in Calls, CallStep(c) PROVE BookInv'
  <2>1. PICK k \in CallRec : CallOK(k) /\ call' = [call EXCEPT ![c] = k]
    BY <1>2, CallStepOK
  <2> QED BY <2>1 DEF BookInv
<1>3. CASE UNCHANGED vars
  BY <1>3 DEF vars, BookInv
<1> QED BY <1>1, <1>2, <1>3 DEF Next

\* Nothing is booked at first.
LEMMA BookInit == Init => BookInv
BY NewCallOK DEF Init, BookInv

\* bookOnce: however the end of the stream, the caller's going and a failure
\* race, a call is booked once and in full.
THEOREM CallsBookedInFull == Spec => []BookedInFull
<1>1. BookInv => BookedInFull
  <2> SUFFICES ASSUME BookInv, NEW c \in Calls
               PROVE  /\ Cardinality(call[c].rows) <= 1
                      /\ Settled(c) => {n[2] : n \in call[c].rows} = {call[c].bill} \ {0}
    BY DEF BookedInFull
  <2>1. call[c] \in CallRec /\ CallOK(call[c])
    BY DEF BookInv
  <2>2. call[c].rows = {} \/ call[c].rows = {<<1, call[c].bill>>}
    BY <2>1 DEF CallRec, CallTypes, CallOK, Unbooked, Booked
  <2>3. Cardinality(call[c].rows) <= 1
    <3>1. Cardinality({}) = 0
      BY FS_EmptySet
    <3>2. Cardinality({<<1, call[c].bill>>}) = 1
      BY FS_Singleton
    <3>3. Cardinality(call[c].rows) \in {0, 1}
      BY <2>2, <3>1, <3>2
    <3> QED BY <3>3
  <2>4. ASSUME Settled(c) PROVE {n[2] : n \in call[c].rows} = {call[c].bill} \ {0}
    <3>1. \/ call[c].rows = {} /\ call[c].bill = 0
          \/ call[c].rows = {<<1, call[c].bill>>} /\ call[c].bill # 0
      BY <2>1, <2>4 DEF Settled, CallRec, CallOK, Unbooked, Booked
    <3>2. CASE call[c].rows = {} /\ call[c].bill = 0
      BY <3>2
    <3>3. CASE call[c].rows = {<<1, call[c].bill>>} /\ call[c].bill # 0
      <4>1. {n[2] : n \in call[c].rows} = {call[c].bill}
        BY <3>3
      <4> QED BY <3>3, <4>1
    <3> QED BY <3>1, <3>2, <3>3
  <2> QED BY <2>3, <2>4
<1> QED BY <1>1, BookInit, BookStep, PTL DEF Spec

-----------------------------------------------------------------------------
(* The ledger *)

RunRec   == [at : {"idle", "preparing", "working", "over", "quit"}, key : BOOLEAN]
GrantRec == [at : {"none", "live", "gone"}, spent : Nat]

\* A run's bearer, and what was charged to it.
GrantOK(r) ==
  /\ run[r].at = "idle" \/ ~run[r].key => grant[r] = None
  /\ grant[r].at = "live" => run[r].at # "over" /\ grant[r].spent = Spent(r)
  /\ grant[r].spent <= Spent(r)

\* A call, and the run it was let in for.
AdmittedOK(c) ==
  /\ call[c].at = "new" => ~call[c].late
  /\ call[c].at # "new" =>
       /\ call[c].run \in Runs /\ grant[call[c].run].at # "none"
       /\ call[c].late => run[call[c].run].at = "quit"
       /\ Ceiling > 0 => call[c].before < Ceiling

LedgerInv ==
  /\ run \in [Runs -> RunRec] /\ grant \in [Runs -> GrantRec] /\ faults \in 0 .. MaxFaults
  /\ \A r \in Runs : GrantOK(r)
  /\ \A c \in Calls : AdmittedOK(c)

\* Answer k has cost its run its n-th unit for good.
Costs(k, n) == k.at \in {"closed", "gone"} /\ k.booking = 0 /\ ~k.lost /\ n <= k.bill

\* Until it is settled a call costs nothing, and then what it cost stands: a
\* step other than Record's leaves every run's units as they are.
LEMMA UnitsKept ==
  ASSUME BookInv, BookInv', NEW c \in Calls, CallStep(c), ~Record(c)
  PROVE  \A r \in Runs : Units(r)' = Units(r)
<1> DEFINE k == call[c]
           m == call'[c]
           Same == \A n \in 1 .. 2 : \A r \in Runs :
                     m.run = r /\ Costs(m, n) <=> k.run = r /\ Costs(k, n)
<1>0. /\ k \in CallRec /\ CallOK(k) /\ m \in CallRec /\ CallOK(m)
  BY DEF BookInv
<1>c. call \in [Calls -> CallRec]
  BY DEF BookInv
<1> HIDE DEF k, m
<1>1. ASSUME \A n \in 1 .. 2 : ~Costs(k, n) /\ ~Costs(m, n)
      PROVE  Same
  BY <1>1
<1>2. ASSUME \A n \in 1 .. 2 : Costs(m, n) <=> Costs(k, n), m.run = k.run
      PROVE  Same
  BY <1>2
<1>3. ASSUME (\E r \in Runs : Enter(c, r)) \/ TurnAway(c) \/ Forward(c) \/ Feed(c) \/ Break(c)
      PROVE  Same
  <2>1. k.at \notin {"closed", "gone"} /\ m.at \notin {"closed", "gone"}
    <3>1. CASE \E r \in Runs : Enter(c, r)
      BY <1>0, <1>c, <3>1 DEF Enter, NewCall, k, m
    <3>2. CASE TurnAway(c) \/ Forward(c) \/ Break(c)
      BY <1>0, <1>c, <3>2 DEF TurnAway, Forward, Break, CallRec, k, m
    <3>3. CASE Feed(c)
      BY <1>0, <1>c, <3>3 DEF Feed, CallRec, k, m
    <3> QED BY <1>3, <3>1, <3>2, <3>3
  <2> QED BY <2>1, <1>1 DEF Costs
<1>4. ASSUME Flush(c) \/ Answer(c)
      PROVE  Same
  <2>1. /\ k.at \notin {"closed", "gone"}
        /\ m.bill \in 0 .. 2 /\ (m.booking = m.bill \/ m.lost)
    <3>1. k.at \in {"streaming", "whole"} /\ Unbooked(k) /\ ~k.lost
      BY <1>0, <1>4 DEF Flush, Answer, CallOK, k
    <3>2. m.rows = {} /\ m.at = "closed"
      <4>1. CASE Flush(c)
        BY <1>0, <4>1, <1>c, <3>1 DEF Flush, BookOnce, Unbooked, CallRec, k, m
      <4>2. CASE Answer(c)
        BY <1>0, <4>2, <1>c, <3>1 DEF Answer, BookOnce, Unbooked, CallRec, k, m
      <4> QED BY <1>4, <4>1, <4>2
    <3> QED BY <1>0, <3>1, <3>2 DEF CallOK, Booked, CallRec
  <2>2. \A n \in 1 .. 2 : ~Costs(k, n) /\ ~Costs(m, n)
    BY <2>1 DEF Costs
  <2> QED BY <2>2, <1>1
<1>5. ASSUME Abort(c)
      PROVE  Same
  <2>1. k.at \in {"streaming", "broken", "closed"} /\ m = [BookOnce(k) EXCEPT !.at = "gone"]
    BY <1>5, <1>c DEF Abort, k, m
  <2>2. CASE k.booked
    <3>1. k.at = "closed"
      BY <1>0, <2>1, <2>2 DEF CallOK, Unbooked
    <3>2. m = [k EXCEPT !.at = "gone"]
      BY <2>1, <2>2 DEF BookOnce
    <3>3. /\ m.at = "gone" /\ m.booking = k.booking /\ m.lost = k.lost
          /\ m.bill = k.bill /\ m.run = k.run
      BY <1>0, <3>2 DEF CallRec
    <3> QED BY <3>1, <3>3, <1>2 DEF Costs
  <2>3. CASE ~k.booked
    <3>1. k.at \in {"streaming", "broken"} /\ k.seen = k.bill
      BY <1>0, <2>1, <2>3 DEF CallOK, Booked
    <3>2. m.booking = m.bill /\ m.bill \in 0 .. 2
      BY <1>0, <2>1, <2>3, <3>1 DEF BookOnce, CallRec
    <3>3. \A n \in 1 .. 2 : ~Costs(k, n) /\ ~Costs(m, n)
      BY <3>1, <3>2 DEF Costs
    <3> QED BY <3>3, <1>1
  <2> QED BY <2>2, <2>3
<1>6. ASSUME Drop(c) \/ RecordFails(c)
      PROVE  Same
  <2>1. (k.at = "whole" \/ k.booking > 0) /\ m.lost
    BY <1>0, <1>6, <1>c DEF Drop, RecordFails, CallRec, k, m
  <2> QED BY <2>1, <1>1 DEF Costs
<1>7. Same
  BY <1>3, <1>4, <1>5, <1>6 DEF CallStep
<1>8. \A d \in Calls \ {c} : call'[d] = call[d]
  <2>1. PICK x \in CallRec : call' = [call EXCEPT ![c] = x]
    BY CallStepOK
  <2> QED BY <2>1, <1>c
<1>9. ASSUME NEW r \in Runs PROVE Units(r)' = Units(r)
  <2>1. \A u \in Calls \X (1 .. 2) :
          call'[u[1]].run = r /\ Costs(call'[u[1]], u[2])
            <=> call[u[1]].run = r /\ Costs(call[u[1]], u[2])
    BY <1>7, <1>8 DEF k, m
  <2> QED BY <2>1 DEF Units, Settled, Costs
<1> QED BY <1>9

\* Recording settles the call: its units are added to its run's.
LEMMA UnitsRecorded ==
  ASSUME BookInv, NEW c \in Calls, Record(c), call[c].run \in Runs
  PROVE  /\ Spent(call[c].run)' = Spent(call[c].run) + call[c].booking
         /\ \A r \in Runs \ {call[c].run} : Units(r)' = Units(r)
<1> DEFINE k == call[c]
           m == call'[c]
           new == {c} \X (1 .. k.bill)
<1>0. call \in [Calls -> CallRec] /\ k \in CallRec /\ CallOK(k)
  BY DEF BookInv
<1>1. k.booking > 0 /\ k.booking = k.bill /\ ~k.lost /\ k.bill \in 1 .. 2
      /\ k.at \in {"closed", "gone"}
  BY <1>0 DEF Record, CallRec, CallTypes, CallOK, Unbooked, Booked
<1>2. /\ m.booking = 0 /\ m.lost = k.lost /\ m.at = k.at /\ m.bill = k.bill /\ m.run = k.run
      /\ \A d \in Calls \ {c} : call'[d] = call[d]
  BY <1>0 DEF Record, CallRec
<1> HIDE DEF m
<1>3. ASSUME NEW r \in Runs \ {k.run} PROVE Units(r)' = Units(r)
  <2>1. \A u \in Calls \X (1 .. 2) :
          call'[u[1]].run = r /\ Costs(call'[u[1]], u[2])
            <=> call[u[1]].run = r /\ Costs(call[u[1]], u[2])
    BY <1>2 DEF m
  <2> QED BY <2>1 DEF Units, Settled, Costs
<1>4. Units(k.run)' = Units(k.run) \cup new /\ Units(k.run) \cap new = {}
  <2>1. \A u \in Calls \X (1 .. 2) :
          call'[u[1]].run = k.run /\ Costs(call'[u[1]], u[2])
            <=> (call[u[1]].run = k.run /\ Costs(call[u[1]], u[2])) \/ u \in new
    BY <1>1, <1>2 DEF m, Costs
  <2>2. new \subseteq Calls \X (1 .. 2)
    BY <1>1
  <2>3. \A u \in new : ~Costs(call[u[1]], u[2])
    BY <1>1 DEF Costs
  <2>4. Units(k.run) = {u \in Calls \X (1 .. 2) : call[u[1]].run = k.run /\ Costs(call[u[1]], u[2])}
    BY DEF Units, Settled, Costs
  <2>5. Units(k.run)' = {u \in Calls \X (1 .. 2) : call'[u[1]].run = k.run' /\ Costs(call'[u[1]], u[2])}
    BY DEF Units, Settled, Costs
  <2>6. k.run' = k.run
    BY <1>2 DEF m
  <2> HIDE DEF new
  <2> QED BY <2>1, <2>2, <2>3, <2>4, <2>5, <2>6
<1>5. IsFiniteSet(new) /\ Cardinality(new) = k.bill
  <2>1. IsFiniteSet({c}) /\ Cardinality({c}) = 1
    BY FS_Singleton
  <2>2. IsFiniteSet(1 .. k.bill) /\ Cardinality(1 .. k.bill) = k.bill
    <3>1. 1 \in Int /\ k.bill \in Int
      BY <1>1
    <3>2. Cardinality(1 .. k.bill) = IF 1 > k.bill THEN 0 ELSE k.bill - 1 + 1
      BY <3>1, FS_Interval
    <3>3. IsFiniteSet(1 .. k.bill)
      BY <3>1, FS_Interval
    <3> QED BY <1>1, <3>2, <3>3
  <2> DEFINE one == {c}
             bill == 1 .. k.bill
  <2>a. /\ IsFiniteSet(one) /\ Cardinality(one) = 1
        /\ IsFiniteSet(bill) /\ Cardinality(bill) = k.bill
    BY <2>1, <2>2
  <2> HIDE DEF one, bill
  <2>3. IsFiniteSet(one \X bill) /\ Cardinality(one \X bill) = 1 * k.bill
    BY <2>a, FS_Product
  <2> QED BY <1>1, <2>3 DEF one, bill
<1>6. IsFiniteSet(Units(k.run))
  BY UnitsFinite
<1> HIDE DEF new
<1>7. Cardinality(Units(k.run) \cup new)
        = Cardinality(Units(k.run)) + Cardinality(new) - Cardinality(Units(k.run) \cap new)
  BY <1>5, <1>6, FS_Union
<1>8. Spent(k.run)' = Spent(k.run) + k.booking
  <2>1. Cardinality(Units(k.run) \cap new) = 0
    BY <1>4, FS_EmptySet
  <2>2. Cardinality(Units(k.run)) \in Nat
    BY <1>6, FS_CardinalityType
  <2>3. Spent(k.run)' = Cardinality(Units(k.run) \cup new)
    BY <1>2, <1>4 DEF Spent, m
  <2> QED BY <1>1, <1>5, <1>7, <2>1, <2>2, <2>3 DEF Spent
<1> QED BY <1>3, <1>8

\* Every step keeps the ledger: the bearer a run mints is one no call was let
\* in on, so nothing was spent of it, and a call is let in, booked and charged
\* as the bearer stands.
LEMMA LedgerStep == BookInv /\ LedgerInv /\ [Next]_vars => LedgerInv'
<1> SUFFICES ASSUME BookInv, LedgerInv, [Next]_vars PROVE LedgerInv'
  OBVIOUS
<1>b. BookInv'
  BY BookStep
<1>0. /\ run \in [Runs -> RunRec] /\ grant \in [Runs -> GrantRec] /\ faults \in 0 .. MaxFaults
      /\ call \in [Calls -> CallRec] /\ MaxFaults \in Nat
  BY GrantsAssumption DEF BookInv, LedgerInv
<1>s. \A r \in Runs : Spent(r) \in Nat
  BY UnitsFinite
<1>1. ASSUME NEW r \in Runs, RunStep(r) PROVE LedgerInv'
  <2>1. call' = call
    BY <1>1 DEF RunStep, Begin, Work, Quit, FailOver, Finish, Expire
  <2>2. \A q \in Runs : Units(q)' = Units(q) /\ Spent(q)' = Spent(q)
    BY <2>1 DEF Units, Settled, Spent
  <2>3. /\ run' \in [Runs -> RunRec] /\ grant' \in [Runs -> GrantRec]
        /\ faults' \in 0 .. MaxFaults
        /\ \A q \in Runs \ {r} : run'[q] = run[q] /\ grant'[q] = grant[q]
    <3>1. Minted \in GrantRec /\ Revoked(grant[r]) \in GrantRec
      BY <1>0 DEF Minted, GrantRec, Revoked
    <3>2. CASE Begin(r)
      <4>1. PICK key \in BOOLEAN :
              /\ run' = [run EXCEPT ![r] = [at |-> "preparing", key |-> key]]
              /\ grant' = IF key THEN [grant EXCEPT ![r] = Minted] ELSE grant
        BY <3>2 DEF Begin
      <4>2. [at |-> "preparing", key |-> key] \in RunRec
        BY DEF RunRec
      <4> QED BY <1>0, <3>1, <3>2, <4>1, <4>2 DEF Begin
    <3>4. CASE Work(r)
      BY <1>0, <3>4 DEF Work, RunRec
    <3>5. CASE FailOver(r)
      <4>1. [run[r] EXCEPT !.key = TRUE] \in RunRec
        BY <1>0 DEF RunRec
      <4>2. /\ run' = [run EXCEPT ![r] = [run[r] EXCEPT !.key = TRUE]]
            /\ grant' = [grant EXCEPT ![r] = Minted] /\ faults' = faults
        BY <3>5 DEF FailOver
      <4> HIDE DEF RunRec
      <4> QED BY <1>0, <3>1, <4>1, <4>2
    <3>3. CASE Quit(r) \/ Finish(r) \/ Expire(r)
      BY <1>0, <3>1, <3>3 DEF Quit, Finish, Expire, RunRec
    <3> QED BY <1>1, <3>2, <3>3, <3>4, <3>5 DEF RunStep
  <2>4. ASSUME grant[r].at = "none" PROVE Spent(r) = 0 /\ \A c \in Calls : call[c].run # r
    <3>1. \A c \in Calls : call[c].run # r
      BY <2>4, GrantsAssumption DEF LedgerInv, AdmittedOK, BookInv, CallOK
    <3>2. Units(r) = {}
      BY <3>1 DEF Units
    <3> QED BY <3>1, <3>2, FS_EmptySet DEF Spent
  <2>5. GrantOK(r)
    BY DEF LedgerInv
  <2>6. GrantOK(r)'
    <3>1. CASE Begin(r)
      BY <1>0, <1>s, <2>2, <2>4, <2>5, <3>1 DEF Begin, GrantOK, Minted, None, RunRec, GrantRec
    <3>2. CASE Work(r) \/ Quit(r)
      BY <1>0, <2>2, <2>5, <3>2 DEF Work, Quit, GrantOK, None, RunRec
    <3>3. CASE FailOver(r)
      BY <1>0, <1>s, <2>2, <2>4, <2>5, <3>3 DEF FailOver, GrantOK, Minted, None, RunRec
    <3>4. CASE Finish(r)
      BY <1>0, <2>2, <2>5, <3>4 DEF Finish, GrantOK, Revoked, None, RunRec, GrantRec
    <3>5. CASE Expire(r)
      BY <1>0, <2>2, <2>5, <3>5 DEF Expire, GrantOK, Revoked, None, GrantRec
    <3> QED BY <1>1, <3>1, <3>2, <3>3, <3>4, <3>5 DEF RunStep
  <2>7. /\ grant[r].at # "none" => grant'[r].at # "none"
        /\ run[r].at = "quit" => run'[r].at = "quit"
    BY <1>0, <1>1, <2>5 DEF RunStep, Begin, Work, Quit, FailOver, Finish, Expire,
                            GrantOK, Minted, None, Revoked, GrantRec, RunRec
  <2>8. \A q \in Runs : GrantOK(q)'
    BY <2>2, <2>3, <2>6 DEF LedgerInv, GrantOK
  <2>9. \A c \in Calls : AdmittedOK(c)'
    BY <2>1, <2>3, <2>7 DEF LedgerInv, AdmittedOK
  <2> QED BY <2>3, <2>8, <2>9 DEF LedgerInv
<1>2. ASSUME NEW c \in Calls, CallStep(c), ~Record(c) PROVE LedgerInv'
  <2>1. run' = run /\ grant' = grant /\ faults' \in 0 .. MaxFaults
    <3>1. CASE \/ \E r \in Runs : Enter(c, r)
               \/ TurnAway(c) \/ Forward(c) \/ Feed(c) \/ Flush(c) \/ Abort(c) \/ Answer(c)
      BY <1>0, <3>1 DEF Enter, TurnAway, Forward, Feed, Flush, Abort, Answer
    <3>2. CASE Break(c) \/ Drop(c) \/ RecordFails(c)
      BY <1>0, <3>2 DEF Break, Drop, RecordFails
    <3> QED BY <1>2, <3>1, <3>2 DEF CallStep
  <2>2. \A r \in Runs : Units(r)' = Units(r) /\ Spent(r)' = Spent(r)
    BY <1>b, <1>2, UnitsKept DEF Spent
  <2>3. PICK k \in CallRec : call' = [call EXCEPT ![c] = k]
    BY <1>2, CallStepOK
  <2>4. AdmittedOK(c)'
    <3>1. ASSUME NEW r \in Runs, Enter(c, r) PROVE AdmittedOK(c)'
      <4>1. /\ call'[c].at = "reading" /\ call'[c].run = r
            /\ call'[c].before = Spent(r) /\ call'[c].late = Ended(r)
        BY <1>0, <3>1 DEF Enter, NewCall
      <4>2. /\ grant[r].at = "live" /\ run[r].at # "over" /\ grant[r].spent = Spent(r)
            /\ Ceiling > 0 => Spent(r) < Ceiling
        BY <3>1, GrantsAssumption DEF Enter, CallAllowed, LedgerInv, GrantOK
      <4> QED BY <2>1, <4>1, <4>2 DEF AdmittedOK, Ended
    <3>2. ASSUME ~\E r \in Runs : Enter(c, r) PROVE AdmittedOK(c)'
      <4>1. /\ call[c].at # "new" /\ call'[c].run = call[c].run
            /\ call'[c].before = call[c].before /\ call'[c].late = call[c].late
        <5>1. CASE TurnAway(c) \/ Forward(c) \/ Break(c) \/ RecordFails(c)
          <6>1. call[c].at # "new"
            BY <5>1, <1>0 DEF TurnAway, Forward, Break, RecordFails, BookInv, CallOK, Unbooked
          <6> QED BY <5>1, <6>1, <1>0 DEF TurnAway, Forward, Break, RecordFails, CallRec
        <5>2. CASE Feed(c) \/ Drop(c)
          BY <5>2, <1>0 DEF Feed, Drop, CallRec
        <5>3. CASE Flush(c) \/ Abort(c)
          <6>1. PICK at \in CallTypes : call'[c] = [BookOnce(call[c]) EXCEPT !.at = at]
            BY <5>3, <1>0 DEF Flush, Abort, CallTypes
          <6>2. call[c].at # "new"
            BY <5>3 DEF Flush, Abort
          <6>3. call[c] \in CallRec
            BY <1>0
          <6> QED BY <6>1, <6>2, <6>3 DEF BookOnce, CallRec
        <5>4. CASE Answer(c)
          BY <5>4, <1>0 DEF Answer, BookOnce, CallRec
        <5> QED BY <1>2, <3>2, <5>1, <5>2, <5>3, <5>4 DEF CallStep
      <4>2. call'[c].at # "new"
        BY <1>b, <4>1 DEF BookInv, CallOK
      <4> QED BY <2>1, <4>1, <4>2 DEF AdmittedOK, LedgerInv
    <3> QED BY <3>1, <3>2
  <2>5. \A d \in Calls \ {c} : AdmittedOK(d)'
    BY <1>0, <2>1, <2>3 DEF AdmittedOK, LedgerInv
  <2>6. \A r \in Runs : GrantOK(r)'
    BY <2>1, <2>2 DEF LedgerInv, GrantOK
  <2> QED BY <1>0, <2>1, <2>4, <2>5, <2>6 DEF LedgerInv
<1>3. ASSUME NEW c \in Calls, Record(c) PROVE LedgerInv'
  <2> DEFINE r == call[c].run
             b == call[c].booking
  <2>1. r \in Runs /\ grant[r].at # "none" /\ b \in Nat /\ b > 0 /\ call[c].at # "new"
    <3>1. call[c].at # "new"
      BY <1>3 DEF Record, BookInv, CallOK, Unbooked
    <3> QED BY <1>0, <1>3, <3>1 DEF Record, LedgerInv, AdmittedOK, CallRec
  <2>2. Spent(r)' = Spent(r) + b /\ \A q \in Runs \ {r} : Spent(q)' = Spent(q)
    BY <1>3, <2>1, UnitsRecorded DEF Spent
  <2>3. run' = run /\ faults' = faults
        /\ grant' = [grant EXCEPT ![r] = Charged(grant[r], b)]
    BY <1>3, <1>0 DEF Record, Price
  <2>4. /\ call'[c].at = call[c].at /\ call'[c].run = call[c].run
        /\ call'[c].before = call[c].before /\ call'[c].late = call[c].late
        /\ \A d \in Calls \ {c} : call'[d] = call[d]
    BY <1>0, <1>3 DEF Record, CallRec
  <2>r. r' = r
    BY <2>4
  <2>5. PICK n \in Nat : n = Spent(r)
    BY <1>s, <2>1
  <2>6. PICK m : m = Spent(r)'
    OBVIOUS
  <2> HIDE DEF r, b
  <2>7. Charged(grant[r], b) \in GrantRec /\ Charged(grant[r], b).at = grant[r].at
    BY <1>0, <2>1 DEF Charged, GrantRec
  <2>8. GrantOK(r) /\ grant[r].spent \in Nat
    BY <1>0, <2>1 DEF LedgerInv, GrantRec
  <2>9. /\ grant[r].at = "live" => Charged(grant[r], b).spent = n + b
        /\ Charged(grant[r], b).spent <= n + b
    BY <1>0, <2>1, <2>5, <2>8 DEF Charged, GrantOK, GrantRec
  <2>10. grant'[r] = Charged(grant[r], b) /\ \A q \in Runs \ {r} : grant'[q] = grant[q]
    BY <1>0, <2>1, <2>3
  <2>11. ASSUME NEW q \in Runs PROVE GrantOK(q)'
    <3>1. CASE q = r
      <4>1. Spent(q)' = n + b
        BY <3>1, <2>r, <2>2, <2>5
      <4>2. run[q].at # "idle" /\ run[q].key
        BY <2>1, <2>8, <3>1, <1>0 DEF GrantOK, None, RunRec
      <4> QED BY <2>3, <2>7, <2>8, <2>9, <2>10, <3>1, <4>1, <4>2 DEF GrantOK
    <3>2. CASE q # r
      BY <2>2, <2>3, <2>10, <3>2 DEF LedgerInv, GrantOK
    <3> QED BY <3>1, <3>2
  <2>12. ASSUME NEW d \in Calls PROVE AdmittedOK(d)'
    <3>1. \A q \in Runs : grant'[q].at = grant[q].at
      BY <2>7, <2>10
    <3> QED BY <2>3, <2>4, <3>1 DEF LedgerInv, AdmittedOK
  <2>13. grant' \in [Runs -> GrantRec]
    BY <1>0, <2>3, <2>7
  <2> QED BY <1>0, <2>3, <2>11, <2>12, <2>13 DEF LedgerInv
<1>4. CASE UNCHANGED vars
  <2>1. \A r \in Runs : Spent(r)' = Spent(r)
    BY <1>4 DEF vars, Spent, Units, Settled
  <2> QED BY <1>4, <2>1 DEF vars, LedgerInv, GrantOK, AdmittedOK
<1> QED BY <1>1, <1>2, <1>3, <1>4 DEF Next

\* Nothing is in the ledger at first.
LEMMA LedgerInit == Init => LedgerInv
<1> SUFFICES ASSUME Init PROVE LedgerInv
  OBVIOUS
<1>1. \A r \in Runs : Spent(r) \in Nat
  BY UnitsFinite
<1>2. ASSUME NEW r \in Runs PROVE GrantOK(r)
  <2>1. grant[r] = None /\ run[r].at = "idle"
    BY DEF Init
  <2> QED BY <1>1, <2>1 DEF GrantOK, None
<1>3. \A c \in Calls : AdmittedOK(c)
  BY DEF Init, NewCall, AdmittedOK
<1>4. run \in [Runs -> RunRec] /\ grant \in [Runs -> GrantRec] /\ faults \in 0 .. MaxFaults
  BY GrantsAssumption DEF Init, None, RunRec, GrantRec
<1> QED BY <1>2, <1>3, <1>4 DEF LedgerInv

\* proxyCallAllowed: no call is let in whose run's settled calls have reached
\* the ceiling, for any ceiling and any number of calls in flight at once.
THEOREM CeilingKept == Spec => []CeilingHolds
<1>1. LedgerInv => CeilingHolds
  BY DEF LedgerInv, AdmittedOK, CeilingHolds
<1> QED BY <1>1, BookInit, BookStep, LedgerInit, LedgerStep, PTL DEF Spec

\* "The bearer dies with the run", and what a run is charged is never more
\* than its calls can cost.
THEOREM GrantsKept == Spec => []GrantsInv
<1>1. BookInv /\ LedgerInv => GrantsInv
  <2> SUFFICES ASSUME BookInv, LedgerInv PROVE GrantsInv
    OBVIOUS
  <2>1. ASSUME NEW r \in Runs
        PROVE  /\ run[r] \in [at : {"idle", "preparing", "working", "over", "quit"}, key : BOOLEAN]
               /\ grant[r].at \in {"none", "live", "gone"}
               /\ grant[r].spent \in 0 .. 2 * Cardinality(Calls)
    <3>1. Cardinality(Calls) \in Nat
      BY GrantsAssumption, FS_CardinalityType
    <3>2. Spent(r) \in Nat /\ Spent(r) <= 2 * Cardinality(Calls)
      BY UnitsFinite
    <3>3. run[r] \in RunRec /\ grant[r] \in GrantRec /\ grant[r].spent <= Spent(r)
      BY DEF LedgerInv, GrantOK
    <3> QED BY <3>1, <3>2, <3>3 DEF RunRec, GrantRec
  <2>2. ASSUME NEW c \in Calls
        PROVE  /\ call[c].at \in CallTypes /\ call[c].bill \in 0 .. 2
               /\ call[c].booking \in 0 .. 2
               /\ call[c].run = "none" <=> call[c].at = "new"
    BY DEF BookInv, CallRec, CallOK
  <2>3. faults \in 0 .. MaxFaults
    BY DEF LedgerInv
  <2>4. TypeOK
    BY <2>1, <2>2, <2>3 DEF TypeOK
  <2>5. BearerDiesWithRun
    <3> SUFFICES ASSUME NEW c \in Calls, call[c].late PROVE run[call[c].run].at = "quit"
      BY DEF BearerDiesWithRun
    <3> QED BY DEF LedgerInv, AdmittedOK
  <2> QED BY <2>4, <2>5 DEF GrantsInv
<1> QED BY <1>1, BookInit, BookStep, LedgerInit, LedgerStep, PTL DEF Spec

-----------------------------------------------------------------------------
(* The hard stop of the turn.                                              *)

USE DeadlineAssumption

\* The budgets are numbers of minutes, so the longest ones are too.
LEMMA LongestAreNat ==
  /\ \A m \in Longest : m \in Nat
  /\ \A m \in AgentBudgets : m \in Longest
  /\ TurnBudget \in Longest /\ AfterAgent \in Longest
BY DEF Longest

\* What is said of the numbers alone.
MinutesInv == MinutesOK /\ StretchIsBounded

\* What is said of the flags alone.
FlagsInv == FlagsOK /\ AlwaysArmed

\* A number no larger than a bounded one is bounded.
LEMMA SmallerIsBounded ==
  ASSUME NEW s \in Int, NEW t \in Int, s <= t, Bounded(t)
  PROVE  Bounded(s)
<1>1. PICK m \in Longest : t <= m
  BY DEF Bounded
<1>2. m \in Int /\ s <= m
  BY <1>1, LongestAreNat
<1> QED BY <1>2 DEF Bounded

\* A number no larger than one of the budgets is bounded.
LEMMA BudgetIsBounded ==
  ASSUME NEW m \in Longest, NEW s \in Int, s <= m
  PROVE  Bounded(s)
BY DEF Bounded

\* A stretch leaves at least ms and bounded deadlines.
LEMMA ExtendKeeps ==
  ASSUME MinutesInv, NEW ms \in AgentBudgets, Extend(ms)
  PROVE  /\ left' \in Nat /\ base' \in Nat \cup {Unset}
         /\ left' >= ms
         /\ StretchIsBounded'
<1>1. ms \in Nat /\ ms \in Longest /\ left \in Nat /\ base \in Nat \cup {Unset}
  BY LongestAreNat DEF MinutesInv, MinutesOK
<1>2. Bounded(left) /\ Bounded(base) /\ Bounded(ms)
  BY <1>1, BudgetIsBounded DEF MinutesInv, StretchIsBounded
<1>3. CASE left >= ms /\ left' = left /\ base' = base
  BY <1>1, <1>2, <1>3 DEF StretchIsBounded
<1>4. CASE base' = (IF base = Unset THEN left ELSE base) /\ left' = ms
  BY <1>1, <1>2, <1>4 DEF StretchIsBounded
<1> QED BY <1>3, <1>4 DEF Extend, Arm

\* A stretch arms the timer or leaves it as it was.
LEMMA ExtendArms ==
  ASSUME NEW ms, Extend(ms)
  PROVE  timer' = timer \/ timer' = TRUE
BY DEF Extend, Arm

\* Every step keeps the deadlines in range and below the longest budget.
LEMMA MinutesStep == MinutesInv /\ [StopNext]_stopVars => MinutesInv'
<1> SUFFICES ASSUME MinutesInv, [StopNext]_stopVars PROVE MinutesOK' /\ StretchIsBounded'
  BY DEF MinutesInv
<1>a. MinutesOK /\ Bounded(left) /\ Bounded(base)
  BY DEF MinutesInv, StretchIsBounded
<1>b. Bounded(Unset) /\ Bounded(0) /\ Bounded(TurnBudget) /\ Bounded(AfterAgent)
  BY BudgetIsBounded, LongestAreNat DEF Unset
<1>1. CASE Start
  <2>1. /\ left' = TurnBudget /\ base' = Unset /\ calls' = 0
        /\ budget' = TurnBudget /\ owed' = owed
    BY <1>1 DEF Start, Arm
  <2> QED BY <1>a, <1>b, <2>1 DEF MinutesOK, StretchIsBounded
<1>2. ASSUME NEW ms \in AgentBudgets, AgentBegin(ms)
      PROVE  MinutesOK' /\ StretchIsBounded'
  <2>1. calls' = calls + 1 /\ calls < MaxCalls /\ owed' = ms /\ budget' \in {0, budget}
    BY <1>2 DEF AgentBegin
  <2>2. left' \in Nat /\ base' \in Nat \cup {Unset} /\ StretchIsBounded'
    BY <1>2, ExtendKeeps DEF AgentBegin
  <2> QED BY <1>a, <2>1, <2>2 DEF MinutesOK
<1>3. CASE AgentEnd
  <2>1. /\ left' = Bigger(AfterAgent, IF base = Unset THEN 0 ELSE base)
        /\ base' = Unset /\ owed' = 0 /\ calls' = calls /\ budget' = budget
    BY <1>3 DEF AgentEnd, Reset, Arm
  <2>2. left' = AfterAgent \/ left' = 0 \/ (left' = base /\ base \in Nat)
    BY <1>a, <2>1 DEF Bigger, MinutesOK
  <2>3. MinutesOK'
    BY <1>a, <2>1, <2>2 DEF MinutesOK
  <2> QED BY <1>a, <1>b, <2>1, <2>2, <2>3 DEF StretchIsBounded
<1>4. CASE Fire
  BY <1>a, <1>4 DEF Fire, MinutesOK, StretchIsBounded
<1>5. CASE EndTurn
  <2>1. left' = 0 /\ base' = base /\ UNCHANGED <<calls, owed, budget>>
    BY <1>5 DEF EndTurn
  <2> QED BY <1>a, <1>b, <2>1 DEF MinutesOK, StretchIsBounded
<1>6. CASE Tick
  <2>1. /\ left' = Less(left) /\ base' = Less(base)
        /\ owed' = Less(owed) /\ budget' = Less(budget) /\ calls' = calls
    BY <1>6 DEF Tick
  <2>2. /\ left \in Int /\ left' \in Nat /\ left' <= left
        /\ base \in Int /\ base' \in Nat \cup {Unset} /\ base' \in Int /\ base' <= base
        /\ owed' \in Nat /\ budget' \in Nat
    BY <1>a, <2>1 DEF Less, MinutesOK, Unset
  <2>3. MinutesOK'
    BY <1>a, <2>1, <2>2 DEF MinutesOK
  <2>4. Bounded(left')
    BY <1>a, <2>2, SmallerIsBounded
  <2>5. Bounded(base')
    BY <1>a, <2>2, SmallerIsBounded
  <2> QED BY <2>3, <2>4, <2>5 DEF StretchIsBounded
<1>7. CASE UNCHANGED stopVars
  BY <1>a, <1>7 DEF stopVars, MinutesOK, StretchIsBounded
<1> QED BY <1>1, <1>2, <1>3, <1>4, <1>5, <1>6, <1>7 DEF StopNext

\* Every step keeps the turn armed and its agent call within it.
LEMMA FlagsStep == FlagsInv /\ [StopNext]_stopVars => FlagsInv'
<1> SUFFICES ASSUME FlagsInv, [StopNext]_stopVars PROVE FlagsInv'
  OBVIOUS
<1> USE DEF FlagsInv, FlagsOK, AlwaysArmed
<1>1. CASE Start
  <2>1. running' = TRUE /\ aborted' = FALSE /\ timer' = TRUE /\ agent' = agent
    BY <1>1 DEF Start, Arm
  <2> QED BY <2>1
<1>2. ASSUME NEW ms \in AgentBudgets, AgentBegin(ms) PROVE FlagsInv'
  <2>1. agent' = TRUE /\ running /\ running' = running /\ aborted' = aborted
    BY <1>2 DEF AgentBegin
  <2>2. timer' = timer \/ timer' = TRUE
    BY <1>2, ExtendArms DEF AgentBegin
  <2> QED BY <2>1, <2>2
<1>3. CASE AgentEnd
  <2>1. agent' = FALSE /\ running' = running /\ aborted' = aborted /\ timer' = TRUE
    BY <1>3 DEF AgentEnd, Reset, Arm
  <2> QED BY <2>1
<1>4. CASE Fire
  BY <1>4 DEF Fire
<1>5. CASE EndTurn
  BY <1>5 DEF EndTurn
<1>6. CASE Tick
  BY <1>6 DEF Tick
<1>7. CASE UNCHANGED stopVars
  BY <1>7 DEF stopVars
<1> QED BY <1>1, <1>2, <1>3, <1>4, <1>5, <1>6, <1>7 DEF StopNext

\* Every step leaves a current agent call the rest of its budget.
LEMMA OwedStep ==
  MinutesInv /\ FlagsInv /\ AgentRunGetsBudget /\ [StopNext]_stopVars => AgentRunGetsBudget'
<1> SUFFICES ASSUME MinutesInv, FlagsInv, AgentRunGetsBudget, [StopNext]_stopVars, agent'
             PROVE  left' >= owed'
  BY DEF AgentRunGetsBudget
<1> USE DEF AgentRunGetsBudget
<1>1. CASE Start
  BY <1>1 DEF Start, FlagsInv, FlagsOK
<1>2. ASSUME NEW ms \in AgentBudgets, AgentBegin(ms) PROVE left' >= owed'
  BY <1>2, ExtendKeeps DEF AgentBegin
<1>3. CASE AgentEnd
  BY <1>3 DEF AgentEnd
<1>4. CASE Fire
  BY <1>4 DEF Fire
<1>5. CASE EndTurn
  BY <1>5 DEF EndTurn
<1>6. CASE Tick
  <2>1. agent /\ left' = Less(left) /\ owed' = Less(owed)
    BY <1>6 DEF Tick
  <2>2. left \in Nat /\ owed \in Nat /\ left >= owed
    BY <2>1 DEF MinutesInv, MinutesOK
  <2> QED BY <2>1, <2>2 DEF Less
<1>7. CASE UNCHANGED stopVars
  BY <1>7 DEF stopVars
<1> QED BY <1>1, <1>2, <1>3, <1>4, <1>5, <1>6, <1>7 DEF StopNext

\* The first state satisfies the invariant.
LEMMA DeadlineStart == StopInit => FlagsInv /\ MinutesInv /\ AgentRunGetsBudget
<1> SUFFICES ASSUME StopInit PROVE FlagsInv /\ MinutesInv /\ AgentRunGetsBudget
  OBVIOUS
<1>1. FlagsInv
  BY DEF StopInit, FlagsInv, FlagsOK, AlwaysArmed
<1>2. MinutesInv
  BY LongestAreNat DEF StopInit, MinutesInv, MinutesOK, StretchIsBounded, Bounded, Unset
<1>3. AgentRunGetsBudget
  BY DEF StopInit, AgentRunGetsBudget
<1> QED BY <1>1, <1>2, <1>3

\* The inductive invariant holds of every behaviour: typed variables, a turn
\* that stays armed, an agent call that keeps its budget, bounded deadlines.
THEOREM DeadlineInvariant == StopSpec => []DeadlineInv
<1>1. DeadlineInv <=> FlagsInv /\ MinutesInv /\ AgentRunGetsBudget
  BY DEF DeadlineInv, FlagsInv, MinutesInv, StopTypeOK
<1> QED BY <1>1, DeadlineStart, MinutesStep, FlagsStep, OwedStep, PTL DEF StopSpec

\* Whatever the turn's budget and the agent's, an agent call in progress has
\* the rest of the time it asked for (extendTurnHardStop).
THEOREM AgentBudgetKept == StopSpec => []AgentRunGetsBudget
<1>1. DeadlineInv => AgentRunGetsBudget
  BY DEF DeadlineInv
<1> QED BY <1>1, DeadlineInvariant, PTL

\* A turn that has not been aborted has a timer pending (armTurnHardStop).
THEOREM TurnStaysArmed == StopSpec => []AlwaysArmed
<1>1. DeadlineInv => AlwaysArmed
  BY DEF DeadlineInv
<1> QED BY <1>1, DeadlineInvariant, PTL

\* However many agent calls a turn makes, no deadline of it is further away
\* than the longest single budget.
THEOREM StretchesDoNotAddUp == StopSpec => []StretchIsBounded
<1>1. DeadlineInv => StretchIsBounded
  BY DEF DeadlineInv
<1> QED BY <1>1, DeadlineInvariant, PTL

\* Every variable of the hard stop has its shape, and no agent call outlives
\* its turn.
THEOREM DeadlineTyped == StopSpec => []StopTypeOK
<1>1. DeadlineInv => StopTypeOK
  BY DEF DeadlineInv
<1> QED BY <1>1, DeadlineInvariant, PTL

-----------------------------------------------------------------------------
(* What is left of the turn's own budget is in `left` between agent calls  *)
(* and in `base` while one is stretching the turn.                         *)

Remembered ==
  /\ running /\ ~agent => base = Unset /\ left >= budget
  /\ agent /\ base = Unset => budget = 0
  /\ agent /\ base # Unset => base >= budget

\* Every step keeps the remembered budget within the deadline that holds it.
LEMMA RememberedStep ==
  MinutesInv /\ FlagsInv /\ Remembered /\ [StopNext]_stopVars => Remembered'
<1> SUFFICES ASSUME MinutesInv, FlagsInv, Remembered, [StopNext]_stopVars PROVE Remembered'
  OBVIOUS
<1>a. /\ left \in Nat /\ base \in Nat \cup {Unset} /\ budget \in Nat
      /\ agent => running
      /\ running \in BOOLEAN /\ agent \in BOOLEAN
  BY DEF MinutesInv, MinutesOK, FlagsInv, FlagsOK
<1>1. CASE Start
  <2>1. ~agent' /\ base' = Unset /\ left' = TurnBudget /\ budget' = TurnBudget
    BY <1>a, <1>1 DEF Start, Arm
  <2> QED BY <2>1 DEF Remembered
<1>2. ASSUME NEW ms \in AgentBudgets, AgentBegin(ms) PROVE Remembered'
  <2>1. /\ agent' /\ base = Unset /\ left >= budget
        /\ budget' = IF left >= ms THEN 0 ELSE budget
    BY <1>2 DEF AgentBegin, Remembered
  <2>2. CASE left >= ms
    <3>1. base' = base /\ budget' = 0
      BY <1>2, <2>1, <2>2, <1>a, LongestAreNat DEF AgentBegin, Extend
    <3> QED BY <2>1, <3>1 DEF Remembered
  <2>3. CASE ~(left >= ms)
    <3>1. base' = left /\ budget' = budget
      BY <1>2, <2>1, <2>3, <1>a DEF AgentBegin, Extend
    <3> QED BY <1>a, <2>1, <3>1 DEF Remembered, Unset
  <2> QED BY <2>2, <2>3
<1>3. CASE AgentEnd
  <2>1. /\ ~agent' /\ base' = Unset /\ budget' = budget /\ agent
        /\ left' = Bigger(AfterAgent, IF base = Unset THEN 0 ELSE base)
    BY <1>3 DEF AgentEnd, Reset, Arm
  <2>2. left' >= budget'
    BY <1>a, <2>1 DEF Remembered, Bigger, Unset
  <2> QED BY <2>1, <2>2 DEF Remembered
<1>4. CASE Fire
  BY <1>4 DEF Fire, Remembered
<1>5. CASE EndTurn
  BY <1>5 DEF EndTurn, Remembered
<1>6. CASE Tick
  <2>1. /\ UNCHANGED <<running, agent>>
        /\ left' = Less(left) /\ base' = Less(base) /\ budget' = Less(budget)
    BY <1>6 DEF Tick
  <2>2. /\ left >= budget => left' >= budget'
        /\ base # Unset /\ base >= budget => base' >= budget'
        /\ base' = Unset <=> base = Unset
        /\ budget = 0 => budget' = 0
    BY <1>a, <2>1 DEF Less, Unset
  <2> QED BY <2>1, <2>2 DEF Remembered
<1>7. CASE UNCHANGED stopVars
  BY <1>7 DEF stopVars, Remembered
<1> QED BY <1>1, <1>2, <1>3, <1>4, <1>5, <1>6, <1>7 DEF StopNext

\* For all budgets, a turn whose agent calls all stretched it has at least what
\* is left of its own budget after each of them (resetTurnHardStop).
THEOREM SnapBackKept == StopSpec => []SnapBackKeepsBudget
<1>1. StopInit => Remembered
  BY DEF StopInit, Remembered
<1>2. DeadlineInv <=> FlagsInv /\ MinutesInv /\ AgentRunGetsBudget
  BY DEF DeadlineInv, FlagsInv, MinutesInv, StopTypeOK
<1>3. Remembered => SnapBackKeepsBudget
  BY DEF Remembered, SnapBackKeepsBudget
<1> QED BY <1>1, <1>2, <1>3, RememberedStep, DeadlineInvariant, PTL DEF StopSpec
=============================================================================
