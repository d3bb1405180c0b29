-------------------------- MODULE AskMailboxProofs --------------------------
(***************************************************************************)
(* The question cards, for any number of turns, cards, people and agent    *)
(* runs.  AskInv is inductive as it stands: that the waiting card and the  *)
(* map agree is what lets a second answer find nothing to settle, and that *)
(* a card waits only in a running turn is what lets the end of one turn    *)
(* leave nothing behind for the next.                                      *)
(***************************************************************************)
EXTENDS AskMailbox, TLAPS

USE AskAssumption

Statuses == {"unasked", "waiting"} \cup Settled

\* What a settlement leaves of the cards: those of S that waited are settled,
\* the others as they were, and the map holds none of S.
LEMMA SettleKeeps ==
  ASSUME TypeOK, NEW S, NEW s \in Settled, Settle(S, s)
  PROVE  /\ status' \in [Cards -> Statuses]
         /\ pending' \in Cards \cup {None}
         /\ \A c \in Cards : status'[c] = IF c \in S /\ status[c] = "waiting"
                                          THEN s ELSE status[c]
         /\ pending' = IF pending \in S THEN None ELSE pending
<1>1. status' = [c \in Cards |-> IF c \in S /\ status[c] = "waiting" THEN s ELSE status[c]]
  BY DEF Settle
<1>2. status \in [Cards -> Statuses] /\ pending \in Cards \cup {None}
  BY DEF TypeOK, Statuses
<1>3. \A c \in Cards : (IF c \in S /\ status[c] = "waiting" THEN s ELSE status[c]) \in Statuses
  BY <1>2 DEF Statuses
<1> QED BY <1>1, <1>2, <1>3 DEF Settle

\* A settlement keeps the map and the waiting cards in step.
LEMMA SettleMatches ==
  ASSUME TypeOK, OneCardWaits, NEW S, NEW s \in Settled, Settle(S, s)
  PROVE  /\ OneCardWaits'
         /\ \A c \in Cards : status'[c] = "waiting" => status[c] = "waiting" /\ c \notin S
<1>1. \A c \in Cards : status'[c] = IF c \in S /\ status[c] = "waiting" THEN s ELSE status[c]
  BY SettleKeeps
<1>2. pending' = IF pending \in S THEN None ELSE pending
  BY SettleKeeps
<1>3. s # "waiting"
  BY DEF Settled
<1>4. \A c \in Cards : status'[c] = "waiting" <=> status[c] = "waiting" /\ c \notin S
  BY <1>1, <1>3
<1>5. \A c \in Cards : pending' = c <=> pending = c /\ c \notin S
  BY <1>2
<1> QED BY <1>4, <1>5 DEF OneCardWaits

\* What openAsk does to the cards.
LEMMA AskMoves ==
  ASSUME TypeOK, OneCardWaits, NEW c \in Cards, Ask(c)
  PROVE  /\ status' \in [Cards -> Statuses]
         /\ pending' = IF turn \in aborted THEN None ELSE c
         /\ status'[c] = IF turn \in aborted THEN "dismissed" ELSE "waiting"
         /\ \A x \in Cards \ {c} :
              status'[x] = IF status[x] = "waiting" THEN "dismissed" ELSE status[x]
<1> DEFINE cleared == [x \in Cards |-> IF x = pending THEN "dismissed" ELSE status[x]]
           s == IF turn \in aborted THEN "dismissed" ELSE "waiting"
<1>1. status' = [cleared EXCEPT ![c] = s] /\ pending' = (IF turn \in aborted THEN None ELSE c)
  BY DEF Ask
<1>2. status \in [Cards -> Statuses]
  BY DEF TypeOK, Statuses
<1>3. "dismissed" \in Statuses /\ s \in Statuses
  BY DEF Statuses, Settled
<1>4. cleared \in [Cards -> Statuses]
  BY <1>2, <1>3
<1>5. \A x \in Cards : cleared[x] = IF status[x] = "waiting" THEN "dismissed" ELSE status[x]
  BY DEF OneCardWaits
<1> HIDE DEF cleared, s
<1>6. status' \in [Cards -> Statuses]
  BY <1>1, <1>3, <1>4
<1>7. status'[c] = s /\ \A x \in Cards \ {c} : status'[x] = cleared[x]
  BY <1>1, <1>4
<1> QED BY <1>1, <1>5, <1>6, <1>7 DEF s

-----------------------------------------------------------------------------
\* The first state satisfies the invariant.
LEMMA AskStart == Init => AskInv
<1> SUFFICES ASSUME Init PROVE TypeOK /\ OneCardWaits /\ NoWaitOutlivesTurn /\ OkMeansHeard
  BY DEF AskInv
<1>1. TypeOK
  <2>1. runs \in 0..MaxRuns
    BY DEF Init
  <2>2. agent \in BOOLEAN
    BY DEF Init
  <2>3. pending \in Cards \cup {None}
    BY DEF Init
  <2>4. status \in [Cards -> {"unasked", "waiting"} \cup Settled]
    BY DEF Init
  <2> QED BY <2>1, <2>2, <2>3, <2>4 DEF Init, TypeOK
<1>2. OneCardWaits
  BY DEF Init, OneCardWaits
<1>3. NoWaitOutlivesTurn
  BY DEF Init, NoWaitOutlivesTurn
<1>4. OkMeansHeard
  BY DEF Init, OkMeansHeard
<1> QED BY <1>1, <1>2, <1>3, <1>4

\* Every step keeps the variables in their shape.
LEMMA AskTypes == AskInv /\ [Next]_vars => TypeOK'
<1> SUFFICES ASSUME TypeOK, OneCardWaits, [Next]_vars PROVE TypeOK'
  BY DEF AskInv
<1>a. "dismissed" \in Settled /\ "expired" \in Settled /\ "answered" \in Settled
  BY DEF Settled
<1>1. ASSUME NEW t \in Turns, StartTurn(t) PROVE TypeOK'
  BY <1>1 DEF StartTurn, TypeOK, route
<1>2. CASE AgentBegin
  <2>1. runs' \in 0..MaxRuns
    BY <1>2 DEF AgentBegin, TypeOK
  <2>2. agent' \in BOOLEAN
    BY <1>2 DEF AgentBegin
  <2>3. UNCHANGED <<turn, over, aborted, pending, status, asker, route, heard>>
    BY <1>2 DEF AgentBegin
  <2> QED BY <2>1, <2>2, <2>3 DEF TypeOK, route
<1>3. CASE AgentEnd
  BY <1>3 DEF AgentEnd, TypeOK, route
<1>4. CASE Abort
  <2>1. status' \in [Cards -> Statuses] /\ pending' \in Cards \cup {None}
    BY <1>4, <1>a, SettleKeeps DEF Abort
  <2> QED BY <1>4, <2>1 DEF Abort, TypeOK, route, Statuses
<1>5. CASE EndTurn
  <2>1. status' \in [Cards -> Statuses] /\ pending' \in Cards \cup {None}
    BY <1>5, <1>a, SettleKeeps DEF EndTurn
  <2> QED BY <1>5, <2>1 DEF EndTurn, TypeOK, route, Statuses
<1>6. ASSUME NEW c \in Cards, Ask(c) PROVE TypeOK'
  <2>1. status' \in [Cards -> Statuses] /\ pending' \in Cards \cup {None}
    BY <1>6, AskMoves
  <2>2. turn \in Turns
    BY <1>6 DEF Ask, MayAsk, TypeOK
  <2> QED BY <1>6, <2>1, <2>2 DEF Ask, TypeOK, turns, route, Statuses
<1>7. ASSUME NEW c \in Cards, Expire(c) PROVE TypeOK'
  <2>1. status' \in [Cards -> Statuses] /\ pending' \in Cards \cup {None}
    BY <1>7, <1>a, SettleKeeps DEF Expire
  <2> QED BY <1>7, <2>1 DEF Expire, TypeOK, turns, route, Statuses
<1>8. ASSUME NEW a \in Answers, Peek(a) PROVE TypeOK'
  BY <1>8 DEF Peek, TypeOK, turns
<1>9. ASSUME NEW a \in Answers, Save(a) PROVE TypeOK'
  BY <1>9 DEF Save, TypeOK, turns
<1>10. ASSUME NEW a \in Answers, Deliver(a) PROVE TypeOK'
  <2>1. CardOf[a] \in Cards
    OBVIOUS
  <2>2. status' \in [Cards -> Statuses] /\ pending' \in Cards \cup {None}
    BY <1>10, <1>a, <2>1, SettleKeeps DEF Deliver, TypeOK, Statuses
  <2>3. /\ stage' \in [Answers -> {"typed", "looked", "saved", "delivered", "late", "stale"}]
        /\ heard' \in [Cards -> Answers \cup {None}]
    BY <1>10, <2>1 DEF Deliver, TypeOK
  <2> QED BY <1>10, <2>2, <2>3 DEF Deliver, TypeOK, turns, Statuses
<1>11. CASE UNCHANGED vars
  BY <1>11 DEF vars, TypeOK
<1> QED BY <1>1, <1>2, <1>3, <1>4, <1>5, <1>6, <1>7, <1>8, <1>9, <1>10, <1>11 DEF Next

\* Every step keeps the map and the waiting cards in step, and every waiting
\* card within its running turn.
LEMMA AskWaits == AskInv /\ [Next]_vars => OneCardWaits' /\ NoWaitOutlivesTurn'
<1> SUFFICES ASSUME TypeOK, OneCardWaits, NoWaitOutlivesTurn, [Next]_vars
             PROVE  OneCardWaits' /\ NoWaitOutlivesTurn'
  BY DEF AskInv
<1>a. "dismissed" \in Settled /\ "expired" \in Settled /\ "answered" \in Settled
  BY DEF Settled
<1>1. ASSUME NEW t \in Turns, StartTurn(t) PROVE OneCardWaits' /\ NoWaitOutlivesTurn'
  BY <1>1 DEF StartTurn, OneCardWaits, NoWaitOutlivesTurn
<1>2. CASE AgentBegin
  BY <1>2 DEF AgentBegin, OneCardWaits, NoWaitOutlivesTurn
<1>3. CASE AgentEnd
  BY <1>3 DEF AgentEnd, OneCardWaits, NoWaitOutlivesTurn
<1>4. CASE Abort
  <2>1. /\ OneCardWaits'
        /\ \A c \in Cards : status'[c] = "waiting" => status[c] = "waiting" /\ asker[c] # turn
    BY <1>4, <1>a, SettleMatches DEF Abort
  <2> QED BY <2>1 DEF NoWaitOutlivesTurn
<1>5. CASE EndTurn
  <2>1. /\ OneCardWaits'
        /\ \A c \in Cards : status'[c] = "waiting" => status[c] = "waiting" /\ c # pending
    BY <1>5, <1>a, SettleMatches DEF EndTurn
  <2> QED BY <2>1 DEF NoWaitOutlivesTurn, OneCardWaits
<1>6. ASSUME NEW c \in Cards, Ask(c) PROVE OneCardWaits' /\ NoWaitOutlivesTurn'
  <2>1. /\ pending' = IF turn \in aborted THEN None ELSE c
        /\ status'[c] = IF turn \in aborted THEN "dismissed" ELSE "waiting"
        /\ \A x \in Cards \ {c} :
             status'[x] = IF status[x] = "waiting" THEN "dismissed" ELSE status[x]
    BY <1>6, AskMoves
  <2>2. /\ turn # None /\ turn' = turn /\ aborted' = aborted
        /\ asker' = [asker EXCEPT ![c] = turn]
    BY <1>6 DEF Ask, MayAsk, turns
  <2>3. asker'[c] = turn
    BY <2>2 DEF TypeOK
  <2>4. \A x \in Cards \ {c} : status'[x] # "waiting"
    BY <2>1
  <2> QED BY <2>1, <2>2, <2>3, <2>4 DEF OneCardWaits, NoWaitOutlivesTurn
<1>7. ASSUME NEW c \in Cards, Expire(c) PROVE OneCardWaits' /\ NoWaitOutlivesTurn'
  <2>1. OneCardWaits' /\ \A x \in Cards : status'[x] = "waiting" => status[x] = "waiting"
    BY <1>7, <1>a, SettleMatches DEF Expire
  <2> QED BY <1>7, <2>1 DEF Expire, turns, NoWaitOutlivesTurn
<1>8. ASSUME NEW a \in Answers, Peek(a) PROVE OneCardWaits' /\ NoWaitOutlivesTurn'
  BY <1>8 DEF Peek, turns, OneCardWaits, NoWaitOutlivesTurn
<1>9. ASSUME NEW a \in Answers, Save(a) PROVE OneCardWaits' /\ NoWaitOutlivesTurn'
  BY <1>9 DEF Save, turns, OneCardWaits, NoWaitOutlivesTurn
<1>10. ASSUME NEW a \in Answers, Deliver(a) PROVE OneCardWaits' /\ NoWaitOutlivesTurn'
  <2>1. CASE Settle({CardOf[a]}, "answered")
    <3>1. OneCardWaits' /\ \A x \in Cards : status'[x] = "waiting" => status[x] = "waiting"
      BY <2>1, <1>a, SettleMatches
    <3> QED BY <1>10, <3>1 DEF Deliver, turns, NoWaitOutlivesTurn
  <2>2. CASE UNCHANGED <<pending, status>>
    BY <1>10, <2>2 DEF Deliver, turns, OneCardWaits, NoWaitOutlivesTurn
  <2> QED BY <1>10, <2>1, <2>2 DEF Deliver
<1>11. CASE UNCHANGED vars
  BY <1>11 DEF vars, OneCardWaits, NoWaitOutlivesTurn
<1> QED BY <1>1, <1>2, <1>3, <1>4, <1>5, <1>6, <1>7, <1>8, <1>9, <1>10, <1>11 DEF Next

\* No step changes a settled card, or who it heard.
LEMMA SettledStays ==
  ASSUME AskInv, [Next]_vars, NEW c \in Cards, status[c] \in Settled
  PROVE  status'[c] = status[c] /\ heard'[c] = heard[c]
<1>a. TypeOK /\ OneCardWaits /\ status[c] # "waiting" /\ status[c] # "unasked" /\ pending # c
  BY DEF AskInv, OneCardWaits, Settled
<1>b. "dismissed" \in Settled /\ "expired" \in Settled /\ "answered" \in Settled
  BY DEF Settled
<1>c. ASSUME NEW S, NEW s \in Settled, Settle(S, s) PROVE status'[c] = status[c]
  BY <1>a, <1>c, SettleKeeps
<1>1. ASSUME NEW t \in Turns, StartTurn(t) PROVE UNCHANGED <<status, heard>>
  BY <1>1 DEF StartTurn
<1>2. CASE AgentBegin
  BY <1>2 DEF AgentBegin
<1>3. CASE AgentEnd
  BY <1>3 DEF AgentEnd
<1>4. CASE Abort
  BY <1>4, <1>b, <1>c DEF Abort
<1>5. CASE EndTurn
  BY <1>5, <1>b, <1>c DEF EndTurn
<1>6. ASSUME NEW x \in Cards, Ask(x) PROVE status'[c] = status[c] /\ heard'[c] = heard[c]
  <2>1. x # c /\ heard' = heard
    BY <1>6, <1>a DEF Ask, MayAsk
  <2> QED BY <1>6, <1>a, <2>1, AskMoves
<1>7. ASSUME NEW x \in Cards, Expire(x) PROVE status'[c] = status[c] /\ heard'[c] = heard[c]
  BY <1>7, <1>b, <1>c DEF Expire
<1>8. ASSUME NEW a \in Answers, Peek(a) PROVE UNCHANGED <<status, heard>>
  BY <1>8 DEF Peek
<1>9. ASSUME NEW a \in Answers, Save(a) PROVE UNCHANGED <<status, heard>>
  BY <1>9 DEF Save
<1>10. ASSUME NEW a \in Answers, Deliver(a) PROVE status'[c] = status[c] /\ heard'[c] = heard[c]
  <2>1. CASE /\ pending = CardOf[a] /\ Settle({CardOf[a]}, "answered")
             /\ heard' = [heard EXCEPT ![CardOf[a]] = a]
    <3>1. c # CardOf[a]
      BY <1>a, <2>1
    <3> QED BY <1>a, <1>b, <1>c, <2>1, <3>1 DEF TypeOK
  <2>2. CASE UNCHANGED <<status, heard>>
    BY <2>2
  <2> QED BY <1>10, <2>1, <2>2 DEF Deliver
<1>11. CASE UNCHANGED vars
  BY <1>11 DEF vars
<1> QED BY <1>1, <1>2, <1>3, <1>4, <1>5, <1>6, <1>7, <1>8, <1>9, <1>10, <1>11 DEF Next

\* Every step keeps "ok: true" the truth: what a tool heard is told to the one
\* who said it, and to nobody else.
LEMMA AskHears == AskInv /\ [Next]_vars => OkMeansHeard'
<1> SUFFICES ASSUME AskInv, [Next]_vars PROVE OkMeansHeard'
  OBVIOUS
<1>a. TypeOK /\ OneCardWaits /\ OkMeansHeard
  BY DEF AskInv
<1>b. "dismissed" \in Settled /\ "expired" \in Settled /\ "answered" \in Settled
  BY DEF Settled
<1>c. ASSUME UNCHANGED <<stage, heard>>,
             \A c \in Cards : status'[c] = "answered" <=> status[c] = "answered"
      PROVE  OkMeansHeard'
  BY <1>a, <1>c DEF OkMeansHeard
<1>d. ASSUME NEW S, NEW s \in {"dismissed", "expired"}, Settle(S, s), UNCHANGED <<stage, heard>>
      PROVE  OkMeansHeard'
  <2>1. \A c \in Cards : status'[c] = IF c \in S /\ status[c] = "waiting" THEN s ELSE status[c]
    BY <1>a, <1>b, <1>d, SettleKeeps
  <2> QED BY <1>c, <1>d, <2>1
<1>1. ASSUME NEW t \in Turns, StartTurn(t) PROVE OkMeansHeard'
  BY <1>1, <1>c DEF StartTurn, route
<1>2. CASE AgentBegin
  BY <1>2, <1>c DEF AgentBegin, route
<1>3. CASE AgentEnd
  BY <1>3, <1>c DEF AgentEnd, route
<1>4. CASE Abort
  BY <1>4, <1>d DEF Abort, route
<1>5. CASE EndTurn
  BY <1>5, <1>d DEF EndTurn, route
<1>6. ASSUME NEW c \in Cards, Ask(c) PROVE OkMeansHeard'
  <2>1. status[c] = "unasked" /\ UNCHANGED <<stage, heard>>
    BY <1>6 DEF Ask, MayAsk, route
  <2>2. \A x \in Cards : status'[x] = "answered" <=> status[x] = "answered"
    BY <1>6, <1>a, <2>1, AskMoves
  <2> QED BY <1>c, <2>1, <2>2
<1>7. ASSUME NEW c \in Cards, Expire(c) PROVE OkMeansHeard'
  BY <1>7, <1>d DEF Expire, route
<1>8. ASSUME NEW a \in Answers, Peek(a) PROVE OkMeansHeard'
  <2>1. /\ stage[a] = "typed" /\ UNCHANGED <<status, heard>>
        /\ stage' = [stage EXCEPT ![a] = IF pending = CardOf[a] THEN "looked" ELSE "stale"]
    BY <1>8 DEF Peek
  <2>2. stage'[a] # "delivered" /\ \A b \in Answers \ {a} : stage'[b] = stage[b]
    BY <1>a, <2>1 DEF TypeOK
  <2> QED BY <1>a, <2>1, <2>2 DEF OkMeansHeard
<1>9. ASSUME NEW a \in Answers, Save(a) PROVE OkMeansHeard'
  <2>1. /\ stage[a] = "looked" /\ UNCHANGED <<status, heard>>
        /\ stage' = [stage EXCEPT ![a] = "saved"]
    BY <1>9 DEF Save
  <2>2. stage'[a] # "delivered" /\ \A b \in Answers \ {a} : stage'[b] = stage[b]
    BY <1>a, <2>1 DEF TypeOK
  <2> QED BY <1>a, <2>1, <2>2 DEF OkMeansHeard
<1>10. ASSUME NEW a \in Answers, Deliver(a) PROVE OkMeansHeard'
  <2> DEFINE c == CardOf[a]
  <2>0. c \in Cards /\ stage[a] = "saved"
    BY <1>10 DEF Deliver
  <2>1. CASE /\ pending = c /\ Settle({c}, "answered")
             /\ stage' = [stage EXCEPT ![a] = "delivered"]
             /\ heard' = [heard EXCEPT ![c] = a]
    <3>1. status[c] = "waiting" /\ heard[c] = None
      BY <1>a, <2>0, <2>1 DEF OneCardWaits, OkMeansHeard, TypeOK
    <3>2. status'[c] = "answered" /\ \A x \in Cards \ {c} : status'[x] = status[x]
      BY <1>a, <1>b, <2>0, <2>1, <3>1, SettleKeeps
    <3>3. heard'[c] = a /\ \A x \in Cards \ {c} : heard'[x] = heard[x]
      BY <1>a, <2>0, <2>1 DEF TypeOK
    <3>4. stage'[a] = "delivered" /\ \A b \in Answers \ {a} : stage'[b] = stage[b]
      BY <1>a, <2>1 DEF TypeOK
    <3>5. \A b \in Answers : stage'[b] = "delivered" <=> heard'[CardOf[b]] = b
      <4> SUFFICES ASSUME NEW b \in Answers
                   PROVE  stage'[b] = "delivered" <=> heard'[CardOf[b]] = b
        OBVIOUS
      <4>1. CardOf[b] \in Cards
        OBVIOUS
      <4>2. CASE b = a
        BY <3>3, <3>4, <4>2
      <4>3. CASE b # a /\ CardOf[b] = c
        BY <1>a, <3>1, <3>3, <3>4, <4>3 DEF OkMeansHeard
      <4>4. CASE b # a /\ CardOf[b] # c
        BY <1>a, <3>3, <3>4, <4>1, <4>4 DEF OkMeansHeard
      <4> QED BY <4>2, <4>3, <4>4
    <3>6. \A x \in Cards : status'[x] = "answered" <=> heard'[x] # None
      BY <1>a, <3>2, <3>3 DEF OkMeansHeard
    <3> QED BY <3>5, <3>6 DEF OkMeansHeard
  <2>2. CASE /\ stage' = [stage EXCEPT ![a] = "late"]
             /\ UNCHANGED <<status, heard>>
    <3>1. stage'[a] # "delivered" /\ \A b \in Answers \ {a} : stage'[b] = stage[b]
      BY <1>a, <2>2 DEF TypeOK
    <3> QED BY <1>a, <2>0, <2>2, <3>1 DEF OkMeansHeard
  <2> QED BY <1>10, <2>1, <2>2 DEF Deliver
<1>11. CASE UNCHANGED vars
  BY <1>11, <1>c DEF vars
<1> QED BY <1>1, <1>2, <1>3, <1>4, <1>5, <1>6, <1>7, <1>8, <1>9, <1>10, <1>11 DEF Next

-----------------------------------------------------------------------------
\* The inductive invariant holds of every behaviour.
THEOREM AskInvariant == Spec => []AskInv
<1>1. AskInv /\ [Next]_vars => AskInv'
  BY AskTypes, AskWaits, AskHears DEF AskInv
<1> QED BY <1>1, AskStart, PTL DEF Spec

\* However many cards an agent opens at once and however its turns end, the
\* card an answer can reach is the only one that waits (openAsk).
THEOREM OneWaits == Spec => []OneCardWaits
<1>1. AskInv => OneCardWaits
  BY DEF AskInv
<1> QED BY <1>1, AskInvariant, PTL

\* No card waits for a turn that has ended or was stopped (dismissAsk).
THEOREM WaitEndsWithTurn == Spec => []NoWaitOutlivesTurn
<1>1. AskInv => NoWaitOutlivesTurn
  BY DEF AskInv
<1> QED BY <1>1, AskInvariant, PTL

\* Of any number of racing answers, exactly the one told "ok: true" was heard
\* (settleAsk looks again after the route's queries).
THEOREM OkIsTruth == Spec => []OkMeansHeard
<1>1. AskInv => OkMeansHeard
  BY DEF AskInv
<1> QED BY <1>1, AskInvariant, PTL

\* A settled card stays as it was settled (settle runs once).
THEOREM SettledForGood == Spec => SettledOnce
<1>1. AskInv /\ [Next]_vars =>
        [\A c \in Cards : status[c] \in Settled =>
            status'[c] = status[c] /\ heard'[c] = heard[c]]_vars
  BY SettledStays
<1> QED BY <1>1, AskInvariant, PTL DEF Spec, SettledOnce

\* Every variable of the mailbox has its shape.
THEOREM AskTyped == Spec => []TypeOK
<1>1. AskInv => TypeOK
  BY DEF AskInv
<1> QED BY <1>1, AskInvariant, PTL
=============================================================================
