--------------------------- MODULE ChatTurnProofs ---------------------------
(***************************************************************************)
(* The conversation, for any people, messages, retries, cap and budget,    *)
(* with failures, drains, removals and deletes allowed unless a theorem    *)
(* says otherwise.  The inductive invariant is ChatInv, proved in two      *)
(* halves: TypeInv (types, the words a splicing turn has in hand, the      *)
(* rounds a turn still has) and WaitInv, which says who waits and who      *)
(* runs.  RegistryOwnsRunner alone is not inductive: the end of a turn     *)
(* starts the queue's head, so the queue must hold only waiting messages,  *)
(* each once, and the same must hold of what the mailbox and the 409 can   *)
(* put back.  On top of it stand the copies of a message (CopyStep sorts   *)
(* the steps by what they do to them), the thread (RowStep) and the rows   *)
(* an edit deletes (CutStep), each with an invariant of its own.           *)
(***************************************************************************)
EXTENDS ChatTurn, FiniteSetTheorems, TLAPS

\* Excluding keeps an entry or leaves it out, in the order they stood: what is
\* left is of the same type, holds nothing of S, and repeats nothing q did not.
LEMMA ListingExcluded ==
  ASSUME NEW T, NEW q \in Seq(T), NEW S, NEW t \in Excluding(q, S)
  PROVE  /\ t \in Seq(T)
         /\ \A i \in DOMAIN t : \E j \in DOMAIN q : t[i] = q[j] /\ q[j] \notin S
         /\ (\A i, j \in DOMAIN q : q[i] = q[j] => i = j)
              => \A i, j \in DOMAIN t : t[i] = t[j] => i = j
<1> DEFINE P == {i \in DOMAIN q : q[i] \notin S}
           n == Cardinality(P)
<1>1. PICK f \in Listings(P) : t = [k \in DOMAIN f |-> q[f[k]]]
  BY DEF Excluding
<1>2. n \in Nat
  <2>1. IsFiniteSet(1..Len(q))
    BY FS_Interval
  <2>2. P \subseteq 1..Len(q)
    OBVIOUS
  <2> QED BY <2>1, <2>2, FS_Subset, FS_CardinalityType
<1>3. f \in [1..n -> P] /\ \A j, k \in DOMAIN f : j < k => f[j] < f[k]
  BY DEF Listings
<1> HIDE DEF n
<1>4. DOMAIN f = 1..n /\ \A k \in 1..n : f[k] \in P
  BY <1>3
<1>5. t = [k \in 1..n |-> q[f[k]]]
  BY <1>1, <1>4
<1>6. \A k \in 1..n : f[k] \in DOMAIN q /\ f[k] \in Nat /\ q[f[k]] \in T /\ q[f[k]] \notin S
  BY <1>4
<1> HIDE DEF P
<1>7. t \in Seq(T) /\ DOMAIN t = 1..n
  BY <1>2, <1>5, <1>6
<1>8. \A i, j \in 1..n : f[i] = f[j] => i = j
  BY <1>2, <1>3, <1>4, <1>6
<1>9. \A k \in 1..n : t[k] = q[f[k]]
  BY <1>5
<1>10. ASSUME \A i, j \in DOMAIN q : q[i] = q[j] => i = j,
              NEW i \in DOMAIN t, NEW j \in DOMAIN t, t[i] = t[j]
       PROVE  i = j
  <2>1. f[i] = f[j]
    BY <1>6, <1>7, <1>9, <1>10
  <2> QED BY <1>7, <1>8, <1>10, <2>1
<1> QED BY <1>6, <1>7, <1>9, <1>10

-----------------------------------------------------------------------------
(* Moving a call from stage to stage *)

\* No call enters a stage that comes with obligations of its own.
Calm ==
  /\ StageOK'
  /\ \A x \in Calls : stage'[x] \in {"splice", "announce", "tools"} => stage'[x] = stage[x]

\* Moving a call to a stage without obligations is calm.
LEMMA GoCalm ==
  ASSUME StageOK, NEW c \in Calls, NEW s \in Stages, Go(c, s),
         s \notin {"splice", "announce", "tools"}
  PROVE  Calm
BY DEF StageOK, Go, Calm

\* What runNextQueued does to the stages and the queue: nothing, or the head
\* leaves the queue, for a turn of its own or dropped.
Shifted(st) ==
  \/ stage' = st /\ queue' = queue
  \/ /\ queue # <<>>
     /\ queue' = Tail(queue)
     /\ \E s \in {"start", "dropped"} : stage' = [st EXCEPT ![Head(queue)] = s]

\* runNextQueued shifts, whatever the stages it starts from.
LEMMA RunNextShifts ==
  ASSUME NEW st \in [Calls -> Stages], NEW busy, RunNextQueued(st, busy), LineupOK
  PROVE  /\ Shifted(st)
         /\ StageOK'
         /\ LineupOK'
<1>1. {"start", "dropped"} \subseteq Stages
  BY DEF Stages, Starting, Over
<1>2. queue # <<>> => Head(queue) \in Msgs /\ Tail(queue) \in Seq(Msgs)
  BY DEF LineupOK
<1> QED BY <1>1, <1>2 DEF RunNextQueued, Shifted, Calls, lineup, StageOK, LineupOK

\* A shift is calm when the stages it starts from are.
LEMMA ShiftCalm ==
  ASSUME NEW st \in [Calls -> Stages], Shifted(st), LineupOK, StageOK',
         \A x \in Calls : st[x] \in {"splice", "announce", "tools"} => st[x] = stage[x]
  PROVE  Calm
<1>1. queue # <<>> => Head(queue) \in Calls
  BY DEF LineupOK, Calls
<1> QED BY <1>1 DEF Shifted, Calm

\* Refusing a call names it refused or told and shifts from there.
LEMMA RefuseShifts ==
  ASSUME NEW c \in Calls, Refuse(c), StageOK, LineupOK
  PROVE  /\ \E s \in {"refused", "told"} : Shifted([stage EXCEPT ![c] = s])
         /\ Calm
         /\ LineupOK'
<1>1. {"refused", "told"} \subseteq Stages
  BY DEF Stages, Over
<1>2. CASE c \notin scheduled /\ Go(c, "refused") /\ UNCHANGED lineup
  <2>1. Calm
    BY <1>1, <1>2, GoCalm
  <2> QED BY <1>2, <2>1 DEF Go, lineup, Shifted, LineupOK
<1>3. CASE c \in scheduled /\ RunNextQueued([stage EXCEPT ![c] = "told"], HasActiveTurn)
  <2> DEFINE st == [stage EXCEPT ![c] = "told"]
  <2>1. st \in [Calls -> Stages]
    BY <1>1 DEF StageOK
  <2>2. Shifted(st) /\ StageOK' /\ LineupOK'
    BY <1>3, <2>1, RunNextShifts
  <2>3. \A x \in Calls : st[x] \in {"splice", "announce", "tools"} => st[x] = stage[x]
    BY DEF StageOK
  <2>4. Calm
    BY <2>1, <2>2, <2>3, ShiftCalm
  <2> QED BY <2>2, <2>4
<1> QED BY <1>2, <1>3 DEF Refuse

\* The 409 of startTurn is calm.
LEMMA Refuse409Calm ==
  ASSUME NEW c \in Calls, Refuse409(c), StageOK, LineupOK
  PROVE  Calm /\ LineupOK'
<1>1. {"refused", "queued"} \subseteq Stages
  BY DEF Stages, Over
<1>2. Calm
  BY <1>1, GoCalm DEF Refuse409
<1>3. CASE UNCHANGED queue
  BY <1>2, <1>3 DEF Refuse409, LineupOK
<1>4. CASE c \in scheduled /\ queue' = <<c>> \o queue
  <2>1. <<c>> \in Seq(Msgs)
    BY <1>4 DEF LineupOK
  <2> QED BY <1>2, <1>4, <2>1 DEF Refuse409, LineupOK
<1> QED BY <1>2, <1>3, <1>4 DEF Refuse409

\* The finally of a runner is calm.
LEMMA EndRunnerCalm ==
  ASSUME NEW c \in Calls, EndRunner(c), StageOK, LineupOK
  PROVE  Calm /\ LineupOK'
<1> DEFINE st == [x \in Calls |-> IF x = c THEN "ended"
                                  ELSE IF x \in Range(box) /\ stage[x] = "offered" THEN "dropped"
                                  ELSE stage[x]]
<1>1. {"ended", "dropped"} \subseteq Stages
  BY DEF Stages, Over
<1>2. st \in [Calls -> Stages]
  BY <1>1 DEF StageOK
<1>3. \A x \in Calls : st[x] \in {"splice", "announce", "tools"} => st[x] = stage[x]
  OBVIOUS
<1>4. RunNextQueued(st, FALSE)
  BY DEF EndRunner
<1> HIDE DEF st
<1>5. Shifted(st) /\ StageOK' /\ LineupOK'
  BY <1>2, <1>4, RunNextShifts
<1> QED BY <1>2, <1>3, <1>5, ShiftCalm

-----------------------------------------------------------------------------
(* Type correctness *)

TypeInv == TypeOK /\ WordsInHand /\ BudgetLeft

\* The first state is well typed.
LEMMA TypeStart == Init => TypeInv
<1> SUFFICES ASSUME Init PROVE TypeInv
  OBVIOUS
<1> USE ChatAssumption DEF Init, Calls
<1>1. StageOK
  BY DEF StageOK, Stages, Over
<1>2. DbOK
  BY DEF DbOK, Row
<1>3. CallsOK
  BY DEF CallsOK
<1>4. RegistryOK
  BY DEF RegistryOK
<1>5. LineupOK /\ MailboxOK
  <2>1. <<>> \in Seq(Msgs)
    OBVIOUS
  <2> QED BY <2>1 DEF LineupOK, MailboxOK
<1>6. ControlOK
  BY DEF ControlOK
<1>7. HistoryOK
  BY DEF HistoryOK
<1>8. WordsInHand /\ BudgetLeft
  BY DEF WordsInHand, BudgetLeft
<1> QED BY <1>1, <1>2, <1>3, <1>4, <1>5, <1>6, <1>7, <1>8 DEF TypeInv, TypeOK

\* What an action leaves alone keeps its type.
LEMMA TypeFrame ==
  ASSUME TypeInv
  PROVE  /\ UNCHANGED db => DbOK'
         /\ UNCHANGED calls => CallsOK'
         /\ UNCHANGED registry => RegistryOK'
         /\ UNCHANGED lineup => LineupOK'
         /\ UNCHANGED mailbox => MailboxOK'
         /\ UNCHANGED control => ControlOK'
         /\ UNCHANGED history => HistoryOK'
         /\ UNCHANGED stage => Calm
         /\ UNCHANGED taken /\ Calm => WordsInHand'
         /\ UNCHANGED round /\ Calm => BudgetLeft'
<1> USE DEF TypeInv, TypeOK
<1>1. /\ UNCHANGED db => DbOK'
      /\ UNCHANGED calls => CallsOK'
      /\ UNCHANGED registry => RegistryOK'
  BY DEF db, calls, registry, DbOK, CallsOK, RegistryOK
<1>2. /\ UNCHANGED lineup => LineupOK'
      /\ UNCHANGED mailbox => MailboxOK'
      /\ UNCHANGED control => ControlOK'
      /\ UNCHANGED history => HistoryOK'
  BY DEF lineup, mailbox, control, history, LineupOK, MailboxOK, ControlOK, HistoryOK
<1>3. UNCHANGED stage => Calm
  BY DEF Calm, StageOK
<1>4. UNCHANGED taken /\ Calm => WordsInHand'
  BY DEF Calm, WordsInHand
<1>5. UNCHANGED round /\ Calm => BudgetLeft'
  BY DEF Calm, BudgetLeft
<1> QED BY <1>1, <1>2, <1>3, <1>4, <1>5

\* Every step keeps the types, the words in hand and the round budget.
LEMMA TypeStep ==
  ASSUME TypeInv, [Next]_vars
  PROVE  TypeInv'
<1> USE DEF TypeInv, TypeOK
<1>s. /\ {"auth", "start", "load", "cut", "cutvoid", "write", "register", "publish"} \subseteq Stages
      /\ {"prepare", "model", "tools", "splice", "announce", "save", "close"} \subseteq Stages
      /\ {"ended", "joined", "refused", "withdrawn", "crashed", "leaked"} \subseteq Stages
      /\ {"typed", "lookup", "queued", "offered"} \subseteq Stages
  BY DEF Stages, Starting, Live, Hosting, Over
<1>e. <<>> \in Seq(Msgs)
  OBVIOUS
<1>1. ASSUME NEW c \in Calls, SendChat(c)
      PROVE  TypeInv'
  <2>1. Calm
    BY <1>1, <1>s, GoCalm DEF SendChat
  <2>2. CallsOK'
    <3>1. CASE c \in Edits
      <4>1. PICK r \in rows : doomed' = [doomed EXCEPT ![c] = {r}]
        BY <1>1, <3>1 DEF SendChat
      <4>2. {r} \in SUBSET Row
        BY DEF DbOK
      <4> QED BY <1>1, <4>1, <4>2 DEF SendChat, CallsOK
    <3> QED BY <1>1, <3>1 DEF SendChat, CallsOK
  <2> QED BY <1>1, <2>1, <2>2, TypeFrame DEF SendChat, calls, Calm
<1>2. ASSUME NEW c \in Calls, EnterTurn(c)
      PROVE  TypeInv'
  <2>1. Calm
    BY <1>2, <1>s, GoCalm DEF EnterTurn
  <2> QED BY <1>2, <2>1, TypeFrame DEF EnterTurn, calls, Calm
<1>3. ASSUME NEW c \in Calls, CheckAccess(c)
      PROVE  TypeInv'
  <2>1. Calm /\ LineupOK'
    BY <1>3, <1>s, GoCalm, RefuseShifts DEF CheckAccess, lineup, LineupOK
  <2> QED BY <1>3, <2>1, TypeFrame DEF CheckAccess, calls, Calm
<1>4. ASSUME NEW c \in Calls, LoadThread(c)
      PROVE  TypeInv'
  <2>1. Calm /\ LineupOK'
    BY <1>4, <1>s, GoCalm, RefuseShifts DEF LoadThread, lineup, LineupOK
  <2>2. CallsOK'
    BY <1>4 DEF LoadThread, CallsOK, DbOK, Trailing
  <2> QED BY <1>4, <2>1, <2>2, TypeFrame DEF LoadThread, calls, Calm
<1>5. ASSUME NEW c \in Calls, CutThread(c)
      PROVE  TypeInv'
  <2>1. Calm /\ LineupOK'
    BY <1>5, <1>s, GoCalm, RefuseShifts DEF CutThread, lineup, LineupOK
  <2>2. DbOK'
    BY <1>5 DEF CutThread, DbOK
  <2>3. CallsOK'
    BY <1>5 DEF CutThread, CallsOK, DbOK
  <2> QED BY <1>5, <2>1, <2>2, <2>3, TypeFrame DEF CutThread, calls, Calm
<1>6. ASSUME NEW c \in Calls, WriteUser(c)
      PROVE  TypeInv'
  <2>1. Calm
    BY <1>6, <1>s, GoCalm DEF WriteUser
  <2>2. DbOK'
    BY <1>6 DEF WriteUser, DbOK, UserRow, Row
  <2> QED BY <1>6, <2>1, <2>2, TypeFrame DEF WriteUser, calls, Calm
<1>7. ASSUME NEW c \in Calls, Register(c)
      PROVE  TypeInv'
  <2>1. Calm /\ LineupOK'
    BY <1>7, <1>s, GoCalm, Refuse409Calm DEF Register, Admit, lineup, LineupOK
  <2>2. RegistryOK'
    BY <1>7 DEF Register, Admit, RegistryOK
  <2>3. MailboxOK'
    BY <1>7, <1>e DEF Register, Admit, OpenMailbox, mailbox, MailboxOK
  <2> QED BY <1>7, <2>1, <2>2, <2>3, TypeFrame DEF Register, calls, Calm
<1>8. ASSUME NEW c \in Calls, Publish(c)
      PROVE  TypeInv'
  <2>1. Calm
    BY <1>8, <1>s, GoCalm DEF Publish
  <2>2. MailboxOK'
    BY <1>8, <1>e DEF Publish, OpenMailbox, MailboxOK
  <2> QED BY <1>8, <2>1, <2>2, TypeFrame DEF Publish, calls, Calm
<1>9. ASSUME NEW c \in Calls, Prepare(c)
      PROVE  TypeInv'
  <2>1. Calm
    BY <1>9, <1>s, GoCalm DEF Prepare
  <2> QED BY <1>9, <2>1, TypeFrame DEF Prepare, calls, Calm
<1>10. ASSUME NEW c \in Calls, ModelRound(c)
      PROVE  TypeInv'
  <2>1. StageOK'
    BY <1>10, <1>s DEF ModelRound, Go, StageOK
  <2>2. WordsInHand'
    BY <1>10 DEF ModelRound, Go, StageOK, WordsInHand, calls
  <2>3. BudgetLeft'
    BY <1>10 DEF ModelRound, Go, StageOK, BudgetLeft, calls
  <2> QED BY <1>10, <2>1, <2>2, <2>3, TypeFrame DEF ModelRound, calls
<1>11. ASSUME NEW c \in Calls, RunTools(c)
      PROVE  TypeInv'
  <2>1. StageOK'
    BY <1>11, <1>s DEF RunTools, Go, StageOK
  <2>2. MailboxOK'
    BY <1>11, <1>e DEF RunTools, MailboxOK
  <2>3. round' \in [Calls -> 0..MaxRounds]
    BY <1>11, ChatAssumption DEF RunTools, CallsOK, BudgetLeft
  <2>4. taken' \in [Calls -> Seq(Msgs)]
    BY <1>11 DEF RunTools, CallsOK, MailboxOK
  <2>5. CallsOK'
    BY <1>11, <2>3, <2>4 DEF RunTools, CallsOK
  <2>6. WordsInHand'
    BY <1>11 DEF RunTools, Go, StageOK, CallsOK, WordsInHand
  <2>7. BudgetLeft'
    BY <1>11 DEF RunTools, Go, StageOK, CallsOK, BudgetLeft
  <2> QED BY <1>11, <2>1, <2>2, <2>3, <2>4, <2>5, <2>6, <2>7, TypeFrame DEF RunTools, calls
<1>12. ASSUME NEW c \in Calls, Splice(c)
      PROVE  TypeInv'
  <2>1. StageOK'
    BY <1>12, <1>s DEF Splice, Go, StageOK
  <2>2. Head(taken[c]) \in Msgs
    BY <1>12 DEF Splice, CallsOK, WordsInHand
  <2>3. DbOK'
    BY <1>12, <2>2 DEF Splice, DbOK, UserRow, Row, Calls
  <2>4. CallsOK'
    BY <1>12, <1>e DEF Splice, CallsOK
  <2>5. HistoryOK'
    BY <1>12, <2>2 DEF Splice, HistoryOK
  <2>6. WordsInHand'
    BY <1>12 DEF Splice, Go, StageOK, CallsOK, WordsInHand
  <2>7. BudgetLeft'
    BY <1>12 DEF Splice, Go, StageOK, BudgetLeft
  <2> QED BY <1>12, <2>1, <2>2, <2>3, <2>4, <2>5, <2>6, <2>7, TypeFrame DEF Splice, calls
<1>13. ASSUME NEW c \in Calls, Announce(c)
      PROVE  TypeInv'
  <2>1. Head(taken[c]) \in Msgs /\ Tail(taken[c]) \in Seq(Msgs)
    BY <1>13 DEF Announce, CallsOK, WordsInHand
  <2>2. StageOK'
    BY <1>13, <1>s, <2>1 DEF Announce, Go, StageOK, Calls
  <2>3. CallsOK'
    BY <1>13, <1>e, <2>1 DEF Announce, CallsOK
  <2>4. LineupOK'
    BY <1>13, ListingExcluded DEF Announce, LineupOK
  <2>5. WordsInHand'
    BY <1>13, <2>1 DEF Announce, Go, StageOK, CallsOK, WordsInHand, Calls
  <2>6. BudgetLeft'
    BY <1>13, <2>1 DEF Announce, Go, StageOK, BudgetLeft, Calls
  <2> QED BY <1>13, <2>1, <2>2, <2>3, <2>4, <2>5, <2>6, TypeFrame DEF Announce, calls
<1>14. ASSUME NEW c \in Calls, SaveReply(c)
      PROVE  TypeInv'
  <2>1. Calm
    BY <1>14, <1>s, GoCalm DEF SaveReply
  <2>2. DbOK'
    BY <1>14 DEF SaveReply, DbOK, ReplyRow, Row
  <2> QED BY <1>14, <2>1, <2>2, TypeFrame DEF SaveReply, calls, Calm
<1>15. ASSUME NEW c \in Calls, CloseTurn(c)
      PROVE  TypeInv'
  <2>1. Calm /\ LineupOK'
    BY <1>15, EndRunnerCalm DEF CloseTurn
  <2>2. MailboxOK'
    BY <1>15, <1>e DEF CloseTurn, EndRunner, MailboxOK
  <2> QED BY <1>15, <2>1, <2>2, TypeFrame DEF CloseTurn, EndRunner, calls, Calm
<1>16. ASSUME NEW c \in Calls, HardStop(c)
      PROVE  TypeInv'
  <2>1. Calm
    BY <1>16, TypeFrame DEF HardStop
  <2>2. RegistryOK'
    BY <1>16 DEF HardStop, RegistryOK
  <2> QED BY <1>16, <2>1, <2>2, TypeFrame DEF HardStop, calls, Calm
<1>17. ASSUME NEW c \in Calls, CrashStart(c)
      PROVE  TypeInv'
  <2>1. Calm
    BY <1>17, <1>s, GoCalm DEF CrashStart
  <2> QED BY <1>17, <2>1, TypeFrame DEF CrashStart, calls, Calm
<1>18. ASSUME NEW c \in Calls, CrashPublish(c)
      PROVE  TypeInv'
  <2>1. Calm
    BY <1>18, <1>s, GoCalm DEF CrashPublish
  <2> QED BY <1>18, <2>1, TypeFrame DEF CrashPublish, calls, Calm
<1>19. ASSUME NEW c \in Calls, CrashRunner(c)
      PROVE  TypeInv'
  <2>1. Calm /\ LineupOK'
    BY <1>19, EndRunnerCalm DEF CrashRunner
  <2>2. MailboxOK'
    BY <1>19, <1>e DEF CrashRunner, EndRunner, MailboxOK
  <2> QED BY <1>19, <2>1, <2>2, TypeFrame DEF CrashRunner, EndRunner, calls, Calm
<1>20. ASSUME NEW m \in Msgs, AskQueue(m)
      PROVE  TypeInv'
  <2>1. Calm
    BY <1>20, <1>s, GoCalm DEF AskQueue, Calls
  <2> QED BY <1>20, <2>1, TypeFrame DEF AskQueue, calls, Calm
<1>21. ASSUME NEW m \in Msgs, LandInQueue(m)
      PROVE  TypeInv'
  <2>1. Calm
    BY <1>21, <1>s, GoCalm DEF LandInQueue, Calls
  <2>2. LineupOK'
    BY <1>21 DEF LandInQueue, LineupOK
  <2>3. MailboxOK'
    BY <1>21 DEF LandInQueue, MailboxOK
  <2>4. lined' \in Seq(Msgs)
    BY <1>21 DEF LandInQueue, HistoryOK
  <2>5. HistoryOK'
    BY <1>21, <2>4 DEF LandInQueue, HistoryOK
  <2> QED BY <1>21, <2>1, <2>2, <2>3, <2>4, <2>5, TypeFrame DEF LandInQueue, calls, Calm
<1>22. ASSUME NEW m \in Msgs, OfferSteer(m)
      PROVE  TypeInv'
  <2>1. Calm
    BY <1>22, <1>s, GoCalm DEF OfferSteer, Calls
  <2>2. MailboxOK'
    BY <1>22 DEF OfferSteer, MailboxOK
  <2> QED BY <1>22, <2>1, <2>2, TypeFrame DEF OfferSteer, calls, Calm
<1>23. ASSUME NEW u \in Users, NEW m \in Msgs, CancelQueued(u, m)
      PROVE  TypeInv'
  <2>1. Calm
    BY <1>23, <1>s, GoCalm DEF CancelQueued, Calls
  <2>2. LineupOK' /\ MailboxOK'
    BY <1>23, ListingExcluded DEF CancelQueued, LineupOK, MailboxOK
  <2> QED BY <1>23, <2>1, <2>2, TypeFrame DEF CancelQueued, calls, Calm
<1>24. ASSUME NEW u \in Users, StopButton(u)
      PROVE  TypeInv'
  <2>1. Calm
    BY <1>24, TypeFrame DEF StopButton
  <2>2. RegistryOK'
    BY <1>24 DEF StopButton, RegistryOK, HasActiveTurn
  <2> QED BY <1>24, <2>1, <2>2, TypeFrame DEF StopButton, calls, Calm
<1>25. ASSUME NEW u \in Users, RemoveMember(u)
      PROVE  TypeInv'
  <2>1. Calm
    BY <1>25, TypeFrame DEF RemoveMember
  <2>2. DbOK'
    BY <1>25 DEF RemoveMember, DbOK
  <2> QED BY <1>25, <2>1, <2>2, TypeFrame DEF RemoveMember, calls, Calm
<1>26. ASSUME NEW u \in Users, WithdrawWords(u)
      PROVE  TypeInv'
  <2>1. Calm
    BY <1>26, <1>s DEF WithdrawWords, Calm, Withdraw, StageOK
  <2>2. DbOK'
    BY <1>26 DEF WithdrawWords, DbOK
  <2>3. LineupOK' /\ MailboxOK'
    BY <1>26, ListingExcluded DEF WithdrawWords, LineupOK, MailboxOK
  <2> QED BY <1>26, <2>1, <2>2, <2>3, TypeFrame DEF WithdrawWords, calls, Calm
<1>27. ASSUME DeleteBegin
      PROVE  TypeInv'
  <2>1. Calm
    BY <1>27, <1>s DEF DeleteBegin, ClearQueued, Calm, Withdraw, StageOK
  <2>2. LineupOK'
    BY <1>27 DEF DeleteBegin, ClearQueued, LineupOK
  <2>3. RegistryOK'
    BY <1>27 DEF DeleteBegin, RegistryOK, HasActiveTurn
  <2>4. ControlOK'
    BY <1>27 DEF DeleteBegin, ControlOK
  <2> QED BY <1>27, <2>1, <2>2, <2>3, <2>4, TypeFrame DEF DeleteBegin, calls, Calm
<1>28. ASSUME DeleteRows
      PROVE  TypeInv'
  <2>1. Calm
    BY <1>28, TypeFrame DEF DeleteRows
  <2>2. DbOK'
    BY <1>28 DEF DeleteRows, DbOK
  <2>3. ControlOK'
    BY <1>28 DEF DeleteRows, ControlOK
  <2> QED BY <1>28, <2>1, <2>2, <2>3, TypeFrame DEF DeleteRows, calls, Calm
<1>29. ASSUME DeleteAnnounce
      PROVE  TypeInv'
  <2>1. Calm
    BY <1>29, <1>s DEF DeleteAnnounce, ClearQueued, Calm, Withdraw, StageOK
  <2>2. LineupOK'
    BY <1>29 DEF DeleteAnnounce, ClearQueued, LineupOK
  <2>3. ControlOK'
    BY <1>29 DEF DeleteAnnounce, ControlOK
  <2> QED BY <1>29, <2>1, <2>2, <2>3, TypeFrame DEF DeleteAnnounce, calls, Calm
<1>30. ASSUME BeginDrain
      PROVE  TypeInv'
  <2>1. Calm
    BY <1>30, TypeFrame DEF BeginDrain
  <2>2. ControlOK'
    BY <1>30 DEF BeginDrain, ControlOK
  <2> QED BY <1>30, <2>1, <2>2, TypeFrame DEF BeginDrain, calls, Calm
<1>31. ASSUME EndDrain
      PROVE  TypeInv'
  <2>1. Calm
    BY <1>31, TypeFrame DEF EndDrain
  <2>2. ControlOK'
    BY <1>31 DEF EndDrain, ControlOK
  <2> QED BY <1>31, <2>1, <2>2, TypeFrame DEF EndDrain, calls, Calm
<1>32. ASSUME Unconfigure
      PROVE  TypeInv'
  <2>1. Calm
    BY <1>32, TypeFrame DEF Unconfigure
  <2>2. DbOK'
    BY <1>32 DEF Unconfigure, DbOK
  <2> QED BY <1>32, <2>1, <2>2, TypeFrame DEF Unconfigure, calls, Calm
<1>33. CASE UNCHANGED vars
  <2>1. Calm
    BY <1>33, TypeFrame DEF vars
  <2> QED BY <1>33, <2>1, TypeFrame DEF vars, calls, Calm
<1> QED
  BY <1>1, <1>2, <1>3, <1>4, <1>5, <1>6, <1>7, <1>8, <1>9, <1>10, <1>11, <1>12, <1>13, <1>14, <1>15, <1>16, <1>17, <1>18, <1>19, <1>20, <1>21, <1>22, <1>23, <1>24, <1>25, <1>26, <1>27, <1>28, <1>29, <1>30, <1>31, <1>32, <1>33
  DEF Next, Step, Work, Crash, Deleting

\* Every reachable state is well-typed, whatever the people, the messages, the
\* cap and the budget; no turn runs tools past its budget.
THEOREM TypeCorrect == Spec => []TypeOK
<1>1. TypeInv /\ [Next]_vars => TypeInv'
  BY TypeStep
<1> QED BY TypeStart, <1>1, PTL DEF Spec, TypeInv
-----------------------------------------------------------------------------
(* Who waits and who runs *)

\* Where the words in the mailbox can be.
Waiting == {"queued", "offered", "joined", "withdrawn", "dropped"}

WaitInv == RegistryOwnsRunner /\ QueueWaits /\ BoxWaits /\ MailboxFollowsRunner

\* The step starts and ends no turn ...
SameTurns ==
  \A x \in Calls : /\ stage'[x] \in Live <=> stage[x] \in Live
                   /\ stage'[x] = "ended" <=> stage[x] = "ended"

\* ... and no runner.
SameRunners ==
  SameTurns /\ \A x \in Calls : stage'[x] \in Hosting <=> stage[x] \in Hosting

\* The step moves no waiting message.
Steady ==
  \A x \in Calls : /\ stage[x] \in Waiting => stage'[x] \in Waiting
                   /\ stage[x] = "queued" => stage'[x] = "queued"

\* The groups of stages the invariant speaks of do not overlap.
LEMMA NamesApart ==
  /\ Waiting \cap (Live \cup Hosting \cup Starting) = {}
  /\ Starting \cap (Live \cup Hosting) = {}
  /\ Over \cap (Live \cup Hosting) = {}
  /\ Hosting \subseteq Live
  /\ {"typed", "auth", "lookup"} \cap (Live \cup Hosting \cup Waiting) = {}
  /\ "ended" \notin Waiting \cup Live \cup Hosting \cup Starting
BY DEF Waiting, Live, Hosting, Starting, Over

\* No turn is registered only if no runner hosts a mailbox, so the mailbox is
\* empty.
LEMMA IdleMailbox ==
  ASSUME TypeInv, WaitInv, ~HasActiveTurn
  PROVE  /\ \A x \in Calls : stage[x] \notin Live
         /\ box = <<>> /\ listening = FALSE
<1>1. \A x \in Calls : stage[x] \notin Live
  BY ChatAssumption DEF WaitInv, RegistryOwnsRunner, HasActiveTurn
<1> QED BY <1>1, NamesApart DEF WaitInv, MailboxFollowsRunner, TypeInv, TypeOK, MailboxOK

\* A call that was not waiting and does not enter or leave a turn leaves the
\* runners as they are and the waiting messages waiting.
LEMMA GoSteady ==
  ASSUME StageOK, NEW c \in Calls, NEW s, Go(c, s), stage[c] \notin Waiting,
         s \in Live <=> stage[c] \in Live, s \in Hosting <=> stage[c] \in Hosting,
         s = "ended" <=> stage[c] = "ended"
  PROVE  SameRunners /\ Steady
BY DEF StageOK, Go, SameRunners, SameTurns, Steady, Waiting

\* The queue keeps its promise through a step that takes entries out.
LEMMA QueueKept ==
  ASSUME TypeInv, QueueWaits, Steady, UNCHANGED queue
  PROVE  QueueWaits'
<1>1. \A i \in DOMAIN queue : queue[i] \in Calls
  BY DEF TypeInv, TypeOK, LineupOK, Calls
<1> QED BY <1>1 DEF QueueWaits, Steady

\* A mailbox that only shrinks, over messages that stay put, still waits.
LEMMA BoxKept ==
  ASSUME TypeInv, BoxWaits, Steady, Range(box') \subseteq Range(box)
  PROVE  BoxWaits'
<1>1. \A m \in Range(box) : m \in Calls
  BY DEF TypeInv, TypeOK, MailboxOK, Calls, Range
<1> QED BY <1>1 DEF BoxWaits, Steady, Waiting

\* With the same runners, registry and mailbox, the registry still owns the
\* runner and the mailbox still follows it.
LEMMA RunnersKept ==
  ASSUME WaitInv, SameRunners, UNCHANGED <<reg, listening>>, listening \/ box' = <<>>
  PROVE  RegistryOwnsRunner' /\ MailboxFollowsRunner'
BY DEF WaitInv, SameRunners, SameTurns, RegistryOwnsRunner, MailboxFollowsRunner

\* A step of the same runners that leaves queue and mailbox alone keeps all.
LEMMA QuietStep ==
  ASSUME TypeInv, WaitInv, SameRunners, Steady, UNCHANGED <<reg, queue, box, listening>>
  PROVE  WaitInv'
<1>1. QueueWaits' /\ BoxWaits'
  BY QueueKept, BoxKept DEF WaitInv
<1>2. RegistryOwnsRunner' /\ MailboxFollowsRunner'
  BY RunnersKept DEF WaitInv, MailboxFollowsRunner
<1> QED BY <1>1, <1>2 DEF WaitInv

\* The entry at the head of the queue, and the rest.
LEMMA HeadAndTail ==
  ASSUME TypeInv, QueueWaits, queue # <<>>
  PROVE  /\ Head(queue) \in Msgs /\ Head(queue) \in Calls
         /\ stage[Head(queue)] = "queued"
         /\ \A i \in DOMAIN Tail(queue) : /\ Tail(queue)[i] \in Calls
                                          /\ Tail(queue)[i] # Head(queue)
                                          /\ stage[Tail(queue)[i]] = "queued"
         /\ \A i, j \in DOMAIN Tail(queue) : Tail(queue)[i] = Tail(queue)[j] => i = j
<1>1. queue \in Seq(Msgs) /\ Len(queue) \in Nat /\ Len(queue) > 0
  BY DEF TypeInv, TypeOK, LineupOK
<1>2. DOMAIN queue = 1..Len(queue) /\ Head(queue) = queue[1]
  BY <1>1
<1>3. \A i \in DOMAIN Tail(queue) : i + 1 \in 2..Len(queue) /\ Tail(queue)[i] = queue[i + 1]
  BY <1>1
<1>4. \A i \in 1..Len(queue) : queue[i] \in Msgs
  BY <1>1
<1>5. \A i \in DOMAIN Tail(queue) : Tail(queue)[i] # queue[1]
  BY <1>1, <1>2, <1>3 DEF QueueWaits
<1>6. \A i, j \in DOMAIN Tail(queue) : Tail(queue)[i] = Tail(queue)[j] => i = j
  BY <1>1, <1>2, <1>3 DEF QueueWaits
<1> QED BY <1>1, <1>2, <1>3, <1>4, <1>5, <1>6 DEF QueueWaits, Calls

\* runNextQueued, called with the stages st that leave every waiting entry of
\* the queue where it is, takes the head out and no more.
LEMMA ShiftKeepsQueue ==
  ASSUME TypeInv, QueueWaits, NEW st \in [Calls -> Stages], Shifted(st),
         \A x \in Range(queue) : st[x] = "queued"
  PROVE  QueueWaits'
<1>1. CASE stage' = st /\ queue' = queue
  BY <1>1 DEF QueueWaits, Range
<1>2. CASE /\ queue # <<>> /\ queue' = Tail(queue)
           /\ \E s \in {"start", "dropped"} : stage' = [st EXCEPT ![Head(queue)] = s]
  <2>1. \A i \in DOMAIN Tail(queue) : Tail(queue)[i] \in Range(queue)
    BY <1>2 DEF TypeInv, TypeOK, LineupOK, Range
  <2>2. \A i \in DOMAIN Tail(queue) : stage'[Tail(queue)[i]] = "queued"
    BY <1>2, <2>1, HeadAndTail
  <2> QED BY <1>2, <2>2, HeadAndTail DEF QueueWaits
<1> QED BY <1>1, <1>2 DEF Shifted

\* It starts and ends no turn of its own.
LEMMA ShiftKeepsRunners ==
  ASSUME TypeInv, QueueWaits, NEW st \in [Calls -> Stages], Shifted(st),
         \A x \in Range(queue) : st[x] = "queued"
  PROVE  \A x \in Calls : /\ stage'[x] \in Live <=> st[x] \in Live
                          /\ stage'[x] \in Hosting <=> st[x] \in Hosting
                          /\ stage'[x] = "ended" <=> st[x] = "ended"
<1>1. {"start", "dropped", "queued"} \cap (Live \cup Hosting) = {}
  BY DEF Live, Hosting
<1>2. queue # <<>> => Head(queue) \in Calls /\ st[Head(queue)] = "queued"
  <2>1. queue # <<>> => Head(queue) \in Range(queue)
    BY DEF TypeInv, TypeOK, LineupOK, Range
  <2> QED BY <2>1, HeadAndTail
<1> QED BY <1>1, <1>2 DEF Shifted

\* A refusal keeps the invariant: if it shifts the queue, the shifted message
\* starts where no other copy of it waits.
LEMMA RefuseKeeps ==
  ASSUME TypeInv, WaitInv, NEW c \in Calls, stage[c] \in Starting, Refuse(c),
         UNCHANGED <<reg, mailbox>>
  PROVE  WaitInv' /\ SameRunners
<1> USE DEF mailbox
<1>0. /\ StageOK /\ LineupOK /\ QueueWaits
      /\ {"told", "refused"} \cap (Live \cup Hosting) = {}
      /\ "told" \in Stages
      /\ stage[c] \notin Waiting \cup Live \cup Hosting \cup {"ended"}
  BY NamesApart DEF TypeInv, TypeOK, WaitInv, Live, Hosting, Stages, Over
<1>1. CASE c \notin scheduled /\ Go(c, "refused") /\ UNCHANGED lineup
  <2>1. SameRunners /\ Steady
    BY <1>0, <1>1, GoSteady
  <2> QED BY <1>1, <2>1, QuietStep DEF lineup
<1>2. CASE c \in scheduled /\ RunNextQueued([stage EXCEPT ![c] = "told"], HasActiveTurn)
  <2> DEFINE st == [stage EXCEPT ![c] = "told"]
  <2>1. st \in [Calls -> Stages] /\ st[c] = "told" /\ \A x \in Calls \ {c} : st[x] = stage[x]
    BY <1>0 DEF StageOK
  <2>2. RunNextQueued(st, HasActiveTurn)
    BY <1>2
  <2> HIDE DEF st
  <2>3. \A x \in Range(queue) : x \in Calls /\ st[x] = "queued"
    <3>1. \A x \in Range(queue) : x \in Calls /\ stage[x] = "queued"
      BY <1>0 DEF LineupOK, QueueWaits, Range, Calls
    <3> QED BY <1>0, <2>1, <3>1 DEF Waiting
  <2>4. Shifted(st)
    BY <1>0, <2>1, <2>2, RunNextShifts
  <2>5. QueueWaits'
    BY <1>0, <2>1, <2>3, <2>4, ShiftKeepsQueue
  <2>6. SameRunners
    BY <1>0, <2>1, <2>3, <2>4, ShiftKeepsRunners DEF SameRunners, SameTurns
  <2>7. RegistryOwnsRunner' /\ MailboxFollowsRunner'
    BY <2>6, RunnersKept DEF WaitInv, MailboxFollowsRunner
  <2>8. BoxWaits'
    <3>1. CASE ~HasActiveTurn
      BY <3>1, IdleMailbox DEF BoxWaits, Range
    <3>2. CASE HasActiveTurn
      <4>1. \A x \in Calls : stage[x] \in Waiting => st[x] \in Waiting
        BY <1>0, <2>1
      <4>2. \/ stage' = st
            \/ /\ queue # <<>>
               /\ stage' = [st EXCEPT ![Head(queue)] = "dropped"]
        BY <2>2, <3>2 DEF RunNextQueued
      <4>3. \A x \in Calls : stage[x] \in Waiting => stage'[x] \in Waiting
        BY <1>0, <2>1, <4>1, <4>2, HeadAndTail DEF Waiting
      <4>4. \A m \in Range(box) : m \in Calls
        BY DEF TypeInv, TypeOK, MailboxOK, Calls, Range
      <4> QED BY <4>3, <4>4 DEF WaitInv, BoxWaits, Waiting
    <3> QED BY <3>1, <3>2
  <2> QED BY <2>5, <2>6, <2>7, <2>8 DEF WaitInv
<1> QED BY <1>1, <1>2 DEF Refuse

\* The 409 of startTurn keeps the invariant: the entry it puts back at the
\* front was in no queue, since a call that is starting is not waiting.
LEMMA Refuse409Keeps ==
  ASSUME TypeInv, WaitInv, NEW c \in Calls, stage[c] = "register", Refuse409(c),
         UNCHANGED <<reg, mailbox>>
  PROVE  WaitInv' /\ SameRunners
<1> USE DEF mailbox
<1>1. /\ StageOK /\ LineupOK
      /\ {"refused", "queued", "register"} \cap (Live \cup Hosting) = {}
      /\ "register" \notin Waiting
  BY DEF TypeInv, TypeOK, Live, Hosting, Waiting
<1>2. CASE c \notin scheduled /\ Go(c, "refused") /\ UNCHANGED queue
  <2>1. SameRunners /\ Steady
    BY <1>1, <1>2, GoSteady
  <2> QED BY <1>2, <2>1, QuietStep
<1>3. CASE c \in scheduled /\ Go(c, "queued") /\ queue' = <<c>> \o queue
  <2>1. SameRunners /\ Steady
    BY <1>1, <1>3, GoSteady
  <2>2. RegistryOwnsRunner' /\ MailboxFollowsRunner'
    BY <2>1, RunnersKept DEF WaitInv, MailboxFollowsRunner
  <2>3. BoxWaits'
    BY <2>1, BoxKept DEF WaitInv
  <2>4. /\ queue \in Seq(Msgs) /\ Len(queue) \in Nat
        /\ DOMAIN queue = 1..Len(queue)
        /\ <<c>> \in Seq(Msgs)
    BY <1>1, <1>3 DEF LineupOK
  <2>5. /\ DOMAIN queue' = 1..(Len(queue) + 1)
        /\ queue'[1] = c
        /\ \A i \in 2..(Len(queue) + 1) : i - 1 \in DOMAIN queue /\ queue'[i] = queue[i - 1]
    BY <1>3, <2>4
  <2>6. \A i \in DOMAIN queue : /\ queue[i] \in Calls /\ queue[i] # c
                                /\ stage'[queue[i]] = "queued"
    BY <1>1, <1>3, <2>1, <2>4 DEF WaitInv, QueueWaits, Calls, Steady
  <2>7. stage'[c] = "queued"
    BY <1>1, <1>3 DEF Go, StageOK
  <2>8. \A i \in DOMAIN queue' : stage'[queue'[i]] = "queued"
    BY <2>4, <2>5, <2>6, <2>7
  <2>9. ASSUME NEW i \in DOMAIN queue', NEW j \in DOMAIN queue', queue'[i] = queue'[j]
        PROVE  i = j
    <3>1. CASE i = 1 \/ j = 1
      BY <2>4, <2>5, <2>6, <2>9, <3>1
    <3>2. CASE i # 1 /\ j # 1
      <4>1. i - 1 \in DOMAIN queue /\ j - 1 \in DOMAIN queue /\ queue[i - 1] = queue[j - 1]
        BY <2>4, <2>5, <2>9, <3>2
      <4>2. i - 1 = j - 1
        BY <4>1 DEF WaitInv, QueueWaits
      <4> QED BY <2>4, <2>5, <4>2
    <3> QED BY <3>1, <3>2
  <2> QED BY <2>1, <2>2, <2>3, <2>8, <2>9 DEF WaitInv, QueueWaits
<1> QED BY <1>2, <1>3 DEF Refuse409

\* Taking the registry keeps the invariant: no other turn was live, so the
\* fresh entry owns the only runner and opens an empty mailbox.
LEMMA AdmitKeeps ==
  ASSUME TypeInv, WaitInv, NEW c \in Calls, stage[c] = "register", ~HasActiveTurn, Admit(c)
  PROVE  /\ WaitInv'
         /\ stage'[c] \in Live
         /\ \A x \in Calls : stage'[x] = "ended" <=> stage[x] = "ended"
<1>1. /\ StageOK
      /\ {"publish", "prepare"} \subseteq Live
      /\ "publish" \notin Hosting /\ "prepare" \in Hosting
      /\ "register" \notin Waiting
  BY DEF TypeInv, TypeOK, Live, Hosting, Waiting
<1>2. /\ \A x \in Calls : stage[x] \notin Live /\ stage[x] \notin Hosting
      /\ box = <<>> /\ listening = FALSE
  BY IdleMailbox, NamesApart
<1>3. PICK s \in {"publish", "prepare"} :
        /\ Go(c, s)
        /\ s = "publish" => UNCHANGED mailbox
        /\ s = "prepare" => OpenMailbox
  BY DEF Admit
<1>4. stage'[c] = s /\ \A x \in Calls \ {c} : stage'[x] = stage[x]
  BY <1>1, <1>3 DEF Go, StageOK
<1>5. Steady
  BY <1>1, <1>4 DEF Steady, Waiting
<1>6. RegistryOwnsRunner'
  BY <1>2, <1>4 DEF RegistryOwnsRunner, Admit
<1>7. box' = <<>> /\ listening' = (s = "prepare")
  BY <1>2, <1>3 DEF mailbox, OpenMailbox
<1>8. MailboxFollowsRunner'
  BY <1>1, <1>2, <1>4, <1>7 DEF MailboxFollowsRunner
<1>9. BoxWaits'
  BY <1>7 DEF BoxWaits, Range
<1>10. QueueWaits'
  BY <1>5, QueueKept DEF WaitInv, Admit, lineup
<1> QED BY <1>1, <1>4, <1>6, <1>8, <1>9, <1>10, NamesApart DEF WaitInv

\* The end of a runner keeps the invariant: it was the only one, its mailbox
\* closes with it, and the message it shifts starts alone.
LEMMA EndRunnerKeeps ==
  ASSUME TypeInv, WaitInv, NEW c \in Calls, stage[c] \in Hosting, EndRunner(c)
  PROVE  /\ WaitInv'
         /\ \A x \in Calls : stage'[x] \notin Live
         /\ \A x \in Calls : stage'[x] = "ended" <=> x = c \/ stage[x] = "ended"
<1> DEFINE st == [x \in Calls |-> IF x = c THEN "ended"
                                  ELSE IF x \in Range(box) /\ stage[x] = "offered" THEN "dropped"
                                  ELSE stage[x]]
<1>1. /\ StageOK /\ LineupOK /\ QueueWaits
      /\ {"ended", "dropped"} \subseteq Stages
      /\ {"ended", "dropped"} \cap (Live \cup Hosting) = {}
  BY DEF TypeInv, TypeOK, WaitInv, Stages, Over, Live, Hosting
<1>2. st \in [Calls -> Stages]
  BY <1>1 DEF StageOK
<1>3. \A x \in Calls : st[x] \notin Live
  <2>1. \A x \in Calls : x # c => stage[x] \notin Live
    BY NamesApart DEF WaitInv, RegistryOwnsRunner
  <2> QED BY <1>1, <2>1
<1>4. RunNextQueued(st, FALSE) /\ UNCHANGED reg /\ box' = <<>> /\ listening' = FALSE
  BY DEF EndRunner, registry
<1>5. \A x \in Range(queue) : st[x] = "queued"
  <2>1. \A x \in Range(queue) : x \in Calls /\ stage[x] = "queued"
    BY <1>1 DEF LineupOK, QueueWaits, Range, Calls
  <2>2. "queued" \notin Hosting
    BY DEF Hosting
  <2> QED BY <2>1, <2>2
<1>6. \A x \in Calls : st[x] = "ended" <=> x = c \/ stage[x] = "ended"
  OBVIOUS
<1> HIDE DEF st
<1>7. Shifted(st)
  BY <1>1, <1>2, <1>4, RunNextShifts
<1>8. QueueWaits'
  BY <1>1, <1>2, <1>5, <1>7, ShiftKeepsQueue
<1>9. \A x \in Calls : stage'[x] \notin Live
  BY <1>1, <1>2, <1>3, <1>5, <1>7, ShiftKeepsRunners
<1>10. \A x \in Calls : stage'[x] = "ended" <=> x = c \/ stage[x] = "ended"
  BY <1>1, <1>2, <1>5, <1>6, <1>7, ShiftKeepsRunners
<1>11. RegistryOwnsRunner' /\ BoxWaits' /\ MailboxFollowsRunner'
  BY <1>4, <1>9, NamesApart DEF RegistryOwnsRunner, BoxWaits, MailboxFollowsRunner, Range
<1> QED BY <1>8, <1>9, <1>10, <1>11 DEF WaitInv

\* What a step does to the registry: nothing, one turn begins in an idle
\* registry, or the running turn ends.
SlotStep ==
  \/ SameTurns /\ reg' = reg
  \/ \E c \in Calls :
       /\ ~HasActiveTurn
       /\ stage[c] = "register" /\ stage'[c] \in Live /\ reg' = c
       /\ \A x \in Calls : stage'[x] = "ended" <=> stage[x] = "ended"
  \/ \E c \in Calls :
       /\ stage[c] \in Hosting
       /\ \A x \in Calls : stage'[x] \notin Live
       /\ \A x \in Calls : stage'[x] = "ended" <=> x = c \/ stage[x] = "ended"

\* A call moving within, or outside, its turn keeps all and is a stutter of
\* the slot.
LEMMA QuietGo ==
  ASSUME TypeInv, WaitInv, NEW c \in Calls, NEW s, Go(c, s), stage[c] \notin Waiting,
         s \in Live <=> stage[c] \in Live, s \in Hosting <=> stage[c] \in Hosting,
         s = "ended" <=> stage[c] = "ended",
         UNCHANGED <<reg, queue, box, listening>>
  PROVE  WaitInv' /\ SlotStep
<1>1. SameRunners /\ Steady
  BY GoSteady DEF TypeInv, TypeOK
<1> QED BY <1>1, QuietStep DEF SlotStep, SameRunners, SameTurns

\* A step that moves no call keeps all and is a stutter of the slot.
LEMMA QuietStages ==
  ASSUME TypeInv, WaitInv, UNCHANGED <<stage, reg, queue, box, listening>>
  PROVE  WaitInv' /\ SlotStep
<1>1. SameRunners /\ Steady
  BY DEF SameRunners, SameTurns, Steady
<1> QED BY <1>1, QuietStep DEF SlotStep, SameRunners, SameTurns

\* Words that wait are withdrawn, and leave the queue and the mailbox.
LEMMA WithdrawKeeps ==
  ASSUME TypeInv, WaitInv, NEW S, Withdraw(S), UNCHANGED <<reg, listening>>,
         \A x \in S : x \in Calls => stage[x] \in Waiting,
         queue' \in Seq(Msgs),
         \A i \in DOMAIN queue' : \E j \in DOMAIN queue : queue'[i] = queue[j] /\ queue[j] \notin S,
         \A i, j \in DOMAIN queue' : queue'[i] = queue'[j] => i = j,
         Range(box') \subseteq Range(box), listening \/ box' = <<>>
  PROVE  WaitInv' /\ SlotStep
<1>1. \A x \in Calls : stage'[x] = IF x \in S THEN "withdrawn" ELSE stage[x]
  BY DEF Withdraw
<1>2. "withdrawn" \notin Live \cup Hosting /\ "withdrawn" \in Waiting
  BY DEF Live, Hosting, Waiting
<1>3. SameRunners
  BY <1>1, <1>2, NamesApart DEF SameRunners, SameTurns
<1>4. RegistryOwnsRunner' /\ MailboxFollowsRunner'
  BY <1>3, RunnersKept
<1>5. \A m \in Range(box) : m \in Calls
  BY DEF TypeInv, TypeOK, MailboxOK, Calls, Range
<1>6. BoxWaits'
  BY <1>1, <1>2, <1>5 DEF WaitInv, BoxWaits, Waiting
<1>7. \A j \in DOMAIN queue : queue[j] \in Calls /\ stage[queue[j]] = "queued"
  BY DEF TypeInv, TypeOK, LineupOK, WaitInv, QueueWaits, Calls
<1>8. QueueWaits'
  BY <1>1, <1>7 DEF QueueWaits
<1> QED BY <1>3, <1>4, <1>6, <1>8 DEF WaitInv, SlotStep, SameRunners, SameTurns

\* A mailbox that was empty stays empty when words are taken out of it.
LEMMA EmptyStays ==
  ASSUME NEW S, NEW t \in Excluding(<<>>, S)
  PROVE  t = <<>>
<1>1. <<>> \in Seq({})
  OBVIOUS
<1>2. t \in Seq({})
  BY <1>1, ListingExcluded
<1> QED BY <1>2

\* Clearing the queue keeps all and is a stutter of the slot.
LEMMA ClearKeeps ==
  ASSUME TypeInv, WaitInv, ClearQueued, UNCHANGED <<reg, mailbox>>
  PROVE  WaitInv' /\ SlotStep
<1>1. Withdraw(Range(queue)) /\ queue' = <<>>
  BY DEF ClearQueued
<1>2. \A x \in Range(queue) : stage[x] \in Waiting
  BY DEF WaitInv, QueueWaits, Range, Waiting
<1>3. <<>> \in Seq(Msgs) /\ DOMAIN <<>> = {}
  OBVIOUS
<1>4. listening \/ box = <<>>
  BY DEF WaitInv, MailboxFollowsRunner
<1> QED BY <1>1, <1>2, <1>3, <1>4, WithdrawKeeps DEF mailbox

\* Every step keeps the invariant and is a step, or a stutter, of the slot.
LEMMA WaitStep ==
  ASSUME TypeInv, WaitInv, [Next]_vars
  PROVE  WaitInv' /\ SlotStep
<1> USE DEF mailbox, registry, lineup
<1>s. /\ {"auth", "start", "load", "cut", "cutvoid", "write", "register", "lookup"}
            \cap (Live \cup Hosting \cup Waiting \cup {"ended"}) = {}
      /\ {"refused", "crashed", "typed", "told"} \cap (Live \cup Hosting \cup Waiting \cup {"ended"}) = {}
      /\ {"prepare", "model", "tools", "splice", "announce", "save", "close"} \subseteq Hosting
      /\ Hosting \subseteq Live /\ Live \cap (Waiting \cup {"ended"}) = {}
      /\ {"publish", "leaked"} \subseteq Live \ Hosting
      /\ {"queued", "offered"} \subseteq Waiting /\ Waiting \cap (Live \cup {"ended"}) = {}
  BY DEF Live, Hosting, Waiting

<1>1. ASSUME NEW c \in Calls, SendChat(c)
      PROVE  WaitInv' /\ SlotStep
  BY <1>s, <1>1, QuietGo DEF SendChat
<1>2. ASSUME NEW c \in Calls, EnterTurn(c)
      PROVE  WaitInv' /\ SlotStep
  BY <1>s, <1>2, QuietGo DEF EnterTurn
<1>3. ASSUME NEW c \in Calls, CheckAccess(c)
      PROVE  WaitInv' /\ SlotStep
  <2>1. CASE Go(c, "load") /\ UNCHANGED lineup
    BY <1>s, <1>3, <2>1, QuietGo DEF CheckAccess
  <2>2. CASE Refuse(c)
    BY <1>3, <2>2, RefuseKeeps DEF CheckAccess, Starting, SlotStep, SameRunners, SameTurns
  <2> QED BY <1>3, <2>1, <2>2 DEF CheckAccess
<1>4. ASSUME NEW c \in Calls, LoadThread(c)
      PROVE  WaitInv' /\ SlotStep
  <2>1. CASE Refuse(c)
    BY <1>4, <2>1, RefuseKeeps DEF LoadThread, Starting, SlotStep, SameRunners, SameTurns
  <2>2. CASE UNCHANGED lineup /\ \E s \in {"cutvoid", "cut", "register", "write"} : Go(c, s)
    BY <1>s, <1>4, <2>2, QuietGo DEF LoadThread
  <2> QED BY <1>4, <2>1, <2>2 DEF LoadThread
<1>5. ASSUME NEW c \in Calls, CutThread(c)
      PROVE  WaitInv' /\ SlotStep
  <2>1. CASE UNCHANGED lineup /\ stage[c] = "cut" /\ \E s \in {"register", "write"} : Go(c, s)
    BY <1>s, <1>5, <2>1, QuietGo DEF CutThread
  <2>2. CASE stage[c] = "cutvoid" /\ Refuse(c)
    BY <1>5, <2>2, RefuseKeeps DEF CutThread, Starting, SlotStep, SameRunners, SameTurns
  <2> QED BY <1>5, <2>1, <2>2 DEF CutThread
<1>6. ASSUME NEW c \in Calls, WriteUser(c)
      PROVE  WaitInv' /\ SlotStep
  BY <1>s, <1>6, QuietGo DEF WriteUser
<1>7. ASSUME NEW c \in Calls, Register(c)
      PROVE  WaitInv' /\ SlotStep
  <2>1. CASE HasActiveTurn /\ Refuse409(c) /\ UNCHANGED <<reg, mailbox>>
    BY <1>7, <2>1, Refuse409Keeps DEF Register, SlotStep, SameRunners, SameTurns
  <2>2. CASE ~HasActiveTurn /\ Admit(c)
    <3>1. reg' = c
      BY <2>2 DEF Admit
    <3> QED BY <1>7, <2>2, <3>1, AdmitKeeps DEF Register, SlotStep, SameRunners, SameTurns
  <2> QED BY <1>7, <2>1, <2>2 DEF Register
<1>8. ASSUME NEW c \in Calls, Publish(c)
      PROVE  WaitInv' /\ SlotStep
  <2>1. stage'[c] = "prepare" /\ \A x \in Calls \ {c} : stage'[x] = stage[x]
    BY <1>8 DEF Publish, Go, TypeInv, TypeOK, StageOK
  <2>2. \A x \in Calls \ {c} : stage[x] \notin Live
    BY <1>s, <1>8 DEF Publish, WaitInv, RegistryOwnsRunner
  <2>3. Steady
    BY <1>s, <1>8, <2>1 DEF Publish, Steady, Waiting
  <2>4. QueueWaits'
    BY <1>8, <2>3, QueueKept DEF WaitInv, Publish
  <2>5. RegistryOwnsRunner'
    BY <1>s, <1>8, <2>1, <2>2 DEF WaitInv, RegistryOwnsRunner, Publish
  <2>6. MailboxFollowsRunner' /\ BoxWaits'
    BY <1>s, <1>8, <2>1 DEF Publish, OpenMailbox, MailboxFollowsRunner, BoxWaits, Range
  <2>7. SameTurns
    BY <1>s, <1>8, <2>1 DEF Publish, SameRunners, SameTurns
  <2> QED BY <1>8, <2>4, <2>5, <2>6, <2>7 DEF WaitInv, SlotStep, SameRunners, SameTurns, Publish
<1>9. ASSUME NEW c \in Calls, Prepare(c)
      PROVE  WaitInv' /\ SlotStep
  BY <1>s, <1>9, QuietGo DEF Prepare
<1>10. ASSUME NEW c \in Calls, ModelRound(c)
      PROVE  WaitInv' /\ SlotStep
  BY <1>s, <1>10, QuietGo DEF ModelRound
<1>11. ASSUME NEW c \in Calls, RunTools(c)
      PROVE  WaitInv' /\ SlotStep
  <2>1. PICK s \in {"save", "model", "splice"} : Go(c, s)
    BY <1>11 DEF RunTools
  <2>2. SameRunners /\ Steady
    BY <1>s, <1>11, <2>1, GoSteady DEF RunTools, TypeInv, TypeOK
  <2>3. box' = box \/ box' = <<>>
    BY <1>11 DEF RunTools
  <2>4. Range(box') \subseteq Range(box)
    BY <2>3 DEF Range
  <2>5. QueueWaits' /\ BoxWaits'
    BY <1>11, <2>2, <2>4, QueueKept, BoxKept DEF RunTools, WaitInv
  <2>6. RegistryOwnsRunner' /\ MailboxFollowsRunner'
    BY <1>11, <2>2, <2>3, RunnersKept DEF RunTools, WaitInv, MailboxFollowsRunner
  <2> QED BY <1>11, <2>2, <2>5, <2>6 DEF WaitInv, SlotStep, SameRunners, SameTurns, RunTools
<1>12. ASSUME NEW c \in Calls, Splice(c)
      PROVE  WaitInv' /\ SlotStep
  BY <1>s, <1>12, QuietGo DEF Splice
<1>13. ASSUME NEW c \in Calls, Announce(c)
      PROVE  WaitInv' /\ SlotStep
  <2>1. CASE UNCHANGED queue /\ Go(c, "save")
    BY <1>s, <1>13, <2>1, QuietGo DEF Announce
  <2>2. ASSUME queue' \in Excluding(queue, {Head(taken[c])}),
               NEW s \in {"model", "splice"},
               stage' = [stage EXCEPT
                 ![Head(taken[c])] = IF @ \in {"queued", "offered"} THEN "joined" ELSE @,
                 ![c] = s]
        PROVE  WaitInv' /\ SlotStep
    <3> DEFINE m == Head(taken[c])
    <3>1. m \in Calls /\ StageOK /\ queue \in Seq(Msgs)
      BY <1>13 DEF Announce, TypeInv, TypeOK, CallsOK, LineupOK, WordsInHand, Calls
    <3>2. \A x \in Calls : stage'[x] = IF x = c THEN s
             ELSE IF x = m /\ stage[x] \in {"queued", "offered"} THEN "joined" ELSE stage[x]
      BY <2>2, <3>1 DEF StageOK
    <3> HIDE DEF m
    <3>3. SameRunners
      BY <1>s, <1>13, <3>2 DEF Announce, SameRunners, SameTurns, Waiting
    <3>4. \A x \in Calls : /\ stage[x] \in Waiting => stage'[x] \in Waiting
                           /\ stage[x] = "queued" /\ x # m => stage'[x] = "queued"
      BY <1>s, <1>13, <3>2 DEF Announce, Waiting
    <3>5. RegistryOwnsRunner' /\ MailboxFollowsRunner'
      BY <1>13, <3>3, RunnersKept DEF Announce, WaitInv, MailboxFollowsRunner
    <3>6. BoxWaits'
      <4>1. \A x \in Range(box) : x \in Calls
        BY DEF TypeInv, TypeOK, MailboxOK, Calls, Range
      <4> QED BY <1>13, <3>4, <4>1 DEF Announce, WaitInv, BoxWaits, Waiting
    <3>7. QueueWaits'
      <4>1. /\ \A i \in DOMAIN queue' : \E j \in DOMAIN queue : queue'[i] = queue[j] /\ queue[j] # m
            /\ \A i, j \in DOMAIN queue' : queue'[i] = queue'[j] => i = j
        BY <2>2, <3>1, ListingExcluded DEF WaitInv, QueueWaits, m
      <4>2. \A j \in DOMAIN queue : queue[j] \in Calls /\ stage[queue[j]] = "queued"
        BY <3>1 DEF WaitInv, QueueWaits, Calls
      <4> QED BY <3>4, <4>1, <4>2 DEF QueueWaits
    <3> QED BY <1>13, <3>3, <3>5, <3>6, <3>7 DEF WaitInv, SlotStep, SameRunners, SameTurns, Announce
  <2> QED BY <1>13, <2>1, <2>2 DEF Announce
<1>14. ASSUME NEW c \in Calls, SaveReply(c)
      PROVE  WaitInv' /\ SlotStep
  BY <1>s, <1>14, QuietGo DEF SaveReply
<1>15. ASSUME NEW c \in Calls, CloseTurn(c)
      PROVE  WaitInv' /\ SlotStep
  BY <1>s, <1>15, EndRunnerKeeps DEF CloseTurn, SlotStep, SameRunners, SameTurns
<1>16. ASSUME NEW c \in Calls, HardStop(c)
      PROVE  WaitInv' /\ SlotStep
  BY <1>16, QuietStages DEF HardStop
<1>17. ASSUME NEW c \in Calls, CrashStart(c)
      PROVE  WaitInv' /\ SlotStep
  BY <1>s, <1>17, NamesApart, QuietGo DEF CrashStart
<1>18. ASSUME NEW c \in Calls, CrashPublish(c)
      PROVE  WaitInv' /\ SlotStep
  BY <1>s, <1>18, QuietGo DEF CrashPublish
<1>19. ASSUME NEW c \in Calls, CrashRunner(c)
      PROVE  WaitInv' /\ SlotStep
  BY <1>s, <1>19, EndRunnerKeeps DEF CrashRunner, SlotStep, SameRunners, SameTurns
<1>20. ASSUME NEW m \in Msgs, AskQueue(m)
      PROVE  WaitInv' /\ SlotStep
  BY <1>s, <1>20, QuietGo DEF AskQueue, Calls
<1>21. ASSUME NEW m \in Msgs, LandInQueue(m)
      PROVE  WaitInv' /\ SlotStep
  <2>1. CASE \E s \in {"refused", "typed"} : Go(m, s) /\ UNCHANGED <<queue, box>>
    BY <1>s, <1>21, <2>1, QuietGo DEF LandInQueue, Calls
  <2>2. CASE /\ HasActiveTurn /\ Go(m, "queued")
             /\ queue' = Append(queue, m)
             /\ box' = IF listening /\ m \notin WithFiles THEN Append(box, m) ELSE box
    <3>1. m \in Calls /\ StageOK /\ queue \in Seq(Msgs) /\ box \in Seq(Msgs)
      BY DEF TypeInv, TypeOK, LineupOK, MailboxOK, Calls
    <3>2. SameRunners /\ Steady /\ stage'[m] = "queued"
      BY <1>s, <1>21, <2>2, <3>1, GoSteady DEF LandInQueue, Go, StageOK
    <3>3. RegistryOwnsRunner' /\ MailboxFollowsRunner'
      BY <1>21, <2>2, <3>2, RunnersKept DEF LandInQueue, WaitInv, MailboxFollowsRunner
    <3>4. Range(box') \subseteq Range(box) \cup {m}
      BY <2>2, <3>1 DEF Range
    <3>5. BoxWaits'
      <4>1. \A x \in Range(box) : x \in Calls
        BY <3>1 DEF Calls, Range
      <4> QED BY <3>2, <3>4, <4>1 DEF WaitInv, BoxWaits, Steady, Waiting
    <3>6. /\ DOMAIN queue = 1..Len(queue) /\ Len(queue) \in Nat
          /\ DOMAIN queue' = 1..(Len(queue) + 1) /\ queue'[Len(queue) + 1] = m
          /\ \A i \in 1..Len(queue) : queue'[i] = queue[i]
      BY <2>2, <3>1
    <3>7. \A i \in 1..Len(queue) : /\ queue[i] # m /\ stage'[queue[i]] = "queued"
      <4>1. \A i \in 1..Len(queue) : queue[i] \in Calls /\ stage[queue[i]] = "queued"
        BY <3>1, <3>6 DEF WaitInv, QueueWaits, Calls
      <4> QED BY <1>21, <3>2, <4>1 DEF LandInQueue, Steady
    <3>8. QueueWaits'
      BY <3>2, <3>6, <3>7 DEF WaitInv, QueueWaits
    <3> QED BY <1>21, <3>2, <3>3, <3>5, <3>8 DEF WaitInv, SlotStep, SameRunners, SameTurns, LandInQueue
  <2> QED BY <1>21, <2>1, <2>2 DEF LandInQueue
<1>22. ASSUME NEW m \in Msgs, OfferSteer(m)
      PROVE  WaitInv' /\ SlotStep
  <2>1. CASE Go(m, "refused") /\ UNCHANGED box
    BY <1>s, <1>22, <2>1, QuietGo DEF OfferSteer, Calls
  <2>2. CASE listening /\ Go(m, "offered") /\ box' = Append(box, m)
    <3>1. m \in Calls /\ StageOK /\ box \in Seq(Msgs)
      BY DEF TypeInv, TypeOK, MailboxOK, Calls
    <3>2. SameRunners /\ Steady /\ stage'[m] = "offered"
      BY <1>s, <1>22, <2>2, <3>1, GoSteady DEF OfferSteer, Go, StageOK
    <3>3. RegistryOwnsRunner' /\ MailboxFollowsRunner'
      BY <1>22, <2>2, <3>2, RunnersKept DEF OfferSteer, WaitInv, MailboxFollowsRunner
    <3>4. Range(box') \subseteq Range(box) \cup {m}
      BY <2>2, <3>1 DEF Range
    <3>5. BoxWaits'
      <4>1. \A x \in Range(box) : x \in Calls
        BY <3>1 DEF Calls, Range
      <4> QED BY <3>2, <3>4, <4>1 DEF WaitInv, BoxWaits, Steady, Waiting
    <3>6. QueueWaits'
      BY <1>22, <3>2, QueueKept DEF WaitInv, OfferSteer
    <3> QED BY <1>22, <3>2, <3>3, <3>5, <3>6 DEF WaitInv, SlotStep, SameRunners, SameTurns, OfferSteer
  <2> QED BY <1>22, <2>1, <2>2 DEF OfferSteer
<1>23. ASSUME NEW u \in Users, NEW m \in Msgs, CancelQueued(u, m)
      PROVE  WaitInv' /\ SlotStep
  <2>1. /\ queue \in Seq(Msgs) /\ box \in Seq(Msgs)
        /\ queue' \in Excluding(queue, {m}) /\ box' \in Excluding(box, {m})
    BY <1>23 DEF CancelQueued, TypeInv, TypeOK, LineupOK, MailboxOK
  <2>2. stage[m] = "queued"
    BY <1>23 DEF CancelQueued, WaitInv, QueueWaits, Range
  <2>3. Withdraw({m})
    BY <1>23 DEF CancelQueued, Withdraw, Go, TypeInv, TypeOK, StageOK
  <2>4. /\ queue' \in Seq(Msgs)
        /\ \A i \in DOMAIN queue' : \E j \in DOMAIN queue : queue'[i] = queue[j] /\ queue[j] \notin {m}
        /\ \A i, j \in DOMAIN queue' : queue'[i] = queue'[j] => i = j
    BY <2>1, ListingExcluded DEF WaitInv, QueueWaits
  <2>5. Range(box') \subseteq Range(box)
    BY <2>1, ListingExcluded DEF Range
  <2>6. listening \/ box' = <<>>
    BY <2>1, EmptyStays DEF WaitInv, MailboxFollowsRunner
  <2> QED BY <1>s, <1>23, <2>2, <2>3, <2>4, <2>5, <2>6, WithdrawKeeps DEF CancelQueued
<1>24. ASSUME NEW u \in Users, StopButton(u)
      PROVE  WaitInv' /\ SlotStep
  BY <1>24, QuietStages DEF StopButton
<1>25. ASSUME NEW u \in Users, RemoveMember(u)
      PROVE  WaitInv' /\ SlotStep
  BY <1>25, QuietStages DEF RemoveMember
<1>26. ASSUME NEW u \in Users, WithdrawWords(u)
      PROVE  WaitInv' /\ SlotStep
  <2> DEFINE theirs == {m \in Msgs : Author[m] = u}
             S == theirs \cap (Range(queue) \cup Range(box))
  <2>1. /\ queue \in Seq(Msgs) /\ box \in Seq(Msgs)
        /\ queue' \in Excluding(queue, theirs) /\ box' \in Excluding(box, theirs)
        /\ Withdraw(S)
    BY <1>26 DEF WithdrawWords, TypeInv, TypeOK, LineupOK, MailboxOK
  <2>2. \A x \in S : x \in Calls => stage[x] \in Waiting
    BY <1>s DEF WaitInv, QueueWaits, BoxWaits, Range, Waiting
  <2>3. S \subseteq theirs /\ Range(queue) \cap theirs \subseteq S
    OBVIOUS
  <2> HIDE DEF S, theirs
  <2>4. /\ queue' \in Seq(Msgs)
        /\ \A i \in DOMAIN queue' : \E j \in DOMAIN queue : queue'[i] = queue[j] /\ queue[j] \notin S
        /\ \A i, j \in DOMAIN queue' : queue'[i] = queue'[j] => i = j
    BY <2>1, <2>3, ListingExcluded DEF WaitInv, QueueWaits
  <2>5. Range(box') \subseteq Range(box)
    BY <2>1, ListingExcluded DEF Range
  <2>6. listening \/ box' = <<>>
    BY <2>1, EmptyStays DEF WaitInv, MailboxFollowsRunner
  <2> QED BY <1>26, <2>1, <2>2, <2>4, <2>5, <2>6, WithdrawKeeps DEF WithdrawWords
<1>27. ASSUME DeleteBegin
      PROVE  WaitInv' /\ SlotStep
  <2>1. ClearQueued /\ UNCHANGED <<reg, mailbox>>
    BY <1>27 DEF DeleteBegin
  <2> QED BY <2>1, ClearKeeps
<1>28. ASSUME DeleteRows
      PROVE  WaitInv' /\ SlotStep
  BY <1>28, QuietStages DEF DeleteRows
<1>29. ASSUME DeleteAnnounce
      PROVE  WaitInv' /\ SlotStep
  <2>1. ClearQueued /\ UNCHANGED <<reg, mailbox>>
    BY <1>29 DEF DeleteAnnounce
  <2> QED BY <2>1, ClearKeeps
<1>30. ASSUME BeginDrain
      PROVE  WaitInv' /\ SlotStep
  BY <1>30, QuietStages DEF BeginDrain
<1>31. ASSUME EndDrain
      PROVE  WaitInv' /\ SlotStep
  BY <1>31, QuietStages DEF EndDrain
<1>32. ASSUME Unconfigure
      PROVE  WaitInv' /\ SlotStep
  BY <1>32, QuietStages DEF Unconfigure
<1>33. CASE UNCHANGED vars
  BY <1>33, QuietStages DEF vars
<1> QED
  BY <1>1, <1>2, <1>3, <1>4, <1>5, <1>6, <1>7, <1>8, <1>9, <1>10, <1>11, <1>12, <1>13, <1>14, <1>15, <1>16, <1>17, <1>18, <1>19, <1>20, <1>21, <1>22, <1>23, <1>24, <1>25, <1>26, <1>27, <1>28, <1>29, <1>30, <1>31, <1>32, <1>33
  DEF Next, Step, Work, Crash, Deleting

\* The first state has nobody waiting and nobody running.
LEMMA WaitStart == Init => WaitInv
<1> SUFFICES ASSUME Init PROVE WaitInv
  OBVIOUS
<1>1. \A c \in Calls : stage[c] \in {"typed", "ended"}
  BY DEF Init
<1>2. {"typed", "ended"} \cap Live = {}
  BY DEF Live, Hosting
<1>3. RegistryOwnsRunner
  BY <1>1, <1>2 DEF RegistryOwnsRunner
<1>4. MailboxFollowsRunner
  BY <1>1, <1>2, NamesApart DEF MailboxFollowsRunner, Init
<1>5. QueueWaits /\ BoxWaits
  BY DEF QueueWaits, BoxWaits, Range, Init
<1> QED BY <1>3, <1>4, <1>5 DEF WaitInv

\* ChatInv is the two halves the proof treats one after the other.
LEMMA ChatInvSplit == ChatInv <=> TypeInv /\ WaitInv
BY DEF ChatInv, TypeInv, WaitInv

\* The queue, the mailbox and the registry agree in every reachable state.
THEOREM ChatInvariant == Spec => []ChatInv
<1>1. Init => TypeInv /\ WaitInv
  BY TypeStart, WaitStart
<1>2. TypeInv /\ WaitInv /\ [Next]_vars => (TypeInv /\ WaitInv)'
  BY TypeStep, WaitStep
<1> QED BY <1>1, <1>2, ChatInvSplit, PTL DEF Spec

\* One reply at a time: a call whose turn has begun and not ended is the
\* registry's entry.
THEOREM OneReplyAtATime == Spec => []RegistryOwnsRunner
<1>1. ChatInv => RegistryOwnsRunner
  BY DEF ChatInv
<1> QED BY <1>1, ChatInvariant, PTL

\* The mailbox is open exactly while a runner is there to drain it, and holds
\* nothing when it is closed.
THEOREM MailboxServed == Spec => []MailboxFollowsRunner
<1>1. ChatInv => MailboxFollowsRunner
  BY DEF ChatInv
<1> QED BY <1>1, ChatInvariant, PTL

\* The conversation implements the slot: every step begins one turn in an idle
\* slot, ends the turn that holds it, or leaves it alone.
THEOREM SlotImplemented == Spec => ReplySlotSafe
<1> DEFINE now  == IF HasActiveTurn THEN reg ELSE None
           over == {c \in Calls : stage[c] = "ended"}
<1>1. Init => Slot!SlotInit
  <2> SUFFICES ASSUME Init PROVE Slot!SlotInit
    OBVIOUS
  <2>1. \A c \in Calls : stage[c] \in {"typed", "ended"}
    BY DEF Init
  <2>2. ~HasActiveTurn
    BY <2>1, ChatAssumption DEF HasActiveTurn, Init, Live, Hosting, Calls
  <2> QED BY <2>2 DEF Slot!SlotInit
<1>2. TypeInv /\ WaitInv /\ [Next]_vars => [Slot!SlotNext]_(Slot!slotVars)
  <2> SUFFICES ASSUME TypeInv, WaitInv, [Next]_vars
               PROVE  [Slot!SlotNext]_(Slot!slotVars)
    OBVIOUS
  <2>1. SlotStep /\ TypeInv' /\ WaitInv'
    BY TypeStep, WaitStep
  <2>2. /\ reg \in Calls \cup {None} /\ reg' \in Calls \cup {None}
        /\ None \notin Calls
    BY <2>1, ChatAssumption DEF TypeInv, TypeOK, RegistryOK
  <2>3. CASE SameTurns /\ reg' = reg
    <3>1. HasActiveTurn' <=> HasActiveTurn
      BY <2>2, <2>3 DEF HasActiveTurn, SameRunners, SameTurns
    <3>2. now' = now /\ over' = over
      BY <2>3, <3>1 DEF SameRunners, SameTurns
    <3> QED BY <3>2 DEF Slot!slotVars
  <2>4. ASSUME NEW c \in Calls, ~HasActiveTurn,
               stage[c] = "register", stage'[c] \in Live, reg' = c,
               \A x \in Calls : stage'[x] = "ended" <=> stage[x] = "ended"
        PROVE  Slot!SlotNext
    <3>1. HasActiveTurn'
      BY <2>2, <2>4 DEF HasActiveTurn
    <3>2. now = None /\ now' = c /\ over' = over /\ c \notin over
      BY <2>4, <3>1
    <3>3. Slot!Begin(c)
      BY <3>2 DEF Slot!Begin
    <3> QED BY <3>3 DEF Slot!SlotNext
  <2>5. ASSUME NEW c \in Calls, stage[c] \in Hosting,
               \A x \in Calls : stage'[x] \notin Live,
               \A x \in Calls : stage'[x] = "ended" <=> x = c \/ stage[x] = "ended"
        PROVE  Slot!SlotNext
    <3>1. HasActiveTurn /\ reg = c
      BY <2>2, <2>5, NamesApart DEF WaitInv, RegistryOwnsRunner, HasActiveTurn
    <3>2. ~HasActiveTurn'
      BY <2>2, <2>5 DEF HasActiveTurn
    <3>3. now = c /\ now' = None /\ over' = over \cup {c}
      BY <2>5, <3>1, <3>2
    <3>4. Slot!End(c)
      BY <3>3 DEF Slot!End
    <3> QED BY <3>4 DEF Slot!SlotNext
  <2> QED BY <2>1, <2>3, <2>4, <2>5 DEF SlotStep, SameRunners, SameTurns
<1>3. Init => TypeInv /\ WaitInv
  BY TypeStart, WaitStart
<1>4. TypeInv /\ WaitInv /\ [Next]_vars => (TypeInv /\ WaitInv)'
  BY TypeStep, WaitStep
<1> QED BY <1>1, <1>2, <1>3, <1>4, PTL DEF Spec, ReplySlotSafe, Slot!SlotSafety

-----------------------------------------------------------------------------
(* The copies of a scheduled message *)

\* Excluding takes out the entries in S and nothing else, and moves no entry
\* past another.
LEMMA ExcludedExactly ==
  ASSUME NEW T, NEW q \in Seq(T), NEW S, NEW t \in Excluding(q, S)
  PROVE  /\ t \in Seq(T)
         /\ Range(t) = Range(q) \ S
         /\ \A a, b \in DOMAIN t : a < b =>
              \E i, j \in DOMAIN q : i < j /\ t[a] = q[i] /\ t[b] = q[j]
<1> DEFINE P == {i \in DOMAIN q : q[i] \notin S}
           n == Cardinality(P)
<1>1. PICK f \in Listings(P) : t = [k \in DOMAIN f |-> q[f[k]]]
  BY DEF Excluding
<1>2. n \in Nat
  <2>1. IsFiniteSet(1..Len(q))
    BY FS_Interval
  <2>2. P \subseteq 1..Len(q)
    OBVIOUS
  <2> QED BY <2>1, <2>2, FS_Subset, FS_CardinalityType
<1>3. /\ f \in [1..n -> P]
      /\ \A j, k \in DOMAIN f : j < k => f[j] < f[k]
      /\ Range(f) = P
  BY DEF Listings
<1> HIDE DEF n
<1>4. DOMAIN f = 1..n /\ \A k \in 1..n : f[k] \in P
  BY <1>3
<1>5. DOMAIN t = 1..n /\ \A k \in 1..n : t[k] = q[f[k]]
  BY <1>1, <1>4
<1>6. \A x \in Range(t) : x \in Range(q) \ S
  BY <1>4, <1>5 DEF Range
<1>7. ASSUME NEW x \in Range(q) \ S
      PROVE  x \in Range(t)
  <2>1. PICK i \in DOMAIN q : q[i] = x
    BY DEF Range
  <2>2. i \in Range(f)
    BY <1>3, <2>1
  <2>3. PICK k \in 1..n : f[k] = i
    BY <1>4, <2>2 DEF Range
  <2> QED BY <1>5, <2>1, <2>3 DEF Range
<1>8. ASSUME NEW a \in DOMAIN t, NEW b \in DOMAIN t, a < b
      PROVE  \E i, j \in DOMAIN q : i < j /\ t[a] = q[i] /\ t[b] = q[j]
  <2>1. f[a] \in DOMAIN q /\ f[b] \in DOMAIN q /\ f[a] < f[b]
    BY <1>3, <1>4, <1>5, <1>8
  <2> QED BY <1>5, <1>8, <2>1
<1>9. t \in Seq(T)
  BY ListingExcluded
<1> QED BY <1>6, <1>7, <1>8, <1>9

\* What the entries of a longer, a shorter or a lengthened sequence are.
LEMMA RangesOfSequences ==
  ASSUME NEW T, NEW q \in Seq(T), NEW x \in T
  PROVE  /\ Range(Append(q, x)) = Range(q) \cup {x}
         /\ Range(<<x>> \o q) = Range(q) \cup {x}
         /\ q # <<>> => /\ Range(q) = {Head(q)} \cup Range(Tail(q))
                        /\ Head(q) \in T /\ Tail(q) \in Seq(T)
         /\ Range(<<>>) = {}
         /\ Range(q) \subseteq T
<1>1. Range(Append(q, x)) = Range(q) \cup {x}
  <2>1. /\ DOMAIN Append(q, x) = 1..(Len(q) + 1) /\ DOMAIN q = 1..Len(q) /\ Len(q) \in Nat
        /\ \A i \in 1..Len(q) : Append(q, x)[i] = q[i]
        /\ Append(q, x)[Len(q) + 1] = x
    OBVIOUS
  <2> QED BY <2>1 DEF Range
<1>2. Range(<<x>> \o q) = Range(q) \cup {x}
  <2>1. /\ DOMAIN (<<x>> \o q) = 1..(Len(q) + 1) /\ DOMAIN q = 1..Len(q) /\ Len(q) \in Nat
        /\ \A i \in 1..Len(q) : (<<x>> \o q)[i + 1] = q[i]
        /\ \A i \in 2..(Len(q) + 1) : (<<x>> \o q)[i] = q[i - 1] /\ i - 1 \in 1..Len(q)
        /\ (<<x>> \o q)[1] = x
    OBVIOUS
  <2>2. ASSUME NEW i \in 1..(Len(q) + 1)
        PROVE  (<<x>> \o q)[i] \in Range(q) \cup {x}
    <3>1. i = 1 \/ i \in 2..(Len(q) + 1)
      BY <2>1
    <3> QED BY <2>1, <3>1 DEF Range
  <2>3. ASSUME NEW i \in 1..Len(q)
        PROVE  q[i] \in Range(<<x>> \o q)
    <3>1. i + 1 \in 1..(Len(q) + 1)
      BY <2>1
    <3> QED BY <2>1, <3>1 DEF Range
  <2>4. x \in Range(<<x>> \o q)
    <3>1. 1 \in 1..(Len(q) + 1)
      BY <2>1
    <3> QED BY <2>1, <3>1 DEF Range
  <2>5. Range(q) \cup {x} \subseteq Range(<<x>> \o q)
    BY <2>1, <2>3, <2>4 DEF Range
  <2>6. Range(<<x>> \o q) \subseteq Range(q) \cup {x}
    BY <2>1, <2>2 DEF Range
  <2> QED BY <2>5, <2>6
<1>3. ASSUME q # <<>>
      PROVE  /\ Range(q) = {Head(q)} \cup Range(Tail(q))
             /\ Head(q) \in T /\ Tail(q) \in Seq(T)
  <2>1. /\ DOMAIN Tail(q) = 1..(Len(q) - 1) /\ DOMAIN q = 1..Len(q)
        /\ Len(q) \in Nat /\ Len(q) > 0
        /\ \A i \in 1..(Len(q) - 1) : Tail(q)[i] = q[i + 1]
        /\ \A i \in 2..Len(q) : q[i] = Tail(q)[i - 1] /\ i - 1 \in 1..(Len(q) - 1)
        /\ Head(q) = q[1] /\ 1 \in DOMAIN q
    BY <1>3
  <2>2. \A y \in Range(q) : y = Head(q) \/ y \in Range(Tail(q))
    <3>1. ASSUME NEW i \in 1..Len(q)
          PROVE  q[i] = Head(q) \/ q[i] \in Range(Tail(q))
      <4>1. i = 1 \/ i \in 2..Len(q)
        BY <2>1
      <4>2. i \in 2..Len(q) => q[i] \in Range(Tail(q))
        BY <2>1 DEF Range
      <4> QED BY <2>1, <4>1, <4>2
    <3> QED BY <2>1, <3>1 DEF Range
  <2>3. \A y \in Range(Tail(q)) : y \in Range(q)
    <3>1. ASSUME NEW i \in 1..(Len(q) - 1)
          PROVE  Tail(q)[i] \in Range(q)
      <4>1. i + 1 \in 1..Len(q) /\ Tail(q)[i] = q[i + 1]
        BY <2>1
      <4> QED BY <2>1, <4>1 DEF Range
    <3> QED BY <2>1, <3>1 DEF Range
  <2> QED BY <1>3, <2>1, <2>2, <2>3 DEF Range
<1>4. Range(<<>>) = {} /\ Range(q) \subseteq T
  BY DEF Range
<1> QED BY <1>1, <1>2, <1>3, <1>4

\* What a message at the end, or at the front, adds.
LEMMA MessageAdded ==
  ASSUME NEW q \in Seq(Msgs), NEW m \in Msgs
  PROVE  Range(Append(q, m)) = Range(q) \cup {m} /\ Range(<<m>> \o q) = Range(q) \cup {m}
<1> DEFINE T == Msgs
<1>1. q \in Seq(T) /\ m \in T
  OBVIOUS
<1> HIDE DEF T
<1> QED BY <1>1, RangesOfSequences

\* The stages before a message is sent, scheduled or steered.
Fresh == {"typed", "auth", "lookup"}

\* A turn moves within its turn, and a scheduled call towards its own, unless a
\* query fails or the chat it writes to is gone.
MovesOn(c, s) ==
  /\ stage[c] \in Live => s \in Live
  /\ c \in scheduled /\ stage[c] \in Starting =>
       \/ s \in Live
       \/ s \in Starting /\ (stage[c] = "start" => exists)
       \/ MayFail
       \/ stage[c] = "write" /\ ~exists

\* What a step does to the copies of messages: to the queue, to what it has
\* started, to the mailbox, to the words a turn has drained and to what was
\* spliced.  First, a call moves that is no waiting message.
MoveStep ==
  \E c \in Calls, s \in Stages :
    /\ Go(c, s)
    /\ stage[c] \notin Waiting \cup {"splice", "announce", "close", "ended"}
    /\ s \notin Waiting \cup {"splice", "announce"}
    /\ s \in Fresh => stage[c] \in Fresh
    /\ s = "lookup" => c \notin Steers
    /\ MovesOn(c, s)
    /\ box' = box \/ box' = <<>>
    /\ UNCHANGED <<lineup, taken, joined, lined>>

StillStep == UNCHANGED <<stage, lineup, box, taken, joined, lined>>

\* A refused entry passes the baton, a runner ends, a 409 puts the entry back.
BatonStep ==
  \E c \in scheduled :
    /\ stage[c] \in Starting
    /\ RunNextQueued([stage EXCEPT ![c] = "told"], HasActiveTurn)
    /\ UNCHANGED <<box, taken, joined, lined>>

EndStep == \E c \in Calls : stage[c] \in {"prepare", "close"} /\ EndRunner(c)

RequeueStep ==
  \E c \in scheduled :
    /\ stage[c] = "register" /\ HasActiveTurn
    /\ Go(c, "queued") /\ queue' = <<c>> \o queue
    /\ UNCHANGED <<scheduled, box, taken, joined, lined>>

\* A turn drains the mailbox, splices a message, has the queue drop its copy,
\* or gives up on what it drained.
DrainStep ==
  \E c \in Calls :
    /\ stage[c] = "tools" /\ Go(c, IF box = <<>> THEN "model" ELSE "splice")
    /\ taken' = [taken EXCEPT ![c] = box] /\ box' = <<>>
    /\ UNCHANGED <<lineup, joined, lined>>

SpliceStep ==
  \E c \in Calls :
    /\ stage[c] = "splice" /\ Go(c, "announce")
    /\ joined' = [joined EXCEPT ![Head(taken[c])] = c]
    /\ UNCHANGED <<lineup, box, taken, lined>>

ConsumeStep ==
  \E c \in Calls :
    /\ stage[c] = "announce"
    /\ queue' \in Excluding(queue, {Head(taken[c])})
    /\ stage' = [stage EXCEPT
         ![Head(taken[c])] = IF @ \in {"queued", "offered"} THEN "joined" ELSE @,
         ![c] = IF Tail(taken[c]) = <<>> THEN "model" ELSE "splice"]
    /\ taken' = [taken EXCEPT ![c] = Tail(taken[c])]
    /\ UNCHANGED <<scheduled, box, joined, lined>>

GiveUpStep ==
  \E c \in Calls :
    /\ stage[c] = "splice" \/ (stage[c] = "announce" /\ MayFail)
    /\ Go(c, "save") /\ taken' = [taken EXCEPT ![c] = <<>>]
    /\ UNCHANGED <<lineup, box, joined, lined>>

\* A message is scheduled, or steered.
LandStep ==
  \E m \in Msgs :
    /\ stage[m] = "lookup" /\ HasActiveTurn /\ Go(m, "queued")
    /\ queue' = Append(queue, m) /\ lined' = Append(lined, m)
    /\ box' = box \/ box' = Append(box, m)
    /\ UNCHANGED <<scheduled, taken, joined>>

OfferStep ==
  \E m \in Steers :
    /\ stage[m] = "typed" /\ Go(m, "offered") /\ box' = Append(box, m)
    /\ UNCHANGED <<lineup, taken, joined, lined>>

\* Somebody takes words away, or the chat goes.
TakeAwayStep ==
  \E W \in SUBSET Msgs :
    /\ queue' \in Excluding(queue, W) /\ box' \in Excluding(box, W)
    /\ Withdraw(W \cap (Range(queue) \cup Range(box)))
    /\ UNCHANGED <<scheduled, taken, joined, lined>>

ClearStep ==
  /\ MayDelete \/ deletion = "deleted"
  /\ ClearQueued /\ UNCHANGED <<box, taken, joined, lined>>

CopyStep ==
  \/ MoveStep \/ StillStep \/ BatonStep \/ EndStep \/ RequeueStep
  \/ DrainStep \/ SpliceStep \/ ConsumeStep \/ GiveUpStep
  \/ LandStep \/ OfferStep \/ TakeAwayStep \/ ClearStep

\* A refusal moves the refused call, or passes the baton.
LEMMA RefuseCopies ==
  ASSUME TypeInv, NEW c \in Calls, stage[c] \in Starting, Refuse(c),
         UNCHANGED <<taken, mailbox, history>>
  PROVE  CopyStep
<1>1. /\ "refused" \in Stages /\ "refused" \notin Waiting \cup {"splice", "announce"} \cup Fresh
      /\ stage[c] \notin Waiting \cup Live \cup {"splice", "announce", "close", "ended"}
  BY DEF Stages, Over, Waiting, Starting, Live, Hosting, Fresh
<1>2. CASE c \notin scheduled /\ Go(c, "refused") /\ UNCHANGED lineup
  <2>1. MoveStep
    BY <1>1, <1>2 DEF MoveStep, MovesOn, Fresh, mailbox, history
  <2> QED BY <2>1 DEF CopyStep
<1>3. CASE c \in scheduled /\ RunNextQueued([stage EXCEPT ![c] = "told"], HasActiveTurn)
  BY <1>3 DEF CopyStep, BatonStep, mailbox, history
<1> QED BY <1>2, <1>3 DEF Refuse

\* Every step is one of these.
LEMMA CopySteps ==
  ASSUME TypeInv, WaitInv, [Next]_vars
  PROVE  CopyStep
<1> USE DEF mailbox, registry, lineup, calls, history
<1>s. /\ {"auth", "start", "load", "cut", "cutvoid", "write", "register", "publish", "prepare",
          "model", "tools", "save", "close", "ended", "refused", "crashed", "leaked",
          "typed", "lookup"} \subseteq Stages \ (Waiting \cup {"splice", "announce"})
      /\ {"start", "load", "cut", "cutvoid", "write", "register"} = Starting
      /\ Fresh = {"typed", "auth", "lookup"}
  BY DEF Stages, Starting, Live, Hosting, Over, Waiting, Fresh
<1>v. /\ {"publish", "prepare", "model", "tools", "save", "close", "leaked"} \subseteq Live \ Starting
      /\ {"typed", "auth", "lookup"} \cap (Live \cup Starting) = {}
      /\ Starting \cap Live = {}
  BY DEF Starting, Live, Hosting
<1>m. ASSUME NEW c \in Calls, NEW s, Go(c, s),
             \/ /\ stage[c] \in {"publish", "prepare", "model", "tools", "save"}
                /\ s \in {"prepare", "model", "tools", "save", "close", "leaked"}
             \/ /\ stage[c] \in {"typed", "auth", "lookup"}
                /\ s \in {"auth", "start", "refused", "typed", "lookup"}
                /\ s = "lookup" => c \notin Steers
             \/ /\ stage[c] \in {"start", "load", "cut", "cutvoid", "write", "register"}
                /\ s \in {"load", "cut", "cutvoid", "write", "register", "publish", "prepare"}
                /\ stage[c] = "start" => exists
             \/ /\ stage[c] \in {"start", "load", "cut", "cutvoid", "write", "register"}
                /\ s \in {"refused", "crashed"}
                /\ c \notin scheduled \/ MayFail \/ (stage[c] = "write" /\ ~exists),
             box' = box \/ box' = <<>>,
             UNCHANGED <<queue, scheduled, taken, joined, lined>>
      PROVE  CopyStep
  <2>1. MoveStep
    BY <1>s, <1>v, <1>m DEF MoveStep, MovesOn
  <2> QED BY <2>1 DEF CopyStep
<1>r. ASSUME NEW c \in Calls, stage[c] \in {"start", "load", "cutvoid"}, Refuse(c),
             UNCHANGED <<taken, mailbox, history>>
      PROVE  CopyStep
  BY <1>s, <1>r, RefuseCopies
<1>1. ASSUME NEW c \in Calls, SendChat(c)
      PROVE  CopyStep
  BY <1>1, <1>m DEF SendChat
<1>2. ASSUME NEW c \in Calls, EnterTurn(c)
      PROVE  CopyStep
  BY <1>2, <1>m DEF EnterTurn
<1>3. ASSUME NEW c \in Calls, CheckAccess(c)
      PROVE  CopyStep
  BY <1>3, <1>m, <1>r DEF CheckAccess, InChat
<1>4. ASSUME NEW c \in Calls, LoadThread(c)
      PROVE  CopyStep
  <2>1. CASE Refuse(c)
    BY <1>4, <1>r, <2>1 DEF LoadThread
  <2>2. CASE UNCHANGED lineup /\ \E s \in {"cutvoid", "cut", "register", "write"} : Go(c, s)
    BY <1>4, <1>m, <2>2 DEF LoadThread
  <2> QED BY <1>4, <2>1, <2>2 DEF LoadThread
<1>5. ASSUME NEW c \in Calls, CutThread(c)
      PROVE  CopyStep
  BY <1>5, <1>m, <1>r DEF CutThread
<1>6. ASSUME NEW c \in Calls, WriteUser(c)
      PROVE  CopyStep
  BY <1>6, <1>m DEF WriteUser
<1>7. ASSUME NEW c \in Calls, Register(c)
      PROVE  CopyStep
  <2>1. CASE HasActiveTurn /\ Refuse409(c) /\ UNCHANGED mailbox
    <3>1. CASE c \in scheduled /\ Go(c, "queued") /\ queue' = <<c>> \o queue
      BY <1>7, <2>1, <3>1 DEF Register, Refuse409, CopyStep, RequeueStep
    <3>2. CASE c \notin scheduled /\ Go(c, "refused") /\ UNCHANGED queue
      BY <1>7, <1>m, <2>1, <3>2 DEF Register, Refuse409
    <3> QED BY <2>1, <3>1, <3>2 DEF Refuse409
  <2>2. CASE Admit(c)
    BY <1>7, <1>m, <2>2 DEF Register, Admit, OpenMailbox
  <2> QED BY <1>7, <2>1, <2>2 DEF Register
<1>8. ASSUME NEW c \in Calls, Publish(c)
      PROVE  CopyStep
  BY <1>8, <1>m DEF Publish, OpenMailbox
<1>9. ASSUME NEW c \in Calls, Prepare(c)
      PROVE  CopyStep
  BY <1>9, <1>m DEF Prepare
<1>10. ASSUME NEW c \in Calls, ModelRound(c)
      PROVE  CopyStep
  BY <1>10, <1>m DEF ModelRound
<1>11. ASSUME NEW c \in Calls, RunTools(c)
      PROVE  CopyStep
  <2>1. CASE Go(c, "save") /\ UNCHANGED <<round, taken, box>>
    BY <1>11, <1>m, <2>1 DEF RunTools
  <2>2. CASE /\ Go(c, IF box = <<>> THEN "model" ELSE "splice")
             /\ taken' = [taken EXCEPT ![c] = box] /\ box' = <<>>
    BY <1>11, <2>2 DEF RunTools, CopyStep, DrainStep
  <2> QED BY <1>11, <2>1, <2>2 DEF RunTools
<1>12. ASSUME NEW c \in Calls, Splice(c)
      PROVE  CopyStep
  <2>1. CASE joined' = [joined EXCEPT ![Head(taken[c])] = c] /\ Go(c, "announce") /\ UNCHANGED taken
    BY <1>12, <2>1 DEF Splice, CopyStep, SpliceStep
  <2>2. CASE /\ Go(c, "save") /\ taken' = [taken EXCEPT ![c] = <<>>]
             /\ UNCHANGED joined
    BY <1>12, <2>2 DEF Splice, CopyStep, GiveUpStep
  <2> QED BY <1>12, <2>1, <2>2 DEF Splice
<1>13. ASSUME NEW c \in Calls, Announce(c)
      PROVE  CopyStep
  BY <1>13 DEF Announce, CopyStep, ConsumeStep, GiveUpStep
<1>14. ASSUME NEW c \in Calls, SaveReply(c)
      PROVE  CopyStep
  BY <1>14, <1>m DEF SaveReply
<1>15. ASSUME NEW c \in Calls, CloseTurn(c)
      PROVE  CopyStep
  BY <1>15 DEF CloseTurn, CopyStep, EndStep
<1>17. ASSUME NEW c \in Calls, CrashStart(c)
      PROVE  CopyStep
  BY <1>s, <1>17, <1>m DEF CrashStart
<1>18. ASSUME NEW c \in Calls, CrashPublish(c)
      PROVE  CopyStep
  BY <1>18, <1>m DEF CrashPublish
<1>19. ASSUME NEW c \in Calls, CrashRunner(c)
      PROVE  CopyStep
  BY <1>19 DEF CrashRunner, CopyStep, EndStep
<1>20. ASSUME NEW m \in Msgs, AskQueue(m)
      PROVE  CopyStep
  BY <1>20, <1>m DEF AskQueue, Calls
<1>21. ASSUME NEW m \in Msgs, LandInQueue(m)
      PROVE  CopyStep
  <2>1. CASE \E s \in {"refused", "typed"} : Go(m, s) /\ UNCHANGED <<queue, box, lined>>
    BY <1>21, <1>m, <2>1 DEF LandInQueue, Calls
  <2>2. CASE /\ HasActiveTurn /\ Go(m, "queued")
             /\ queue' = Append(queue, m) /\ lined' = Append(lined, m)
             /\ box' = IF listening /\ m \notin WithFiles THEN Append(box, m) ELSE box
    BY <1>21, <2>2 DEF LandInQueue, CopyStep, LandStep
  <2> QED BY <1>21, <2>1, <2>2 DEF LandInQueue
<1>22. ASSUME NEW m \in Msgs, OfferSteer(m)
      PROVE  CopyStep
  <2>1. CASE Go(m, "refused") /\ UNCHANGED box
    BY <1>22, <1>m, <2>1 DEF OfferSteer, Calls
  <2>2. CASE Go(m, "offered") /\ box' = Append(box, m)
    BY <1>22, <2>2 DEF OfferSteer, CopyStep, OfferStep
  <2> QED BY <1>22, <2>1, <2>2 DEF OfferSteer
<1>23. ASSUME NEW u \in Users, NEW m \in Msgs, CancelQueued(u, m)
      PROVE  CopyStep
  <2>1. {m} \cap (Range(queue) \cup Range(box)) = {m}
    BY <1>23 DEF CancelQueued
  <2>2. Withdraw({m})
    BY <1>23 DEF CancelQueued, Withdraw, Go, TypeInv, TypeOK, StageOK
  <2>3. TakeAwayStep
    <3>1. {m} \in SUBSET Msgs
      OBVIOUS
    <3> QED BY <1>23, <2>1, <2>2, <3>1 DEF CancelQueued, TakeAwayStep
  <2> QED BY <2>3 DEF CopyStep
<1>26. ASSUME NEW u \in Users, WithdrawWords(u)
      PROVE  CopyStep
  <2> DEFINE theirs == {m \in Msgs : Author[m] = u}
  <2>1. theirs \in SUBSET Msgs
    OBVIOUS
  <2>2. /\ queue' \in Excluding(queue, theirs) /\ box' \in Excluding(box, theirs)
        /\ Withdraw(theirs \cap (Range(queue) \cup Range(box)))
        /\ UNCHANGED <<scheduled, taken, joined, lined>>
    BY <1>26 DEF WithdrawWords
  <2> HIDE DEF theirs
  <2>3. TakeAwayStep
    BY <2>1, <2>2 DEF TakeAwayStep
  <2> QED BY <2>3 DEF CopyStep
<1>27. ASSUME DeleteBegin \/ DeleteAnnounce
      PROVE  CopyStep
  BY <1>27 DEF DeleteBegin, DeleteAnnounce, CopyStep, ClearStep
<1>q. ASSUME UNCHANGED <<stage, queue, scheduled, box, taken, joined, lined>>
      PROVE  CopyStep
  BY <1>q DEF CopyStep, StillStep
<1>16. ASSUME NEW c \in Calls, HardStop(c)
      PROVE  CopyStep
  BY <1>16, <1>q DEF HardStop
<1>24. ASSUME NEW u \in Users, StopButton(u) \/ RemoveMember(u)
      PROVE  CopyStep
  BY <1>24, <1>q DEF StopButton, RemoveMember
<1>28. ASSUME DeleteRows \/ BeginDrain \/ EndDrain \/ Unconfigure \/ UNCHANGED vars
      PROVE  CopyStep
  BY <1>28, <1>q DEF DeleteRows, BeginDrain, EndDrain, Unconfigure, vars
<1> QED
  BY <1>1, <1>2, <1>3, <1>4, <1>5, <1>6, <1>7, <1>8, <1>9, <1>10, <1>11, <1>12, <1>13, <1>14, <1>15, <1>16, <1>17, <1>18, <1>19, <1>20, <1>21, <1>22, <1>23, <1>24, <1>26, <1>27, <1>28
  DEF Next, Step, Work, Crash, Deleting

\* runNextQueued takes the entries H (the head, or nobody) out of the queue,
\* to start them, or under a drain to drop them.
ShiftOf(H, st, busy) ==
  /\ H \subseteq Msgs \cap Range(queue)
  /\ \A h \in H : stage[h] = "queued"
  /\ Range(queue') = Range(queue) \ H
  /\ scheduled' = scheduled \cup (IF draining THEN {} ELSE H)
  /\ \A x \in Calls : stage'[x] = IF x \in H THEN (IF draining THEN "dropped" ELSE "start") ELSE st[x]
  /\ H = {} => queue' = queue /\ (queue = <<>> \/ (busy /\ ~draining))
  /\ H # {} => queue # <<>> /\ queue' = Tail(queue) /\ H = {Head(queue)} /\ (draining \/ ~busy)

\* Every call of runNextQueued does.
LEMMA ShiftsOut ==
  ASSUME TypeInv, QueueWaits, NEW st \in [Calls -> Stages], NEW busy, RunNextQueued(st, busy)
  PROVE  \E H : ShiftOf(H, st, busy)
<1>1. queue \in Seq(Msgs)
  BY DEF TypeInv, TypeOK, LineupOK
<1>2. CASE stage' = st /\ UNCHANGED lineup /\ (queue = <<>> \/ (busy /\ ~draining))
  <2>1. ShiftOf({}, st, busy)
    BY <1>2 DEF ShiftOf, lineup
  <2> QED BY <2>1
<1>3. ASSUME queue # <<>>, queue' = Tail(queue), draining \/ ~busy,
             stage' = [st EXCEPT ![Head(queue)] = IF draining THEN "dropped" ELSE "start"],
             scheduled' = scheduled \cup (IF draining THEN {} ELSE {Head(queue)})
      PROVE  \E H : ShiftOf(H, st, busy)
  <2> DEFINE h == Head(queue)
  <2>1. /\ h \in Msgs /\ h \in Calls /\ stage[h] = "queued"
        /\ \A i \in DOMAIN Tail(queue) : Tail(queue)[i] # h
    BY <1>3, HeadAndTail
  <2>2. Range(queue) = {h} \cup Range(Tail(queue))
    BY <1>1, <1>3, <2>1, RangesOfSequences
  <2>3. h \notin Range(Tail(queue))
    BY <2>1 DEF Range
  <2>4. Range(queue') = Range(queue) \ {h}
    BY <1>3, <2>2, <2>3
  <2>5. stage' = [st EXCEPT ![h] = IF draining THEN "dropped" ELSE "start"]
    BY <1>3
  <2>6. scheduled' = scheduled \cup (IF draining THEN {} ELSE {h})
    BY <1>3
  <2>7. h = Head(queue)
    OBVIOUS
  <2> HIDE DEF h
  <2>8. ShiftOf({h}, st, busy)
    BY <1>3, <2>1, <2>2, <2>4, <2>5, <2>6, <2>7 DEF ShiftOf
  <2> QED BY <2>8
<1>4. CASE /\ queue # <<>> /\ draining /\ queue' = Tail(queue) /\ UNCHANGED scheduled
           /\ stage' = [st EXCEPT ![Head(queue)] = "dropped"]
  BY <1>3, <1>4
<1>5. CASE /\ queue # <<>> /\ ~draining /\ ~busy /\ queue' = Tail(queue)
           /\ stage' = [st EXCEPT ![Head(queue)] = "start"]
           /\ scheduled' = scheduled \cup {Head(queue)}
  BY <1>3, <1>5
<1> QED BY <1>2, <1>4, <1>5 DEF RunNextQueued

\* The baton, entry by entry.
LEMMA BatonShifts ==
  ASSUME TypeInv, WaitInv, BatonStep
  PROVE  \E c \in Calls, H \in SUBSET Msgs :
           /\ c \in scheduled /\ stage[c] \in Starting
           /\ ShiftOf(H, [stage EXCEPT ![c] = "told"], HasActiveTurn)
           /\ \A x \in Calls : stage'[x] = IF x \in H THEN (IF draining THEN "dropped" ELSE "start")
                                           ELSE IF x = c THEN "told" ELSE stage[x]
<1>1. PICK c \in scheduled : /\ stage[c] \in Starting
                             /\ RunNextQueued([stage EXCEPT ![c] = "told"], HasActiveTurn)
  BY DEF BatonStep
<1>2. /\ c \in Calls /\ "told" \in Stages /\ stage \in [Calls -> Stages]
      /\ [stage EXCEPT ![c] = "told"] \in [Calls -> Stages]
  BY DEF TypeInv, TypeOK, LineupOK, StageOK, Calls, Stages, Over
<1>3. PICK H : ShiftOf(H, [stage EXCEPT ![c] = "told"], HasActiveTurn)
  BY <1>1, <1>2, ShiftsOut DEF WaitInv
<1>4. \A x \in Calls : [stage EXCEPT ![c] = "told"][x] = IF x = c THEN "told" ELSE stage[x]
  BY <1>2
<1>5. \A x \in Calls : stage'[x] = IF x \in H THEN (IF draining THEN "dropped" ELSE "start")
                                   ELSE IF x = c THEN "told" ELSE stage[x]
  BY <1>3, <1>4 DEF ShiftOf
<1>6. H \in SUBSET Msgs
  BY <1>3 DEF ShiftOf
<1> QED BY <1>1, <1>2, <1>3, <1>5, <1>6

\* The end of a runner, entry by entry.  It was the only one, and nothing is
\* in hand.
LEMMA EndShifts ==
  ASSUME TypeInv, WaitInv, EndStep
  PROVE  /\ box' = <<>> /\ UNCHANGED <<taken, joined, lined>>
         /\ \E c \in Calls, H \in SUBSET Msgs, st \in [Calls -> Stages] :
              /\ stage[c] \in {"prepare", "close"}
              /\ \A x \in Calls \ {c} : stage[x] \notin Live
              /\ ShiftOf(H, st, FALSE)
              /\ \A x \in Calls : stage'[x] = IF x \in H THEN (IF draining THEN "dropped" ELSE "start")
                   ELSE IF x = c THEN "ended"
                   ELSE IF x \in Range(box) /\ stage[x] = "offered" THEN "dropped" ELSE stage[x]
<1>1. PICK c \in Calls : stage[c] \in {"prepare", "close"} /\ EndRunner(c)
  BY DEF EndStep
<1> DEFINE st == [x \in Calls |-> IF x = c THEN "ended"
                                  ELSE IF x \in Range(box) /\ stage[x] = "offered" THEN "dropped"
                                  ELSE stage[x]]
<1>2. {"ended", "dropped"} \subseteq Stages /\ {"prepare", "close"} \subseteq Live
  BY DEF Stages, Over, Live, Hosting
<1>3. st \in [Calls -> Stages]
  BY <1>2 DEF TypeInv, TypeOK, StageOK
<1>4. RunNextQueued(st, FALSE) /\ box' = <<>> /\ UNCHANGED <<taken, joined, lined>>
  BY <1>1 DEF EndRunner, calls, history
<1>5. \A x \in Calls : st[x] = IF x = c THEN "ended"
                               ELSE IF x \in Range(box) /\ stage[x] = "offered" THEN "dropped"
                               ELSE stage[x]
  OBVIOUS
<1> HIDE DEF st
<1>6. PICK H : ShiftOf(H, st, FALSE)
  BY <1>3, <1>4, ShiftsOut DEF WaitInv
<1>7. H \in SUBSET Msgs
  BY <1>6 DEF ShiftOf
<1>8. \A x \in Calls \ {c} : stage[x] \notin Live
  BY <1>1, <1>2 DEF WaitInv, RegistryOwnsRunner
<1>9. \A x \in Calls : stage'[x] = IF x \in H THEN (IF draining THEN "dropped" ELSE "start")
                                   ELSE IF x = c THEN "ended"
                                   ELSE IF x \in Range(box) /\ stage[x] = "offered" THEN "dropped"
                                   ELSE stage[x]
  BY <1>5, <1>6 DEF ShiftOf
<1> QED BY <1>1, <1>3, <1>4, <1>6, <1>7, <1>8, <1>9

\* Only a turn that is applying interjections has some in hand, and what it has
\* in hand waits nowhere else than in the queue.
HandInv ==
  /\ \A c \in Calls : stage[c] \notin {"splice", "announce"} => taken[c] = <<>>
  /\ \A c \in Calls : \A m \in Range(taken[c]) : stage[m] \in Waiting /\ m \notin Range(box)

\* Words in hand, in the queue and in the mailbox are messages.
LEMMA WordsAreMessages ==
  ASSUME TypeInv
  PROVE  /\ Range(queue) \subseteq Msgs /\ Range(box) \subseteq Msgs
         /\ \A c \in Calls : Range(taken[c]) \subseteq Msgs
         /\ scheduled \subseteq Msgs /\ Msgs \subseteq Calls
         /\ Range(<<>>) = {}
         /\ queue \in Seq(Msgs) /\ box \in Seq(Msgs)
         /\ \A c \in Calls : taken[c] \in Seq(Msgs)
BY DEF TypeInv, TypeOK, LineupOK, MailboxOK, CallsOK, Range, Calls

\* Every step keeps what is in hand apart.
LEMMA HandStep ==
  ASSUME TypeInv, WaitInv, HandInv, CopyStep
  PROVE  HandInv'
<1>0. /\ stage \in [Calls -> Stages] /\ taken \in [Calls -> Seq(Msgs)]
      /\ Waiting \cap (Live \cup Hosting \cup Starting \cup {"typed", "lookup", "splice", "announce"}) = {}
      /\ {"splice", "announce"} \subseteq Live
      /\ {"splice", "announce", "tools"} \subseteq Live
      /\ \A x, y \in Calls : stage[x] \in Live /\ stage[y] \in Live => x = y
  BY DEF TypeInv, TypeOK, StageOK, CallsOK, Waiting, Live, Hosting, Starting, WaitInv, RegistryOwnsRunner
<1>w. /\ Range(queue) \subseteq Msgs /\ Range(box) \subseteq Msgs
      /\ \A c \in Calls : Range(taken[c]) \subseteq Msgs
      /\ scheduled \subseteq Msgs /\ Msgs \subseteq Calls
      /\ Range(<<>>) = {}
      /\ queue \in Seq(Msgs) /\ box \in Seq(Msgs)
      /\ \A c \in Calls : taken[c] \in Seq(Msgs)
  BY WordsAreMessages
<1>1. CASE MoveStep
  <2>1. PICK c \in Calls, s \in Stages :
          /\ Go(c, s) /\ stage[c] \notin Waiting \cup {"splice", "announce"}
          /\ s \notin Waiting \cup {"splice", "announce"}
          /\ box' = box \/ box' = <<>>
          /\ UNCHANGED taken
    BY <1>1 DEF MoveStep
  <2>2. \A x \in Calls : stage'[x] = IF x = c THEN s ELSE stage[x]
    BY <1>0, <2>1 DEF Go
  <2> QED BY <1>w, <2>1, <2>2 DEF HandInv
<1>2. CASE StillStep
  BY <1>2 DEF StillStep, HandInv
<1>3. CASE BatonStep
  <2>1. PICK c \in Calls, H \in SUBSET Msgs :
          /\ c \in scheduled /\ stage[c] \in Starting
          /\ ShiftOf(H, [stage EXCEPT ![c] = "told"], HasActiveTurn)
          /\ \A x \in Calls : stage'[x] = IF x \in H THEN (IF draining THEN "dropped" ELSE "start")
                                          ELSE IF x = c THEN "told" ELSE stage[x]
    BY <1>3, BatonShifts
  <2>2. UNCHANGED <<box, taken>>
    BY <1>3 DEF BatonStep
  <2>3. H = {} \/ draining \/ \A x \in Calls : stage[x] \notin Live
    BY <2>1, IdleMailbox DEF ShiftOf
  <2>4. \A h \in H : stage[h] = "queued"
    BY <2>1 DEF ShiftOf
  <2>5. ASSUME NEW x \in Calls, stage'[x] \notin {"splice", "announce"}
        PROVE  taken'[x] = <<>>
    <3>1. stage[x] \notin {"splice", "announce"}
      BY <2>1, <2>4, <2>5, <1>0 DEF Starting
    <3> QED BY <2>2, <3>1 DEF HandInv
  <2>6. ASSUME NEW x \in Calls, NEW m \in Range(taken'[x])
        PROVE  stage'[m] \in Waiting /\ m \notin Range(box')
    <3>1. m \in Calls /\ m \in Range(taken[x]) /\ stage[m] \in Waiting /\ m \notin Range(box)
      BY <1>w, <2>2, <2>6 DEF HandInv
    <3>2. x \in Calls /\ stage[x] \in Live
      BY <1>0, <1>w, <3>1 DEF HandInv
    <3>3. m # c /\ (m \in H => draining) /\ "dropped" \in Waiting
      BY <1>0, <2>1, <2>3, <3>1, <3>2 DEF Waiting
    <3> QED BY <2>1, <2>2, <3>1, <3>3
  <2> QED BY <2>5, <2>6 DEF HandInv
<1>4. CASE EndStep
  <2>1. /\ UNCHANGED taken
        /\ \E c \in Calls : /\ stage[c] \in {"prepare", "close"}
                            /\ \A x \in Calls \ {c} : stage[x] \notin Live
    BY <1>4, EndShifts
  <2>2. \A x \in Calls : taken[x] = <<>>
    BY <1>0, <2>1 DEF HandInv
  <2> QED BY <1>w, <2>1, <2>2 DEF HandInv
<1>5. CASE RequeueStep
  <2>1. PICK c \in scheduled : /\ stage[c] = "register" /\ Go(c, "queued")
                               /\ UNCHANGED <<box, taken>>
    BY <1>5 DEF RequeueStep
  <2>2. c \in Calls /\ \A x \in Calls : stage'[x] = IF x = c THEN "queued" ELSE stage[x]
    BY <1>0, <1>w, <2>1 DEF Go
  <2>3. "queued" \in Waiting
    BY DEF Waiting
  <2> QED BY <1>w, <2>1, <2>2, <2>3 DEF HandInv
<1>6. CASE DrainStep
  <2>1. PICK c \in Calls :
          /\ stage[c] = "tools" /\ Go(c, IF box = <<>> THEN "model" ELSE "splice")
          /\ taken' = [taken EXCEPT ![c] = box] /\ box' = <<>>
    BY <1>6 DEF DrainStep
  <2>2. /\ \A x \in Calls : stage'[x] = IF x = c THEN (IF box = <<>> THEN "model" ELSE "splice")
                                        ELSE stage[x]
        /\ \A x \in Calls : taken'[x] = IF x = c THEN box ELSE taken[x]
    BY <1>0, <2>1 DEF Go
  <2>3. \A x \in Calls : x # c => taken[x] = <<>>
    BY <1>0, <2>1 DEF HandInv
  <2>4. \A m \in Range(box) : m \in Calls /\ m # c /\ stage[m] \in Waiting
    BY <1>0, <1>w, <2>1 DEF WaitInv, BoxWaits, Waiting
  <2>5. \A m \in Range(box) : stage'[m] \in Waiting
    BY <2>2, <2>4
  <2> QED BY <1>w, <2>1, <2>2, <2>3, <2>5 DEF HandInv
<1>7. CASE SpliceStep
  <2>1. PICK c \in Calls : stage[c] = "splice" /\ Go(c, "announce") /\ UNCHANGED <<box, taken>>
    BY <1>7 DEF SpliceStep
  <2>2. \A x \in Calls : stage'[x] = IF x = c THEN "announce" ELSE stage[x]
    BY <1>0, <2>1 DEF Go
  <2> QED BY <1>0, <1>w, <2>1, <2>2 DEF HandInv
<1>8. CASE ConsumeStep
  <2>1. PICK c \in Calls :
          /\ stage[c] = "announce"
          /\ stage' = [stage EXCEPT
               ![Head(taken[c])] = IF @ \in {"queued", "offered"} THEN "joined" ELSE @,
               ![c] = IF Tail(taken[c]) = <<>> THEN "model" ELSE "splice"]
          /\ taken' = [taken EXCEPT ![c] = Tail(taken[c])]
          /\ UNCHANGED box
    BY <1>8 DEF ConsumeStep
  <2> DEFINE m == Head(taken[c])
  <2>2. taken[c] # <<>> /\ m \in Msgs /\ Range(Tail(taken[c])) \subseteq Range(taken[c])
    <3>1. taken[c] # <<>>
      BY <2>1 DEF TypeInv, WordsInHand
    <3>2. PICK y \in Msgs : TRUE
      BY <3>1, <1>w
    <3>3. taken[c] \in Seq(Msgs)
      BY <1>w
    <3>4. /\ Range(taken[c]) = {Head(taken[c])} \cup Range(Tail(taken[c]))
          /\ Head(taken[c]) \in Msgs
      BY <3>1, <3>2, <3>3, RangesOfSequences
    <3> QED BY <3>1, <3>4
  <2>3. \A x \in Calls : taken'[x] = IF x = c THEN Tail(taken[c]) ELSE taken[x]
    BY <1>0, <2>1
  <2>4. \A x \in Calls : stage'[x] = IF x = c THEN (IF Tail(taken[c]) = <<>> THEN "model" ELSE "splice")
                                     ELSE IF x = m /\ stage[x] \in {"queued", "offered"} THEN "joined"
                                     ELSE stage[x]
    BY <1>0, <1>w, <2>1, <2>2
  <2> HIDE DEF m
  <2>5. \A x \in Calls : stage[x] \in Waiting => stage'[x] \in Waiting
    BY <1>0, <2>1, <2>4 DEF Waiting
  <2>6. \A x \in Calls : stage'[x] \notin {"splice", "announce"} =>
           stage[x] \notin {"splice", "announce"} \/ (x = c /\ Tail(taken[c]) = <<>>)
    BY <1>0, <2>1, <2>4
  <2>7. \A x \in Calls : \A w \in Range(taken'[x]) : w \in Range(taken[x])
    BY <2>2, <2>3
  <2> QED BY <1>w, <2>1, <2>3, <2>5, <2>6, <2>7 DEF HandInv
<1>9. CASE GiveUpStep
  <2>1. PICK c \in Calls : /\ stage[c] \in {"splice", "announce"}
                           /\ Go(c, "save") /\ taken' = [taken EXCEPT ![c] = <<>>]
                           /\ UNCHANGED box
    BY <1>9 DEF GiveUpStep
  <2>2. /\ \A x \in Calls : stage'[x] = IF x = c THEN "save" ELSE stage[x]
        /\ \A x \in Calls : taken'[x] = IF x = c THEN <<>> ELSE taken[x]
    BY <1>0, <2>1 DEF Go
  <2> QED BY <1>0, <1>w, <2>1, <2>2 DEF HandInv
<1>10. CASE LandStep
  <2>1. PICK m \in Msgs : /\ stage[m] = "lookup" /\ Go(m, "queued")
                          /\ box' = box \/ box' = Append(box, m)
                          /\ UNCHANGED taken
    BY <1>10 DEF LandStep
  <2>4. Range(Append(box, m)) = Range(box) \cup {m}
    <3>1. box \in Seq(Msgs)
      BY <1>w
    <3> QED BY <3>1, MessageAdded
  <2>2. /\ \A x \in Calls : stage'[x] = IF x = m THEN "queued" ELSE stage[x]
        /\ Range(box') \subseteq Range(box) \cup {m}
    BY <1>0, <1>w, <2>1, <2>4 DEF Go
  <2>3. \A x \in Calls : m \notin Range(taken[x])
    BY <1>0, <2>1 DEF HandInv
  <2> QED BY <1>0, <1>w, <2>1, <2>2, <2>3 DEF HandInv
<1>11. CASE OfferStep
  <2>1. PICK m \in Steers : /\ stage[m] = "typed" /\ Go(m, "offered") /\ box' = Append(box, m)
                            /\ UNCHANGED taken
    BY <1>11 DEF OfferStep
  <2>0. m \in Msgs
    BY ChatAssumption
  <2>4. Range(Append(box, m)) = Range(box) \cup {m}
    <3>1. box \in Seq(Msgs)
      BY <1>w
    <3> QED BY <2>0, <3>1, MessageAdded
  <2>2. /\ \A x \in Calls : stage'[x] = IF x = m THEN "offered" ELSE stage[x]
        /\ Range(box') \subseteq Range(box) \cup {m}
    BY <1>0, <1>w, <2>0, <2>1, <2>4 DEF Go
  <2>3. \A x \in Calls : m \notin Range(taken[x])
    BY <1>0, <2>1 DEF HandInv
  <2> QED BY <1>0, <1>w, <2>1, <2>2, <2>3 DEF HandInv
<1>12. CASE TakeAwayStep \/ ClearStep
  <2>1. /\ UNCHANGED taken
        /\ \E S : Withdraw(S) /\ \A x \in S : x \in Calls => stage[x] \in Waiting
    <3>1. \A x \in Range(queue) \cup Range(box) : stage[x] \in Waiting
      BY DEF WaitInv, QueueWaits, BoxWaits, Waiting, Range
    <3> QED BY <1>12, <3>1 DEF TakeAwayStep, ClearStep, ClearQueued
  <2>2. Range(box') \subseteq Range(box)
    <3>1. CASE UNCHANGED box
      BY <3>1
    <3>2. ASSUME NEW W, box' \in Excluding(box, W)
          PROVE  Range(box') \subseteq Range(box)
      BY <1>w, <3>2, ExcludedExactly
    <3> QED BY <1>12, <3>1, <3>2 DEF TakeAwayStep, ClearStep
  <2>3. PICK S : Withdraw(S) /\ \A x \in S : x \in Calls => stage[x] \in Waiting
    BY <2>1
  <2>4. \A x \in Calls : stage'[x] = IF x \in S THEN "withdrawn" ELSE stage[x]
    BY <2>3 DEF Withdraw
  <2>5. "withdrawn" \in Waiting
    BY DEF Waiting
  <2> QED BY <1>0, <1>w, <2>1, <2>2, <2>3, <2>4, <2>5 DEF HandInv
<1> QED BY <1>1, <1>2, <1>3, <1>4, <1>5, <1>6, <1>7, <1>8, <1>9, <1>10, <1>11, <1>12 DEF CopyStep

\* Nothing but a delete touches the conversation's row or the delete's progress.
LEMMA OnlyDeleting ==
  ASSUME [Next]_vars
  PROVE  Deleting \/ UNCHANGED <<exists, deletion>>
<1> USE DEF db, control
<1>1. ASSUME NEW c \in Calls, SendChat(c) \/ EnterTurn(c) \/ CheckAccess(c) \/ LoadThread(c)
      PROVE  UNCHANGED <<exists, deletion>>
  BY <1>1 DEF SendChat, EnterTurn, CheckAccess, LoadThread
<1>2. ASSUME NEW c \in Calls, CutThread(c) \/ WriteUser(c) \/ Register(c) \/ Publish(c)
      PROVE  UNCHANGED <<exists, deletion>>
  BY <1>2 DEF CutThread, WriteUser, Register, Publish
<1>3. ASSUME NEW c \in Calls, Prepare(c) \/ Splice(c) \/ Announce(c) \/ SaveReply(c) \/ CloseTurn(c)
      PROVE  UNCHANGED <<exists, deletion>>
  BY <1>3 DEF Prepare, Splice, Announce, SaveReply, CloseTurn, EndRunner
<1>4. ASSUME NEW c \in Calls, ModelRound(c) \/ RunTools(c) \/ HardStop(c)
      PROVE  UNCHANGED <<exists, deletion>>
  BY <1>4 DEF ModelRound, RunTools, HardStop
<1>5. ASSUME NEW c \in Calls, CrashStart(c) \/ CrashPublish(c) \/ CrashRunner(c)
      PROVE  UNCHANGED <<exists, deletion>>
  BY <1>5 DEF CrashStart, CrashPublish, CrashRunner, EndRunner
<1>6. ASSUME NEW m \in Msgs, AskQueue(m) \/ LandInQueue(m) \/ OfferSteer(m)
      PROVE  UNCHANGED <<exists, deletion>>
  BY <1>6 DEF AskQueue, LandInQueue, OfferSteer
<1>7. ASSUME NEW u \in Users, NEW m \in Msgs, CancelQueued(u, m)
      PROVE  UNCHANGED <<exists, deletion>>
  BY <1>7 DEF CancelQueued
<1>8. ASSUME NEW u \in Users, StopButton(u) \/ RemoveMember(u) \/ WithdrawWords(u)
      PROVE  UNCHANGED <<exists, deletion>>
  BY <1>8 DEF StopButton, RemoveMember, WithdrawWords
<1>9. ASSUME BeginDrain \/ EndDrain \/ Unconfigure \/ UNCHANGED vars
      PROVE  UNCHANGED <<exists, deletion>>
  BY <1>9 DEF BeginDrain, EndDrain, Unconfigure, vars
<1> QED BY <1>1, <1>2, <1>3, <1>4, <1>5, <1>6, <1>7, <1>8, <1>9 DEF Next, Step, Work, Crash

\* While nothing is deleted, every step keeps the copies: what leaves the queue
\* is out of the mailbox, or was dropped by a drain.
LEMMA CopiesStep ==
  ASSUME TypeInv, WaitInv, HandInv, OffersKeepACopy, CopyStep, ~MayDelete, deletion = "no"
  PROVE  OffersKeepACopy'
<1>0. stage \in [Calls -> Stages]
  BY DEF TypeInv, TypeOK, StageOK
<1>w. /\ Range(queue) \subseteq Msgs /\ Range(box) \subseteq Msgs
      /\ Msgs \subseteq Calls /\ scheduled \subseteq Msgs
      /\ Range(<<>>) = {}
      /\ queue \in Seq(Msgs) /\ box \in Seq(Msgs)
      /\ \A c \in Calls : taken[c] \in Seq(Msgs)
  BY WordsAreMessages
<1>k. ASSUME \A m \in Range(box') \ Steers : m \in Range(box),
             \A m \in Range(box) \cap Range(box') : m \in Range(queue) => m \in Range(queue') \/ stage'[m] = "dropped",
             \A m \in Range(box) \cap Range(box') : stage[m] = "dropped" => stage'[m] = "dropped"
      PROVE  OffersKeepACopy'
  BY <1>k, <1>w DEF OffersKeepACopy, DrainDropped
<1>b. \A m \in Range(box) : stage[m] \in Waiting
  BY DEF WaitInv, BoxWaits, Waiting
<1>z. ASSUME box' = <<>>
      PROVE  OffersKeepACopy'
  BY <1>k, <1>w, <1>z
<1>1. CASE MoveStep
  <2>1. PICK c \in Calls, s \in Stages :
          /\ Go(c, s) /\ stage[c] \notin Waiting
          /\ box' = box \/ box' = <<>>
          /\ UNCHANGED lineup
    BY <1>1 DEF MoveStep
  <2>2. \A x \in Calls : stage'[x] = IF x = c THEN s ELSE stage[x]
    BY <1>0, <2>1 DEF Go
  <2> QED BY <1>b, <1>k, <1>w, <1>z, <2>1, <2>2 DEF lineup
<1>2. CASE StillStep
  BY <1>2, <1>k DEF StillStep, lineup
<1>3. CASE BatonStep
  <2>1. PICK c \in Calls, H \in SUBSET Msgs :
          /\ stage[c] \in Starting
          /\ ShiftOf(H, [stage EXCEPT ![c] = "told"], HasActiveTurn)
          /\ \A x \in Calls : stage'[x] = IF x \in H THEN (IF draining THEN "dropped" ELSE "start")
                                          ELSE IF x = c THEN "told" ELSE stage[x]
    BY <1>3, BatonShifts
  <2>2. UNCHANGED box
    BY <1>3 DEF BatonStep
  <2>3. CASE H = {} \/ draining
    <3>1. c \notin Range(box)
      BY <1>b, <2>1, NamesApart
    <3>2. /\ \A h \in H : draining /\ stage[h] = "queued"
          /\ Range(queue') = Range(queue) \ H
      BY <2>1, <2>3 DEF ShiftOf
    <3>3. \A m \in Range(box) : m \in Range(queue) => m \in Range(queue') \/ stage'[m] = "dropped"
      BY <1>w, <2>1, <3>2
    <3>4. \A m \in Range(box) : stage[m] = "dropped" => stage'[m] = "dropped"
      BY <1>w, <2>1, <3>1, <3>2
    <3> QED BY <1>k, <2>2, <3>3, <3>4
  <2>4. CASE H # {} /\ ~draining
    <3>1. ~HasActiveTurn
      BY <2>1, <2>4 DEF ShiftOf
    <3> QED BY <1>z, <2>2, <3>1, IdleMailbox
  <2> QED BY <2>3, <2>4
<1>4. CASE EndStep
  BY <1>4, <1>z, EndShifts
<1>5. CASE RequeueStep
  <2>1. PICK c \in scheduled : /\ stage[c] = "register" /\ Go(c, "queued")
                               /\ queue' = <<c>> \o queue /\ UNCHANGED box
    BY <1>5 DEF RequeueStep
  <2>2. /\ c \in Msgs
        /\ \A x \in Calls : stage'[x] = IF x = c THEN "queued" ELSE stage[x]
    BY <1>0, <1>w, <2>1 DEF Go
  <2>3. Range(queue') = Range(queue) \cup {c}
    BY <1>w, <2>1, <2>2, MessageAdded
  <2> QED BY <1>k, <1>w, <2>1, <2>2, <2>3
<1>6. CASE DrainStep
  BY <1>6, <1>z DEF DrainStep
<1>7. CASE SpliceStep
  <2>1. PICK c \in Calls : stage[c] = "splice" /\ Go(c, "announce") /\ UNCHANGED <<box, queue>>
    BY <1>7 DEF SpliceStep, lineup
  <2>2. \A x \in Calls : stage'[x] = IF x = c THEN "announce" ELSE stage[x]
    BY <1>0, <2>1 DEF Go
  <2> QED BY <1>k, <1>w, <2>1, <2>2
<1>8. CASE ConsumeStep
  <2>1. PICK c \in Calls :
          /\ stage[c] = "announce"
          /\ queue' \in Excluding(queue, {Head(taken[c])})
          /\ stage' = [stage EXCEPT
               ![Head(taken[c])] = IF @ \in {"queued", "offered"} THEN "joined" ELSE @,
               ![c] = IF Tail(taken[c]) = <<>> THEN "model" ELSE "splice"]
          /\ UNCHANGED box
    BY <1>8 DEF ConsumeStep
  <2> DEFINE m == Head(taken[c])
  <2>2. m \in Msgs /\ m \notin Range(box)
    <3>1. taken[c] # <<>> /\ taken[c] \in Seq(Msgs)
      BY <1>w, <2>1 DEF TypeInv, WordsInHand
    <3>2. m \in Range(taken[c]) /\ m \in Msgs
      BY <3>1 DEF Range
    <3> QED BY <3>2 DEF HandInv
  <2>3. \A x \in Calls : stage'[x] = IF x = c THEN (IF Tail(taken[c]) = <<>> THEN "model" ELSE "splice")
                                     ELSE IF x = m /\ stage[x] \in {"queued", "offered"} THEN "joined"
                                     ELSE stage[x]
    BY <1>0, <1>w, <2>1, <2>2
  <2>4. Range(queue') = Range(queue) \ {m}
    BY <1>w, <2>1, ExcludedExactly
  <2> HIDE DEF m
  <2> QED BY <1>k, <1>w, <2>1, <2>2, <2>3, <2>4
<1>9. CASE GiveUpStep
  <2>1. PICK c \in Calls : /\ stage[c] \in {"splice", "announce"}
                           /\ Go(c, "save") /\ UNCHANGED <<box, queue>>
    BY <1>9 DEF GiveUpStep, lineup
  <2>2. \A x \in Calls : stage'[x] = IF x = c THEN "save" ELSE stage[x]
    BY <1>0, <2>1 DEF Go
  <2> QED BY <1>k, <1>w, <2>1, <2>2
<1>10. CASE LandStep
  <2>1. PICK m \in Msgs : /\ stage[m] = "lookup" /\ Go(m, "queued")
                          /\ queue' = Append(queue, m)
                          /\ box' = box \/ box' = Append(box, m)
    BY <1>10 DEF LandStep
  <2>2. \A x \in Calls : stage'[x] = IF x = m THEN "queued" ELSE stage[x]
    BY <1>0, <1>w, <2>1 DEF Go
  <2>3. Range(queue') = Range(queue) \cup {m}
    BY <1>w, <2>1, MessageAdded
  <2>4. Range(Append(box, m)) = Range(box) \cup {m}
    BY <1>w, MessageAdded
  <2>5. Range(box') \subseteq Range(box) \cup {m}
    BY <2>1, <2>4
  <2> QED BY <1>w, <2>1, <2>2, <2>3, <2>5 DEF OffersKeepACopy, DrainDropped
<1>11. CASE OfferStep
  <2>1. PICK m \in Steers : /\ stage[m] = "typed" /\ Go(m, "offered") /\ box' = Append(box, m)
                            /\ UNCHANGED queue
    BY <1>11 DEF OfferStep, lineup
  <2>2. m \in Msgs /\ \A x \in Calls : stage'[x] = IF x = m THEN "offered" ELSE stage[x]
    BY <1>0, <1>w, <2>1, ChatAssumption DEF Go
  <2>3. Range(box') = Range(box) \cup {m}
    BY <1>w, <2>1, <2>2, MessageAdded
  <2> QED BY <1>k, <1>w, <2>1, <2>2, <2>3
<1>12. CASE TakeAwayStep
  <2>1. PICK W \in SUBSET Msgs :
          /\ queue' \in Excluding(queue, W) /\ box' \in Excluding(box, W)
          /\ Withdraw(W \cap (Range(queue) \cup Range(box)))
    BY <1>12 DEF TakeAwayStep
  <2>2. Range(queue') = Range(queue) \ W /\ Range(box') = Range(box) \ W
    BY <1>w, <2>1, ExcludedExactly
  <2>3. \A x \in Calls : x \notin W => stage'[x] = stage[x]
    BY <2>1 DEF Withdraw
  <2> QED BY <1>k, <1>w, <2>2, <2>3
<1>13. CASE ClearStep
  BY <1>13 DEF ClearStep
<1> QED BY <1>1, <1>2, <1>3, <1>4, <1>5, <1>6, <1>7, <1>8, <1>9, <1>10, <1>11, <1>12, <1>13 DEF CopyStep

\* The invariant of the copies, as long as nothing may be deleted.
CopiesInv == HandInv /\ OffersKeepACopy /\ deletion = "no"

\* While nobody deletes the chat, whatever fails, drains or races: every
\* scheduled message in the mailbox still has its copy in the queue, unless a
\* drain dropped it, so closing the mailbox at the end of a reply loses nothing.
THEOREM OffersAreCopies ==
  ASSUME ~MayDelete
  PROVE  Spec => []OffersKeepACopy
<1>1. Init => CopiesInv
  BY ChatAssumption DEF Init, CopiesInv, HandInv, OffersKeepACopy, Range
<1>2. Init => TypeInv /\ WaitInv
  BY TypeStart, WaitStart
<1>3. TypeInv /\ WaitInv /\ CopiesInv /\ [Next]_vars => (TypeInv /\ WaitInv /\ CopiesInv)'
  <2> SUFFICES ASSUME TypeInv, WaitInv, CopiesInv, [Next]_vars
               PROVE  (TypeInv /\ WaitInv /\ CopiesInv)'
    OBVIOUS
  <2>1. TypeInv' /\ WaitInv' /\ CopyStep
    BY TypeStep, WaitStep, CopySteps
  <2>2. deletion' = "no"
    BY OnlyDeleting DEF CopiesInv, Deleting, DeleteBegin, DeleteRows, DeleteAnnounce
  <2>3. HandInv' /\ OffersKeepACopy'
    BY <2>1, HandStep, CopiesStep DEF CopiesInv
  <2> QED BY <2>1, <2>2, <2>3 DEF CopiesInv
<1>4. CopiesInv => OffersKeepACopy
  BY DEF CopiesInv
<1> QED BY <1>1, <1>2, <1>3, <1>4, PTL DEF Spec

-----------------------------------------------------------------------------
(* A message that joined never runs *)

\* Without failing queries: nothing in hand or in the mailbox was given a turn
\* of its own, what was given one is past being typed, and what was spliced was
\* given none and keeps a copy in the queue only until its turn announces it.
JoinInv ==
  /\ \A c \in Calls : \A m \in Range(taken[c]) : m \notin scheduled
  /\ \A m \in Range(box) : m \notin scheduled
  /\ \A m \in scheduled : stage[m] \notin Fresh \cup {"offered"}
  /\ \A m \in Msgs : joined[m] # None =>
       /\ m \notin scheduled /\ stage[m] \in Waiting
       /\ m \in Range(queue) => \E c \in Calls : stage[c] = "announce" /\ m = Head(taken[c])

\* With nobody running, nothing is in hand, in the mailbox or spliced and still
\* in the queue.
LEMMA NothingInHand ==
  ASSUME HandInv, JoinInv, \A x \in Calls : stage[x] \notin Live
  PROVE  /\ \A c \in Calls : taken[c] = <<>>
         /\ \A m \in Msgs : joined[m] # None => m \notin Range(queue)
BY DEF HandInv, JoinInv, Live, Hosting

\* Every step keeps it, failing queries apart.
LEMMA JoinStep ==
  ASSUME TypeInv, WaitInv, HandInv, JoinInv, CopyStep, ~MayFail
  PROVE  JoinInv'
<1>0. /\ stage \in [Calls -> Stages] /\ taken \in [Calls -> Seq(Msgs)]
      /\ joined \in [Msgs -> Calls \cup {None}]
      /\ \A x, y \in Calls : stage[x] \in Live /\ stage[y] \in Live => x = y
      /\ {"splice", "announce", "tools", "prepare", "close", "save", "model"} \subseteq Live
  BY DEF TypeInv, TypeOK, StageOK, CallsOK, HistoryOK, WaitInv, RegistryOwnsRunner, Live, Hosting
<1>1. /\ Waiting \cap (Live \cup Starting \cup Fresh \cup {"told", "ended", "refused", "crashed"}) = {}
      /\ {"queued", "offered", "joined", "withdrawn", "dropped"} = Waiting
      /\ Starting \cap (Live \cup Fresh) = {}
      /\ {"start", "told", "ended", "queued", "model", "splice", "announce", "save", "joined",
          "withdrawn", "dropped"} \cap (Fresh \cup {"offered"}) = {}
      /\ {"typed", "lookup"} \subseteq Fresh
  BY DEF Waiting, Live, Hosting, Starting, Fresh
<1>w. /\ Range(queue) \subseteq Msgs /\ Range(box) \subseteq Msgs
      /\ \A c \in Calls : Range(taken[c]) \subseteq Msgs
      /\ scheduled \subseteq Msgs /\ Msgs \subseteq Calls
      /\ Range(<<>>) = {}
      /\ queue \in Seq(Msgs) /\ box \in Seq(Msgs)
      /\ \A c \in Calls : taken[c] \in Seq(Msgs)
  BY WordsAreMessages
<1>b. \A m \in Range(box) : stage[m] \in Waiting
  BY DEF WaitInv, BoxWaits, Waiting
<1>2. CASE MoveStep
  <2>1. PICK c \in Calls, s \in Stages :
          /\ Go(c, s) /\ stage[c] \notin Waiting \cup {"splice", "announce"}
          /\ s \notin Waiting \cup {"splice", "announce"}
          /\ s \in Fresh => stage[c] \in Fresh
          /\ box' = box \/ box' = <<>>
          /\ UNCHANGED <<queue, scheduled, taken, joined>>
    BY <1>2 DEF MoveStep, lineup
  <2>2. \A x \in Calls : stage'[x] = IF x = c THEN s ELSE stage[x]
    BY <1>0, <2>1 DEF Go
  <2>3. \A x \in Calls : stage'[x] = "announce" <=> stage[x] = "announce"
    BY <2>1, <2>2
  <2>4. \A m \in scheduled : stage'[m] \notin Fresh \cup {"offered"}
    BY <1>1, <1>w, <2>1, <2>2 DEF JoinInv
  <2>5. \A x \in Calls : stage[x] \in Waiting => stage'[x] \in Waiting
    BY <2>1, <2>2
  <2> QED BY <1>w, <2>1, <2>3, <2>4, <2>5 DEF JoinInv
<1>3. CASE StillStep
  BY <1>3 DEF StillStep, lineup, JoinInv
<1>4. CASE BatonStep
  <2>1. PICK c \in Calls, H \in SUBSET Msgs :
          /\ c \in scheduled /\ stage[c] \in Starting
          /\ ShiftOf(H, [stage EXCEPT ![c] = "told"], HasActiveTurn)
          /\ \A x \in Calls : stage'[x] = IF x \in H THEN (IF draining THEN "dropped" ELSE "start")
                                          ELSE IF x = c THEN "told" ELSE stage[x]
    BY <1>4, BatonShifts
  <2>2. UNCHANGED <<box, taken, joined>>
    BY <1>4 DEF BatonStep
  <2>3. /\ \A h \in H : stage[h] = "queued" /\ h \in Range(queue)
        /\ Range(queue') = Range(queue) \ H
        /\ scheduled' = scheduled \cup (IF draining THEN {} ELSE H)
        /\ H = {} \/ draining \/ ~HasActiveTurn
    BY <2>1 DEF ShiftOf
  <2>4. \A m \in scheduled' : stage'[m] \notin Fresh \cup {"offered"}
    BY <1>1, <1>w, <2>1, <2>3 DEF JoinInv
  <2>5. \A x \in Calls : stage[x] = "announce" => stage'[x] = "announce"
    BY <1>0, <1>1, <2>1, <2>3
  <2>6. CASE H = {} \/ draining
    <3>1. scheduled' = scheduled
      BY <2>3, <2>6
    <3>2. \A m \in Msgs : stage[m] \in Waiting => stage'[m] \in Waiting
      BY <1>1, <1>w, <2>1, <2>6
    <3> QED BY <1>w, <2>2, <2>3, <2>4, <2>5, <3>1, <3>2 DEF JoinInv
  <2>7. CASE ~HasActiveTurn
    <3>1. (\A x \in Calls : stage[x] \notin Live) /\ box = <<>>
      BY <2>7, IdleMailbox
    <3>2. /\ \A x \in Calls : taken[x] = <<>>
          /\ \A m \in Msgs : joined[m] # None => m \notin Range(queue)
      BY <3>1, NothingInHand
    <3>3. \A m \in Msgs : joined[m] # None => /\ m \notin H /\ m \notin scheduled'
                                              /\ stage'[m] \in Waiting
                                              /\ m \notin Range(queue')
      BY <1>1, <1>w, <2>1, <2>3, <3>2 DEF JoinInv
    <3> QED BY <1>w, <2>2, <2>4, <3>1, <3>2, <3>3 DEF JoinInv
  <2> QED BY <2>3, <2>6, <2>7
<1>5. CASE EndStep
  <2>1. box' = <<>> /\ UNCHANGED <<taken, joined>>
    BY <1>5, EndShifts
  <2>2. PICK c \in Calls, H \in SUBSET Msgs, st \in [Calls -> Stages] :
          /\ stage[c] \in {"prepare", "close"}
          /\ \A x \in Calls \ {c} : stage[x] \notin Live
          /\ ShiftOf(H, st, FALSE)
          /\ \A x \in Calls : stage'[x] = IF x \in H THEN (IF draining THEN "dropped" ELSE "start")
               ELSE IF x = c THEN "ended"
               ELSE IF x \in Range(box) /\ stage[x] = "offered" THEN "dropped" ELSE stage[x]
    BY <1>5, EndShifts
  <2>3. /\ \A h \in H : stage[h] = "queued" /\ h \in Range(queue)
        /\ Range(queue') = Range(queue) \ H
        /\ scheduled' = scheduled \cup (IF draining THEN {} ELSE H)
    BY <2>2 DEF ShiftOf
  <2>4. \A m \in scheduled' : stage'[m] \notin Fresh \cup {"offered"}
    BY <1>1, <1>w, <2>2, <2>3 DEF JoinInv
  <2>5. /\ \A x \in Calls : taken[x] = <<>>
        /\ \A m \in Msgs : joined[m] # None => m \notin Range(queue)
    BY <1>0, <2>2 DEF HandInv, JoinInv
  <2>6. \A m \in Msgs : joined[m] # None => /\ m \notin H /\ m \notin scheduled'
                                            /\ stage'[m] \in Waiting
                                            /\ m \notin Range(queue')
    BY <1>0, <1>1, <1>w, <2>2, <2>3, <2>5 DEF JoinInv
  <2> QED BY <1>w, <2>1, <2>4, <2>5, <2>6 DEF JoinInv
<1>6. CASE RequeueStep
  <2>1. PICK c \in scheduled : /\ stage[c] = "register" /\ Go(c, "queued")
                               /\ queue' = <<c>> \o queue
                               /\ UNCHANGED <<scheduled, box, taken, joined>>
    BY <1>6 DEF RequeueStep
  <2>2. /\ c \in Msgs
        /\ \A x \in Calls : stage'[x] = IF x = c THEN "queued" ELSE stage[x]
    BY <1>0, <1>w, <2>1 DEF Go
  <2>3. Range(queue') = Range(queue) \cup {c}
    BY <1>w, <2>1, <2>2, MessageAdded
  <2>4. \A x \in Calls : stage[x] = "announce" => stage'[x] = "announce"
    BY <2>1, <2>2
  <2>5. \A m \in scheduled : stage'[m] \notin Fresh \cup {"offered"}
    BY <1>1, <1>w, <2>2 DEF JoinInv
  <2>6. \A x \in Calls : stage[x] \in Waiting => stage'[x] \in Waiting
    BY <1>1, <2>2
  <2> QED BY <1>w, <2>1, <2>3, <2>4, <2>5, <2>6 DEF JoinInv
<1>7. CASE DrainStep
  <2>1. PICK c \in Calls :
          /\ stage[c] = "tools" /\ Go(c, IF box = <<>> THEN "model" ELSE "splice")
          /\ taken' = [taken EXCEPT ![c] = box] /\ box' = <<>>
          /\ UNCHANGED <<queue, scheduled, joined>>
    BY <1>7 DEF DrainStep, lineup
  <2>2. /\ \A x \in Calls : stage'[x] = IF x = c THEN (IF box = <<>> THEN "model" ELSE "splice")
                                        ELSE stage[x]
        /\ \A x \in Calls : taken'[x] = IF x = c THEN box ELSE taken[x]
    BY <1>0, <2>1 DEF Go
  <2>3. \A x \in Calls : stage[x] # "announce"
    BY <1>0, <2>1
  <2>4. \A m \in scheduled : stage'[m] \notin Fresh \cup {"offered"}
    BY <1>1, <1>w, <2>2 DEF JoinInv
  <2>5. \A x \in Calls : stage[x] \in Waiting => stage'[x] \in Waiting
    BY <1>0, <1>1, <2>1, <2>2
  <2> QED BY <1>w, <2>1, <2>2, <2>3, <2>4, <2>5 DEF JoinInv
<1>8. CASE SpliceStep
  <2>1. PICK c \in Calls :
          /\ stage[c] = "splice" /\ Go(c, "announce")
          /\ joined' = [joined EXCEPT ![Head(taken[c])] = c]
          /\ UNCHANGED <<queue, scheduled, box, taken>>
    BY <1>8 DEF SpliceStep, lineup
  <2> DEFINE m == Head(taken[c])
  <2>2. \A x \in Calls : stage'[x] = IF x = c THEN "announce" ELSE stage[x]
    BY <1>0, <2>1 DEF Go
  <2>3. m \in Msgs /\ m \notin scheduled /\ stage[m] \in Waiting /\ m # c
    <3>1. taken[c] # <<>> /\ taken[c] \in Seq(Msgs)
      BY <1>w, <2>1 DEF TypeInv, WordsInHand
    <3>2. m \in Range(taken[c]) /\ m \in Msgs
      BY <3>1 DEF Range
    <3> QED BY <1>0, <1>1, <2>1, <3>2 DEF HandInv, JoinInv
  <2>4. \A x \in Msgs : joined'[x] = IF x = m THEN c ELSE joined[x]
    BY <1>0, <2>1
  <2>5. m = Head(taken'[c]) /\ stage'[c] = "announce"
    BY <2>1, <2>2
  <2> HIDE DEF m
  <2>6. \A x \in Calls : stage[x] # "announce"
    BY <1>0, <2>1
  <2>7. \A x \in scheduled : stage'[x] \notin Fresh \cup {"offered"}
    BY <1>1, <1>w, <2>2 DEF JoinInv
  <2>8. \A x \in Calls : stage[x] \in Waiting => stage'[x] \in Waiting
    BY <1>0, <1>1, <2>1, <2>2
  <2> QED BY <1>w, <2>1, <2>3, <2>4, <2>5, <2>6, <2>7, <2>8 DEF JoinInv
<1>9. CASE ConsumeStep
  <2>1. PICK c \in Calls :
          /\ stage[c] = "announce"
          /\ queue' \in Excluding(queue, {Head(taken[c])})
          /\ stage' = [stage EXCEPT
               ![Head(taken[c])] = IF @ \in {"queued", "offered"} THEN "joined" ELSE @,
               ![c] = IF Tail(taken[c]) = <<>> THEN "model" ELSE "splice"]
          /\ taken' = [taken EXCEPT ![c] = Tail(taken[c])]
          /\ UNCHANGED <<scheduled, box, joined>>
    BY <1>9 DEF ConsumeStep
  <2> DEFINE m == Head(taken[c])
  <2>2. m \in Msgs /\ Range(Tail(taken[c])) \subseteq Range(taken[c])
    <3>1. taken[c] # <<>> /\ taken[c] \in Seq(Msgs)
      BY <1>w, <2>1 DEF TypeInv, WordsInHand
    <3>2. PICK y \in Msgs : TRUE
      BY <3>1
    <3>3. /\ Range(taken[c]) = {Head(taken[c])} \cup Range(Tail(taken[c]))
          /\ Head(taken[c]) \in Msgs
      BY <3>1, <3>2, RangesOfSequences
    <3> QED BY <3>3
  <2>3. \A x \in Calls : taken'[x] = IF x = c THEN Tail(taken[c]) ELSE taken[x]
    BY <1>0, <2>1
  <2>4. \A x \in Calls : stage'[x] = IF x = c THEN (IF Tail(taken[c]) = <<>> THEN "model" ELSE "splice")
                                     ELSE IF x = m /\ stage[x] \in {"queued", "offered"} THEN "joined"
                                     ELSE stage[x]
    BY <1>0, <1>w, <2>1, <2>2
  <2>5. Range(queue') = Range(queue) \ {m}
    BY <1>w, <2>1, ExcludedExactly
  <2>6. \A x \in Msgs : joined[x] # None => x = m \/ x \notin Range(queue)
    BY <1>0, <2>1 DEF JoinInv
  <2> HIDE DEF m
  <2>7. \A x \in scheduled : stage'[x] \notin Fresh \cup {"offered"}
    BY <1>1, <1>w, <2>4 DEF JoinInv
  <2>8. \A x \in Calls : stage[x] \in Waiting => stage'[x] \in Waiting
    BY <1>0, <1>1, <2>1, <2>4
  <2>9. \A x \in Calls : \A w \in Range(taken'[x]) : w \in Range(taken[x])
    BY <2>2, <2>3
  <2> QED BY <1>w, <2>1, <2>5, <2>6, <2>7, <2>8, <2>9 DEF JoinInv
<1>10. CASE GiveUpStep
  <2>1. PICK c \in Calls : /\ stage[c] = "splice"
                           /\ Go(c, "save") /\ taken' = [taken EXCEPT ![c] = <<>>]
                           /\ UNCHANGED <<queue, scheduled, box, joined>>
    BY <1>10 DEF GiveUpStep, lineup
  <2>2. /\ \A x \in Calls : stage'[x] = IF x = c THEN "save" ELSE stage[x]
        /\ \A x \in Calls : taken'[x] = IF x = c THEN <<>> ELSE taken[x]
    BY <1>0, <2>1 DEF Go
  <2>3. \A x \in Calls : stage[x] # "announce"
    BY <1>0, <2>1
  <2>4. \A x \in scheduled : stage'[x] \notin Fresh \cup {"offered"}
    BY <1>1, <1>w, <2>2 DEF JoinInv
  <2>5. \A x \in Calls : stage[x] \in Waiting => stage'[x] \in Waiting
    BY <1>0, <1>1, <2>1, <2>2
  <2> QED BY <1>w, <2>1, <2>2, <2>3, <2>4, <2>5 DEF JoinInv
<1>11. CASE LandStep
  <2>1. PICK m \in Msgs : /\ stage[m] = "lookup" /\ Go(m, "queued")
                          /\ queue' = Append(queue, m)
                          /\ box' = box \/ box' = Append(box, m)
                          /\ UNCHANGED <<scheduled, taken, joined>>
    BY <1>11 DEF LandStep
  <2>2. \A x \in Calls : stage'[x] = IF x = m THEN "queued" ELSE stage[x]
    BY <1>0, <1>w, <2>1 DEF Go
  <2>3. Range(queue') = Range(queue) \cup {m} /\ Range(Append(box, m)) = Range(box) \cup {m}
    BY <1>w, <2>1, MessageAdded
  <2>4. Range(box') \subseteq Range(box) \cup {m}
    BY <2>1, <2>3
  <2>5. m \notin scheduled /\ joined[m] = None
    BY <1>0, <1>1, <2>1 DEF JoinInv
  <2>6. \A x \in scheduled : stage'[x] \notin Fresh \cup {"offered"}
    BY <1>1, <1>w, <2>2 DEF JoinInv
  <2>7. \A x \in Calls : /\ stage[x] \in Waiting => stage'[x] \in Waiting
                         /\ stage[x] = "announce" => stage'[x] = "announce"
    BY <1>0, <1>1, <2>1, <2>2
  <2> QED BY <1>w, <2>1, <2>3, <2>4, <2>5, <2>6, <2>7 DEF JoinInv
<1>12. CASE OfferStep
  <2>1. PICK m \in Steers : /\ stage[m] = "typed" /\ Go(m, "offered") /\ box' = Append(box, m)
                            /\ UNCHANGED <<queue, scheduled, taken, joined>>
    BY <1>12 DEF OfferStep, lineup
  <2>2. m \in Msgs /\ \A x \in Calls : stage'[x] = IF x = m THEN "offered" ELSE stage[x]
    BY <1>0, <1>w, <2>1, ChatAssumption DEF Go
  <2>3. Range(box') = Range(box) \cup {m}
    BY <1>w, <2>1, <2>2, MessageAdded
  <2>4. m \notin scheduled
    BY <1>1, <2>1 DEF JoinInv
  <2>5. \A x \in scheduled : stage'[x] \notin Fresh \cup {"offered"}
    BY <1>1, <1>w, <2>2, <2>4 DEF JoinInv
  <2>6. \A x \in Calls : /\ stage[x] \in Waiting => stage'[x] \in Waiting
                         /\ stage[x] = "announce" => stage'[x] = "announce"
    BY <1>0, <1>1, <2>1, <2>2
  <2> QED BY <1>w, <2>1, <2>3, <2>4, <2>5, <2>6 DEF JoinInv
<1>13. CASE TakeAwayStep \/ ClearStep
  <2>1. /\ UNCHANGED <<scheduled, taken, joined>>
        /\ \E S : Withdraw(S) /\ \A x \in S : x \in Calls => stage[x] \in Waiting
    <3>1. \A x \in Range(queue) \cup Range(box) : stage[x] \in Waiting
      BY DEF WaitInv, QueueWaits, BoxWaits, Waiting, Range
    <3> QED BY <1>13, <3>1 DEF TakeAwayStep, ClearStep, ClearQueued
  <2>2. Range(box') \subseteq Range(box) /\ Range(queue') \subseteq Range(queue)
    <3>1. CASE TakeAwayStep
      <4>1. PICK W \in SUBSET Msgs : queue' \in Excluding(queue, W) /\ box' \in Excluding(box, W)
        BY <3>1 DEF TakeAwayStep
      <4> QED BY <1>w, <4>1, ExcludedExactly
    <3>2. CASE ClearStep
      BY <1>w, <3>2 DEF ClearStep, ClearQueued
    <3> QED BY <1>13, <3>1, <3>2
  <2>3. PICK S : Withdraw(S) /\ \A x \in S : x \in Calls => stage[x] \in Waiting
    BY <2>1
  <2>4. \A x \in Calls : stage'[x] = IF x \in S THEN "withdrawn" ELSE stage[x]
    BY <2>3 DEF Withdraw
  <2>5. /\ \A x \in Calls : /\ stage[x] \in Waiting => stage'[x] \in Waiting
                            /\ stage[x] = "announce" => stage'[x] = "announce"
        /\ \A x \in scheduled : stage'[x] \notin Fresh \cup {"offered"}
    BY <1>0, <1>1, <1>w, <2>3, <2>4 DEF JoinInv
  <2> QED BY <1>w, <2>1, <2>2, <2>5 DEF JoinInv
<1> QED BY <1>2, <1>3, <1>4, <1>5, <1>6, <1>7, <1>8, <1>9, <1>10, <1>11, <1>12, <1>13 DEF CopyStep

\* What holds of the copies when no query fails, with the types and the waiting
\* it rests on.
CalmInv == TypeInv /\ WaitInv /\ HandInv /\ JoinInv

\* It holds at first.
LEMMA CalmStart == Init => CalmInv
<1> SUFFICES ASSUME Init PROVE CalmInv
  OBVIOUS
<1>1. TypeInv /\ WaitInv
  BY TypeStart, WaitStart
<1>2. HandInv /\ JoinInv
  BY DEF Init, HandInv, JoinInv, Range
<1> QED BY <1>1, <1>2 DEF CalmInv

\* Every step keeps it.
LEMMA CalmStep ==
  ASSUME ~MayFail, CalmInv, [Next]_vars
  PROVE  CalmInv'
<1>1. TypeInv' /\ WaitInv' /\ CopyStep
  BY TypeStep, WaitStep, CopySteps DEF CalmInv
<1>2. HandInv' /\ JoinInv'
  BY <1>1, HandStep, JoinStep DEF CalmInv
<1> QED BY <1>1, <1>2 DEF CalmInv

\* While no query fails, whoever removes, deletes, cancels or drains: a message
\* spliced into a running reply is never given a turn of its own as well.
THEOREM JoinedStaysJoined ==
  ASSUME ~MayFail
  PROVE  Spec => []JoinedNeverRuns
<1>1. CalmInv => JoinedNeverRuns
  BY DEF CalmInv, JoinInv, JoinedNeverRuns
<1>2. CalmInv /\ [Next]_vars => CalmInv'
  BY CalmStep
<1> QED BY <1>1, <1>2, CalmStart, PTL DEF Spec

-----------------------------------------------------------------------------
(* The thread *)

\* A turn that has closed is over for good.
LEMMA ClosedForGood ==
  ASSUME TypeInv, WaitInv, CopyStep
  PROVE  \A x \in Calls : stage[x] \in {"close", "ended"} => stage'[x] \in {"close", "ended"}
<1> DEFINE Goal == \A x \in Calls : stage[x] \in {"close", "ended"} => stage'[x] \in {"close", "ended"}
<1>0. stage \in [Calls -> Stages] /\ Msgs \subseteq Calls /\ scheduled \subseteq Msgs
  BY WordsAreMessages DEF TypeInv, TypeOK, StageOK
<1>g. ASSUME NEW c \in Calls, NEW s, Go(c, s), stage[c] \notin {"close", "ended"}
      PROVE  Goal
  BY <1>0, <1>g DEF Go
<1>1. ASSUME MoveStep PROVE Goal
  BY <1>1, <1>g DEF MoveStep
<1>2. ASSUME StillStep PROVE Goal
  BY <1>2 DEF StillStep
<1>3. ASSUME BatonStep PROVE Goal
  <2>1. PICK c \in Calls, H \in SUBSET Msgs :
          /\ stage[c] \in Starting
          /\ ShiftOf(H, [stage EXCEPT ![c] = "told"], HasActiveTurn)
          /\ \A x \in Calls : stage'[x] = IF x \in H THEN (IF draining THEN "dropped" ELSE "start")
                                          ELSE IF x = c THEN "told" ELSE stage[x]
    BY <1>3, BatonShifts
  <2> QED BY <2>1 DEF ShiftOf, Starting
<1>4. ASSUME EndStep PROVE Goal
  <2>1. PICK c \in Calls, H \in SUBSET Msgs, st \in [Calls -> Stages] :
          /\ ShiftOf(H, st, FALSE)
          /\ \A x \in Calls : stage'[x] = IF x \in H THEN (IF draining THEN "dropped" ELSE "start")
               ELSE IF x = c THEN "ended"
               ELSE IF x \in Range(box) /\ stage[x] = "offered" THEN "dropped" ELSE stage[x]
    BY <1>4, EndShifts
  <2> QED BY <2>1 DEF ShiftOf
<1>5. ASSUME RequeueStep PROVE Goal
  BY <1>0, <1>5, <1>g DEF RequeueStep
<1>6. ASSUME DrainStep \/ SpliceStep \/ GiveUpStep PROVE Goal
  BY <1>6, <1>g DEF DrainStep, SpliceStep, GiveUpStep
<1>7. ASSUME ConsumeStep PROVE Goal
  <2>1. PICK c \in Calls :
          /\ stage[c] = "announce"
          /\ stage' = [stage EXCEPT
               ![Head(taken[c])] = IF @ \in {"queued", "offered"} THEN "joined" ELSE @,
               ![c] = IF Tail(taken[c]) = <<>> THEN "model" ELSE "splice"]
    BY <1>7 DEF ConsumeStep
  <2> QED BY <1>0, <2>1
<1>8. ASSUME LandStep \/ OfferStep PROVE Goal
  BY <1>0, <1>8, <1>g, ChatAssumption DEF LandStep, OfferStep
<1>9. ASSUME TakeAwayStep \/ ClearStep PROVE Goal
  <2>1. \E S : Withdraw(S) /\ \A x \in S : stage[x] \in Waiting
    <3>1. \A x \in Range(queue) \cup Range(box) : stage[x] \in Waiting
      BY DEF WaitInv, QueueWaits, BoxWaits, Waiting, Range
    <3> QED BY <1>9, <3>1 DEF TakeAwayStep, ClearStep, ClearQueued
  <2> QED BY <2>1 DEF Withdraw, Waiting
<1> HIDE DEF Goal
<1>10. Goal
  BY <1>1, <1>2, <1>3, <1>4, <1>5, <1>6, <1>7, <1>8, <1>9 DEF CopyStep
<1> QED BY <1>10 DEF Goal

\* What a step does to the thread: takes rows out, or adds one at its end, the
\* words of a call that starts or of one that joins, or a reply.
ShrinkStep == rows' \subseteq rows /\ UNCHANGED <<clock, joined>>

AddStep ==
  \E c \in Calls :
    /\ stage[c] = "write" /\ rows' = rows \cup {UserRow(c)} /\ clock' = clock + 1
    /\ UNCHANGED joined

JoinRowStep ==
  \E c \in Calls :
    /\ stage[c] = "splice"
    /\ rows' = rows \cup {UserRow(Head(taken[c]))} /\ clock' = clock + 1
    /\ joined' = [joined EXCEPT ![Head(taken[c])] = c]

ReplyStep ==
  \E c \in Calls :
    /\ stage[c] = "save" /\ Go(c, "close")
    /\ rows' = rows \cup {ReplyRow(c)} /\ clock' = clock + 1
    /\ UNCHANGED joined

RowStep == ShrinkStep \/ AddStep \/ JoinRowStep \/ ReplyStep

\* Every step is one of these.
LEMMA RowSteps ==
  ASSUME [Next]_vars
  PROVE  RowStep
<1> USE DEF db, history
<1>q. ASSUME UNCHANGED <<rows, clock, joined>>
      PROVE  RowStep
  BY <1>q DEF RowStep, ShrinkStep
<1>1. ASSUME NEW c \in Calls, SendChat(c) \/ EnterTurn(c) \/ CheckAccess(c) \/ LoadThread(c)
      PROVE  RowStep
  BY <1>1, <1>q DEF SendChat, EnterTurn, CheckAccess, LoadThread
<1>2. ASSUME NEW c \in Calls, CutThread(c)
      PROVE  RowStep
  BY <1>2 DEF CutThread, RowStep, ShrinkStep
<1>3. ASSUME NEW c \in Calls, WriteUser(c)
      PROVE  RowStep
  BY <1>3, <1>q DEF WriteUser, RowStep, AddStep
<1>4. ASSUME NEW c \in Calls, Register(c) \/ Publish(c) \/ Prepare(c) \/ Announce(c) \/ CloseTurn(c)
      PROVE  RowStep
  BY <1>4, <1>q DEF Register, Publish, Prepare, Announce, CloseTurn, EndRunner
<1>5. ASSUME NEW c \in Calls, Splice(c)
      PROVE  RowStep
  <2>1. CASE /\ rows' = rows \cup {UserRow(Head(taken[c]))} /\ clock' = clock + 1
             /\ joined' = [joined EXCEPT ![Head(taken[c])] = c]
    BY <1>5, <2>1 DEF Splice, RowStep, JoinRowStep
  <2>2. CASE UNCHANGED <<rows, clock, joined>>
    BY <1>q, <2>2
  <2> QED BY <1>5, <2>1, <2>2 DEF Splice
<1>6. ASSUME NEW c \in Calls, SaveReply(c)
      PROVE  RowStep
  BY <1>6, <1>q DEF SaveReply, RowStep, ReplyStep
<1>7. ASSUME NEW c \in Calls, ModelRound(c) \/ RunTools(c) \/ HardStop(c)
      PROVE  RowStep
  BY <1>7, <1>q DEF ModelRound, RunTools, HardStop
<1>8. ASSUME NEW c \in Calls, CrashStart(c) \/ CrashPublish(c) \/ CrashRunner(c)
      PROVE  RowStep
  BY <1>8, <1>q DEF CrashStart, CrashPublish, CrashRunner, EndRunner
<1>9. ASSUME NEW m \in Msgs, AskQueue(m) \/ LandInQueue(m) \/ OfferSteer(m)
      PROVE  RowStep
  BY <1>9, <1>q DEF AskQueue, LandInQueue, OfferSteer
<1>10. ASSUME NEW u \in Users, NEW m \in Msgs, CancelQueued(u, m)
       PROVE  RowStep
  BY <1>10, <1>q DEF CancelQueued
<1>11. ASSUME NEW u \in Users, StopButton(u) \/ RemoveMember(u) \/ WithdrawWords(u)
       PROVE  RowStep
  BY <1>11, <1>q DEF StopButton, RemoveMember, WithdrawWords
<1>12. ASSUME DeleteBegin \/ DeleteRows \/ DeleteAnnounce
       PROVE  RowStep
  BY <1>12, <1>q DEF DeleteBegin, DeleteRows, DeleteAnnounce, RowStep, ShrinkStep
<1>13. ASSUME BeginDrain \/ EndDrain \/ Unconfigure \/ UNCHANGED vars
       PROVE  RowStep
  BY <1>13, <1>q DEF BeginDrain, EndDrain, Unconfigure, vars
<1> QED BY <1>1, <1>2, <1>3, <1>4, <1>5, <1>6, <1>7, <1>8, <1>9, <1>10, <1>11, <1>12, <1>13
        DEF Next, Step, Work, Crash, Deleting

\* The thread is ordered by creation, each row by itself, and a reply is there
\* only once its turn has closed.
ThreadInv ==
  /\ \A r \in rows : r.at < clock
  /\ \A r, s \in rows : r.at = s.at => r = s
  /\ \A s \in rows : s.role = "assistant" => stage[s.call] \in {"close", "ended"}

\* What the row a step adds looks like.
LEMMA NewRows ==
  ASSUME NEW c
  PROVE  /\ UserRow(c).role = "user" /\ UserRow(c).call = c /\ UserRow(c).at = clock
         /\ ReplyRow(c).role = "assistant" /\ ReplyRow(c).call = c /\ ReplyRow(c).at = clock
BY DEF UserRow, ReplyRow

\* Every step keeps the thread in order.
LEMMA ThreadStep ==
  ASSUME TypeInv, WaitInv, ThreadInv, CopyStep, RowStep
  PROVE  ThreadInv'
<1> DEFINE Goal == ThreadInv'
<1>0. /\ \A r \in rows : r.call \in Calls /\ r.at \in Nat
      /\ clock \in Nat /\ stage \in [Calls -> Stages]
  BY DEF TypeInv, TypeOK, DbOK, StageOK, Row
<1>c. \A x \in Calls : stage[x] \in {"close", "ended"} => stage'[x] \in {"close", "ended"}
  BY ClosedForGood
<1>1. ASSUME ShrinkStep PROVE Goal
  BY <1>0, <1>1, <1>c DEF ShrinkStep, ThreadInv
<1>2. ASSUME NEW new, rows' = rows \cup {new}, clock' = clock + 1, new.at = clock,
             new.role = "assistant" => stage'[new.call] \in {"close", "ended"}
      PROVE  Goal
  <2>1. \A r \in rows' : r.at < clock'
    BY <1>0, <1>2 DEF ThreadInv
  <2>2. \A r, s \in rows' : r.at = s.at => r = s
    BY <1>0, <1>2 DEF ThreadInv
  <2>3. \A s \in rows' : s.role = "assistant" => stage'[s.call] \in {"close", "ended"}
    BY <1>0, <1>2, <1>c DEF ThreadInv
  <2> QED BY <2>1, <2>2, <2>3 DEF ThreadInv
<1>3. ASSUME AddStep \/ JoinRowStep PROVE Goal
  BY <1>2, <1>3, NewRows DEF AddStep, JoinRowStep
<1>4. ASSUME ReplyStep PROVE Goal
  <2>1. PICK c \in Calls : /\ Go(c, "close") /\ rows' = rows \cup {ReplyRow(c)} /\ clock' = clock + 1
    BY <1>4 DEF ReplyStep
  <2>2. stage'[c] = "close"
    BY <1>0, <2>1 DEF Go
  <2> QED BY <1>2, <2>1, <2>2, NewRows
<1> HIDE DEF Goal
<1>5. Goal
  BY <1>1, <1>3, <1>4 DEF RowStep
<1> QED BY <1>5 DEF Goal

\* The opening exchange is in order.
LEMMA ThreadStart == Init => ThreadInv
<1> SUFFICES ASSUME Init PROVE ThreadInv
  OBVIOUS
<1>1. CASE Opening = None
  BY <1>1 DEF Init, ThreadInv
<1>2. CASE Opening # None
  <2>1. /\ clock = 3
        /\ \A r \in rows : \/ r = [role |-> "user", call |-> Opening, at |-> 1]
                           \/ r = [role |-> "assistant", call |-> Opening, at |-> 2]
        /\ stage[Opening] = "ended"
    BY <1>2, ChatAssumption DEF Init, Calls
  <2> QED BY <2>1 DEF ThreadInv
<1> QED BY <1>1, <1>2

\* While no query fails: a spliced message sits above the reply that answers
\* it.  The reply is written last, and the author's own turn, which would write
\* the message again below it, never comes.
THEOREM SplicedBeforeReply ==
  ASSUME ~MayFail
  PROVE  Spec => []SplicedAboveReply
<1> DEFINE I == CalmInv /\ ThreadInv /\ SplicedAboveReply
<1>1. Init => I
  <2>1. ASSUME Init PROVE SplicedAboveReply
    BY <2>1, ChatAssumption DEF Init, SplicedAboveReply, Calls
  <2> QED BY <2>1, CalmStart, ThreadStart
<1>2. I /\ [Next]_vars => I'
  <2> SUFFICES ASSUME I, [Next]_vars PROVE I'
    OBVIOUS
  <2> DEFINE Goal == SplicedAboveReply'
  <2>1. CalmInv' /\ CopyStep /\ RowStep
    BY CalmStep, CopySteps, RowSteps DEF CalmInv
  <2>2. ThreadInv'
    BY <2>1, ThreadStep DEF CalmInv
  <2>3. /\ joined \in [Msgs -> Calls \cup {None}] /\ None \notin Calls
        /\ \A r \in rows : r.call \in Calls
        /\ \A m \in Msgs : joined[m] # None => stage[m] \in Waiting
        /\ "write" \notin Waiting /\ "splice" \notin {"close", "ended"} /\ "user" # "assistant"
    BY ChatAssumption DEF CalmInv, JoinInv, TypeInv, TypeOK, HistoryOK, DbOK, Row, Waiting
  <2>4. ASSUME ShrinkStep PROVE Goal
    BY <2>4 DEF ShrinkStep, SplicedAboveReply
  <2>5. ASSUME AddStep PROVE Goal
    <3>1. PICK c \in Calls : /\ stage[c] = "write" /\ rows' = rows \cup {UserRow(c)}
                             /\ UNCHANGED joined
      BY <2>5 DEF AddStep
    <3>2. c \in Msgs => joined[c] = None
      BY <2>3, <3>1
    <3> QED BY <2>3, <3>1, <3>2, NewRows DEF SplicedAboveReply
  <2>6. ASSUME JoinRowStep PROVE Goal
    <3>1. PICK c \in Calls :
            /\ stage[c] = "splice"
            /\ rows' = rows \cup {UserRow(Head(taken[c]))}
            /\ joined' = [joined EXCEPT ![Head(taken[c])] = c]
      BY <2>6 DEF JoinRowStep
    <3> DEFINE m == Head(taken[c])
    <3>2. \A x \in Msgs : joined'[x] = IF x = m THEN c ELSE joined[x]
      BY <2>3, <3>1
    <3>3. \A s \in rows : s.role = "assistant" => s.call # c
      BY <2>3, <3>1 DEF ThreadInv
    <3>4. rows' = rows \cup {UserRow(m)}
      BY <3>1
    <3> HIDE DEF m
    <3> QED BY <2>3, <3>2, <3>3, <3>4, NewRows DEF SplicedAboveReply
  <2>7. ASSUME ReplyStep PROVE Goal
    <3>1. PICK c \in Calls : rows' = rows \cup {ReplyRow(c)} /\ UNCHANGED joined
      BY <2>7 DEF ReplyStep
    <3>2. \A r \in rows : r.at < clock
      BY DEF ThreadInv
    <3> QED BY <2>3, <3>1, <3>2, NewRows DEF SplicedAboveReply
  <2> HIDE DEF Goal
  <2>8. Goal
    BY <2>1, <2>4, <2>5, <2>6, <2>7 DEF RowStep
  <2> QED BY <2>1, <2>2, <2>8 DEF Goal
<1> QED BY <1>1, <1>2, PTL DEF Spec

-----------------------------------------------------------------------------
(* An edit spares colleagues *)

\* What an edit is about to delete is its author's, or replies.
CutInv ==
  \A c \in Edits : stage[c] = "cut" =>
    \A r \in doomed[c] : r.role = "user" => Author[r.call] = Author[c]

\* A step brings an edit to its delete with rows of its author's only, leaves
\* one that is there alone, or takes it away with no rows but the decided ones.
CutStep ==
  \A c \in Edits :
    /\ stage'[c] = "cut" =>
         \/ stage[c] = "cut" /\ doomed'[c] = doomed[c]
         \/ \A r \in doomed'[c] : r.role = "user" => Author[r.call] = Author[c]
    /\ stage[c] = "cut" /\ stage'[c] # "cut" => rows \ rows' \subseteq doomed[c]

\* Every step is one of these.
LEMMA CutSteps ==
  ASSUME TypeInv, WaitInv, ThreadInv, [Next]_vars
  PROVE  CutStep
<1> USE DEF db, calls, lineup, mailbox
<1>0. /\ stage \in [Calls -> Stages] /\ doomed \in [Calls -> SUBSET Row]
      /\ Edits \subseteq Msgs /\ Msgs \subseteq Calls /\ Msgs \cap Retries = {}
      /\ scheduled \subseteq Msgs
  BY ChatAssumption DEF TypeInv, TypeOK, StageOK, CallsOK, LineupOK, Calls
<1>k. ASSUME UNCHANGED doomed, \A x \in Calls : stage'[x] = "cut" <=> stage[x] = "cut"
      PROVE  CutStep
  BY <1>0, <1>k DEF CutStep
<1>g. ASSUME NEW c \in Calls, NEW s, Go(c, s), stage[c] # "cut", s # "cut", UNCHANGED doomed
      PROVE  CutStep
  BY <1>0, <1>g, <1>k DEF Go
<1>b. ASSUME NEW c \in Calls, Refuse(c), stage[c] \in Starting \ {"cut"},
             \A x \in Calls \ {c} : doomed'[x] = doomed[x]
      PROVE  CutStep
  <2>1. CASE Go(c, "refused")
    BY <1>0, <1>b, <2>1 DEF Go, CutStep
  <2>2. CASE c \in scheduled /\ RunNextQueued([stage EXCEPT ![c] = "told"], HasActiveTurn)
    <3>1. [stage EXCEPT ![c] = "told"] \in [Calls -> Stages]
      BY <1>0 DEF Stages, Over
    <3>2. PICK H : ShiftOf(H, [stage EXCEPT ![c] = "told"], HasActiveTurn)
      BY <2>2, <3>1, ShiftsOut DEF WaitInv
    <3>3. \A x \in Calls : stage'[x] = IF x \in H THEN (IF draining THEN "dropped" ELSE "start")
                                       ELSE IF x = c THEN "told" ELSE stage[x]
      BY <1>0, <3>2 DEF ShiftOf
    <3>4. \A x \in Calls : stage'[x] = "cut" <=> stage[x] = "cut"
      BY <1>b, <3>2, <3>3 DEF ShiftOf
    <3>5. stage'[c] # "cut"
      BY <1>b, <3>4
    <3> QED BY <1>0, <1>b, <3>4, <3>5 DEF CutStep
  <2> QED BY <1>b, <2>1, <2>2 DEF Refuse
<1>e. ASSUME EndStep, UNCHANGED doomed
      PROVE  CutStep
  <2>1. PICK c \in Calls, H \in SUBSET Msgs, st \in [Calls -> Stages] :
          /\ stage[c] \in {"prepare", "close"}
          /\ ShiftOf(H, st, FALSE)
          /\ \A x \in Calls : stage'[x] = IF x \in H THEN (IF draining THEN "dropped" ELSE "start")
               ELSE IF x = c THEN "ended"
               ELSE IF x \in Range(box) /\ stage[x] = "offered" THEN "dropped" ELSE stage[x]
    BY <1>e, EndShifts
  <2> QED BY <1>e, <1>k, <2>1 DEF ShiftOf
<1>t. ASSUME NEW S, Withdraw(S), S \subseteq Range(queue) \cup Range(box), UNCHANGED doomed
      PROVE  CutStep
  <2>1. \A x \in S : stage[x] # "cut"
    BY <1>t DEF WaitInv, QueueWaits, BoxWaits, Range
  <2> QED BY <1>k, <1>t, <2>1 DEF Withdraw
<1>1. ASSUME NEW c \in Calls, SendChat(c)
      PROVE  CutStep
  <2>1. \A x \in Calls \ {c} : doomed'[x] = doomed[x]
    BY <1>0, <1>1 DEF SendChat
  <2> QED BY <1>0, <1>1, <2>1 DEF SendChat, Go, CutStep
<1>2. ASSUME NEW c \in Calls, EnterTurn(c) \/ CheckAccess(c)
      PROVE  CutStep
  BY <1>2, <1>b, <1>g DEF EnterTurn, CheckAccess, Starting
<1>3. ASSUME NEW c \in Calls, LoadThread(c)
      PROVE  CutStep
  <2>1. CASE Refuse(c) /\ UNCHANGED doomed
    BY <1>3, <1>b, <2>1 DEF LoadThread, Starting
  <2> DEFINE cut == IF c \in Retries THEN Trailing(rows)
                    ELSE {r \in rows : \E e \in doomed[c] : r.at >= e.at}
  <2>2. CASE /\ c \in Edits => \A e \in doomed[c] : e \in rows /\ CanEdit(Author[c], e, rows)
             /\ \E s \in {"cutvoid", "cut", "register", "write"} : Go(c, s)
             /\ doomed' = [doomed EXCEPT ![c] = cut]
    <3>1. \A x \in Calls \ {c} : stage'[x] = stage[x] /\ doomed'[x] = doomed[x]
      BY <1>0, <2>2 DEF Go
    <3>2. ASSUME c \in Edits
          PROVE  \A r \in doomed'[c] : r.role = "user" => Author[r.call] = Author[c]
      <4>1. doomed'[c] = {r \in rows : \E e \in doomed[c] : r.at >= e.at}
        BY <1>0, <2>2, <3>2
      <4> SUFFICES ASSUME NEW r \in rows, NEW e \in doomed[c], r.at >= e.at, r.role = "user"
                   PROVE  Author[r.call] = Author[c]
        BY <4>1
      <4>2. e \in rows /\ CanEdit(Author[c], e, rows)
        BY <2>2, <3>2
      <4>3. r.at \in Nat /\ e.at \in Nat
        BY <4>2 DEF TypeInv, TypeOK, DbOK, Row
      <4>4. CASE r.at > e.at
        BY <4>2, <4>4 DEF CanEdit
      <4>5. CASE r.at = e.at
        BY <4>2, <4>5 DEF CanEdit, ThreadInv
      <4> QED BY <4>3, <4>4, <4>5
    <3>3. stage[c] = "load"
      BY <1>3 DEF LoadThread
    <3> QED BY <1>0, <3>1, <3>2, <3>3 DEF CutStep
  <2> QED BY <1>3, <2>1, <2>2 DEF LoadThread
<1>4. ASSUME NEW c \in Calls, CutThread(c)
      PROVE  CutStep
  <2>1. /\ rows' = rows \ doomed[c]
        /\ \A x \in Calls \ {c} : doomed'[x] = doomed[x]
    BY <1>0, <1>4 DEF CutThread
  <2>2. CASE stage[c] = "cut" /\ Go(c, IF c \in Retries THEN "register" ELSE "write")
    BY <1>0, <2>1, <2>2 DEF Go, CutStep
  <2>3. CASE stage[c] = "cutvoid" /\ Refuse(c)
    BY <1>b, <2>1, <2>3 DEF Starting
  <2> QED BY <1>4, <2>2, <2>3 DEF CutThread
<1>5. ASSUME NEW c \in Calls, WriteUser(c) \/ Publish(c) \/ Prepare(c) \/ Splice(c)
      PROVE  CutStep
  BY <1>5, <1>g DEF WriteUser, Publish, Prepare, Splice
<1>6. ASSUME NEW c \in Calls, Register(c)
      PROVE  CutStep
  BY <1>6, <1>g DEF Register, Refuse409, Admit
<1>7. ASSUME NEW c \in Calls, Announce(c)
      PROVE  CutStep
  <2>1. CASE Go(c, "save")
    BY <1>7, <1>g, <2>1 DEF Announce
  <2>2. CASE stage' = [stage EXCEPT
                ![Head(taken[c])] = IF @ \in {"queued", "offered"} THEN "joined" ELSE @,
                ![c] = IF Tail(taken[c]) = <<>> THEN "model" ELSE "splice"]
    <3>1. \A x \in Calls : stage'[x] = "cut" <=> stage[x] = "cut"
      BY <1>0, <1>7, <2>2 DEF Announce
    <3> QED BY <1>7, <1>k, <3>1 DEF Announce
  <2> QED BY <1>7, <2>1, <2>2 DEF Announce
<1>8. ASSUME NEW c \in Calls, SaveReply(c) \/ ModelRound(c) \/ RunTools(c)
      PROVE  CutStep
  BY <1>8, <1>g DEF SaveReply, ModelRound, RunTools
<1>9. ASSUME NEW c \in Calls, CloseTurn(c) \/ CrashRunner(c)
      PROVE  CutStep
  <2>1. EndStep /\ UNCHANGED doomed
    BY <1>9 DEF CloseTurn, CrashRunner, EndStep, EndRunner
  <2> QED BY <1>e, <2>1
<1>10. ASSUME NEW c \in Calls, HardStop(c)
       PROVE  CutStep
  BY <1>10, <1>k DEF HardStop
<1>11. ASSUME NEW c \in Calls, CrashStart(c)
       PROVE  CutStep
  BY <1>0, <1>11 DEF CrashStart, Go, CutStep
<1>12. ASSUME NEW c \in Calls, CrashPublish(c)
       PROVE  CutStep
  BY <1>12, <1>g DEF CrashPublish
<1>13. ASSUME NEW m \in Msgs, AskQueue(m) \/ LandInQueue(m) \/ OfferSteer(m)
       PROVE  CutStep
  BY <1>0, <1>13, <1>g DEF AskQueue, LandInQueue, OfferSteer
<1>14. ASSUME NEW u \in Users, NEW m \in Msgs, CancelQueued(u, m)
       PROVE  CutStep
  <2>1. Withdraw({m}) /\ {m} \subseteq Range(queue) \cup Range(box) /\ UNCHANGED doomed
    BY <1>0, <1>14 DEF CancelQueued, Withdraw, Go
  <2> QED BY <1>t, <2>1
<1>15. ASSUME NEW u \in Users, WithdrawWords(u)
       PROVE  CutStep
  <2>1. \E S : Withdraw(S) /\ S \subseteq Range(queue) \cup Range(box)
    BY <1>15 DEF WithdrawWords
  <2>2. UNCHANGED doomed
    BY <1>15 DEF WithdrawWords
  <2> QED BY <1>t, <2>1, <2>2
<1>16. ASSUME DeleteBegin \/ DeleteAnnounce
       PROVE  CutStep
  <2>1. Withdraw(Range(queue)) /\ UNCHANGED doomed
    BY <1>16 DEF DeleteBegin, DeleteAnnounce, ClearQueued
  <2> QED BY <1>t, <2>1
<1>17. ASSUME NEW u \in Users, StopButton(u) \/ RemoveMember(u)
       PROVE  CutStep
  BY <1>17, <1>k DEF StopButton, RemoveMember
<1>18. ASSUME DeleteRows \/ BeginDrain \/ EndDrain \/ Unconfigure \/ UNCHANGED vars
       PROVE  CutStep
  BY <1>18, <1>k DEF DeleteRows, BeginDrain, EndDrain, Unconfigure, vars
<1> QED BY <1>1, <1>2, <1>3, <1>4, <1>5, <1>6, <1>7, <1>8, <1>9, <1>10, <1>11, <1>12, <1>13,
           <1>14, <1>15, <1>16, <1>17, <1>18 DEF Next, Step, Work, Crash, Deleting

\* Whatever fails, and whoever writes between an edit's reading of the thread
\* and its delete: the delete takes no words but its author's.
THEOREM EditsSpare == Spec => EditSparesColleagues
<1> DEFINE I == TypeInv /\ WaitInv /\ ThreadInv /\ CutInv
           Spared == \A c \in Edits : stage[c] = "cut" /\ stage'[c] # "cut" =>
                       \A r \in rows \ rows' : r.role = "user" => Author[r.call] = Author[c]
<1>1. Init => I
  <2>1. ASSUME Init PROVE CutInv
    BY <2>1, ChatAssumption DEF Init, CutInv, Calls
  <2> QED BY <2>1, TypeStart, WaitStart, ThreadStart
<1>2. I /\ [Next]_vars => I' /\ Spared
  <2> SUFFICES ASSUME I, [Next]_vars PROVE I' /\ Spared
    OBVIOUS
  <2>1. TypeInv' /\ WaitInv' /\ CopyStep /\ RowStep
    BY TypeStep, WaitStep, CopySteps, RowSteps
  <2>2. ThreadInv'
    BY <2>1, ThreadStep
  <2>3. CutStep
    BY CutSteps
  <2>4. CutInv' /\ Spared
    BY <2>3 DEF CutStep, CutInv
  <2> QED BY <2>1, <2>2, <2>4
<1>3. I /\ [Next]_vars => [Spared]_vars
  BY <1>2
<1> QED BY <1>1, <1>2, <1>3, PTL DEF Spec, EditSparesColleagues

-----------------------------------------------------------------------------
(* The order of service *)

\* x was accepted by the queue before y.
Precedes(x, y) == \E i, j \in DOMAIN lined : i < j /\ lined[i] = x /\ lined[j] = y

\* The queue accepts a message once, holds all that wait, and holds those not
\* yet given a turn in the order it accepted them, behind the ones a 409 put
\* back; whoever was given a turn was accepted before all of those.
LineInv ==
  /\ \A i, j \in DOMAIN lined : lined[i] = lined[j] => i = j
  /\ \A m \in Msgs : stage[m] = "queued" => m \in Range(queue)
  /\ Range(queue) \cup scheduled \subseteq Range(lined)
  /\ \A m \in Range(lined) : stage[m] \notin Fresh
  /\ \A a, b \in DOMAIN queue : a < b =>
       queue[a] \in scheduled \/ (queue[b] \notin scheduled /\ Precedes(queue[a], queue[b]))
  /\ \A x \in Range(queue) \ scheduled : \A y \in scheduled : Precedes(y, x)

\* A step that takes entries out of the queue, and starts those in S, keeps it
\* as long as S were accepted before the entries left.
LEMMA LineKept ==
  ASSUME TypeInv, LineInv, UNCHANGED lined, NEW S, scheduled' = scheduled \cup S,
         S \subseteq Range(queue), S \cap Range(queue') = {},
         Range(queue') \subseteq Range(queue),
         \A a, b \in DOMAIN queue' : a < b =>
           \E i, j \in DOMAIN queue : i < j /\ queue'[a] = queue[i] /\ queue'[b] = queue[j],
         \A s \in S : \A x \in Range(queue') :
           s \in scheduled \/ (x \notin scheduled /\ Precedes(s, x)),
         \A x \in Msgs : stage'[x] = "queued" => x \in Range(queue'),
         \A x \in Msgs : stage'[x] \in Fresh => stage[x] \in Fresh
  PROVE  LineInv'
<1>1. lined' = lined
  OBVIOUS
<1>2. Range(lined) \subseteq Msgs
  BY DEF TypeInv, TypeOK, HistoryOK, Range
<1>3. ASSUME NEW a \in DOMAIN queue', NEW b \in DOMAIN queue', a < b
      PROVE  \/ queue'[a] \in scheduled'
             \/ queue'[b] \notin scheduled' /\ Precedes(queue'[a], queue'[b])
  <2>1. PICK i \in DOMAIN queue, j \in DOMAIN queue :
          i < j /\ queue'[a] = queue[i] /\ queue'[b] = queue[j]
    BY <1>3
  <2>2. queue[i] \in scheduled \/ (queue[j] \notin scheduled /\ Precedes(queue[i], queue[j]))
    BY <2>1 DEF LineInv
  <2>3. queue'[b] \notin S
    BY <1>3 DEF Range
  <2> QED BY <2>1, <2>2, <2>3
<1>4. ASSUME NEW x \in Range(queue') \ scheduled', NEW y \in scheduled'
      PROVE  Precedes(y, x)
  <2>1. x \in Range(queue) \ scheduled
    BY <1>4
  <2>2. y \in scheduled => Precedes(y, x)
    BY <2>1 DEF LineInv
  <2>3. y \in S => Precedes(y, x) \/ y \in scheduled
    BY <1>4
  <2> QED BY <1>4, <2>2, <2>3
<1>5. /\ \A i, j \in DOMAIN lined' : lined'[i] = lined'[j] => i = j
      /\ Range(queue') \cup scheduled' \subseteq Range(lined')
      /\ \A m \in Range(lined') : stage'[m] \notin Fresh
  BY <1>2 DEF LineInv
<1> QED BY <1>1, <1>3, <1>4, <1>5 DEF LineInv, Precedes

\* So does a step that leaves the queue alone.
LEMMA LineStays ==
  ASSUME TypeInv, LineInv, UNCHANGED <<lined, lineup>>,
         \A x \in Msgs : stage'[x] = "queued" => stage[x] = "queued",
         \A x \in Msgs : stage'[x] \in Fresh => stage[x] \in Fresh
  PROVE  LineInv'
<1>1. scheduled' = scheduled \cup {} /\ queue' = queue /\ UNCHANGED lined
  BY DEF lineup
<1>2. \A x \in Msgs : stage'[x] = "queued" => x \in Range(queue')
  BY <1>1 DEF LineInv
<1>3. \A a, b \in DOMAIN queue' : a < b =>
        \E i, j \in DOMAIN queue : i < j /\ queue'[a] = queue[i] /\ queue'[b] = queue[j]
  BY <1>1
<1> DEFINE S == {}
<1>4. /\ scheduled' = scheduled \cup S /\ S \subseteq Range(queue) /\ S \cap Range(queue') = {}
      /\ Range(queue') \subseteq Range(queue)
      /\ \A s \in S : \A x \in Range(queue') :
           s \in scheduled \/ (x \notin scheduled /\ Precedes(s, x))
  BY <1>1
<1> HIDE DEF S
<1> QED BY <1>1, <1>2, <1>3, <1>4, LineKept

\* The shift: the head was accepted first of those never given a turn.
LEMMA LineShifts ==
  ASSUME TypeInv, WaitInv, LineInv, UNCHANGED lined,
         NEW H \in SUBSET Msgs, NEW st, NEW busy, ShiftOf(H, st, busy),
         \A x \in Msgs : stage'[x] = "queued" => stage[x] = "queued" /\ x \notin H,
         \A x \in Msgs : stage'[x] \in Fresh => stage[x] \in Fresh
  PROVE  LineInv'
<1> DEFINE S == IF draining THEN {} ELSE H
<1>1. /\ H \subseteq Range(queue) /\ Range(queue') = Range(queue) \ H
      /\ scheduled' = scheduled \cup S /\ S \subseteq H
  BY DEF ShiftOf
<1>2. \A x \in Msgs : stage'[x] = "queued" => x \in Range(queue')
  BY <1>1 DEF LineInv
<1>3. CASE H = {}
  <2>1. queue' = queue /\ scheduled' = scheduled
    BY <1>1, <1>3 DEF ShiftOf
  <2> QED BY <2>1, LineStays DEF lineup
<1>4. CASE H # {}
  <2>1. queue # <<>> /\ queue' = Tail(queue) /\ H = {Head(queue)} /\ queue \in Seq(Msgs)
    BY <1>4 DEF ShiftOf, TypeInv, TypeOK, LineupOK
  <2>2. /\ DOMAIN queue = 1..Len(queue) /\ Len(queue) \in Nat /\ 1 \in DOMAIN queue
        /\ Head(queue) = queue[1]
        /\ DOMAIN Tail(queue) = 1..(Len(queue) - 1)
        /\ \A i \in DOMAIN Tail(queue) : /\ i + 1 \in DOMAIN queue /\ 1 < i + 1 /\ i \in Nat
                                         /\ Tail(queue)[i] = queue[i + 1]
    BY <2>1
  <2>3. ASSUME NEW a \in DOMAIN queue', NEW b \in DOMAIN queue', a < b
        PROVE  \E i, j \in DOMAIN queue : i < j /\ queue'[a] = queue[i] /\ queue'[b] = queue[j]
    <3>1. a + 1 \in DOMAIN queue /\ b + 1 \in DOMAIN queue /\ a + 1 < b + 1
      BY <2>1, <2>2, <2>3
    <3>2. queue'[a] = queue[a + 1] /\ queue'[b] = queue[b + 1]
      BY <2>1, <2>2, <2>3
    <3> QED BY <3>1, <3>2
  <2>4. ASSUME NEW s \in S, NEW x \in Range(queue')
        PROVE  s \in scheduled \/ (x \notin scheduled /\ Precedes(s, x))
    <3>1. s = queue[1]
      BY <1>1, <2>1, <2>2, <2>4
    <3>2. PICK i \in DOMAIN Tail(queue) : x = queue[i + 1]
      BY <2>1, <2>2, <2>4 DEF Range
    <3>3. i + 1 \in DOMAIN queue /\ 1 \in DOMAIN queue /\ 1 < i + 1
      BY <2>2
    <3> QED BY <3>1, <3>2, <3>3 DEF LineInv
  <2> HIDE DEF S
  <2>5. S \subseteq Range(queue) /\ S \cap Range(queue') = {} /\ Range(queue') \subseteq Range(queue)
    BY <1>1
  <2> QED BY <1>1, <1>2, <2>3, <2>4, <2>5, LineKept
<1> QED BY <1>3, <1>4

\* Every step keeps it.
LEMMA LineStep ==
  ASSUME TypeInv, WaitInv, HandInv, LineInv, CopyStep
  PROVE  LineInv'
<1> DEFINE Goal == LineInv'
<1>0. stage \in [Calls -> Stages] /\ taken \in [Calls -> Seq(Msgs)] /\ lined \in Seq(Msgs)
  BY DEF TypeInv, TypeOK, StageOK, CallsOK, HistoryOK
<1>a. /\ Waiting = {"queued", "offered", "joined", "withdrawn", "dropped"}
      /\ Fresh = {"typed", "auth", "lookup"}
      /\ {"register"} \subseteq Starting /\ Starting \cap (Waiting \cup Fresh) = {}
  BY DEF Waiting, Fresh, Starting
<1>l. Range(lined) \subseteq Msgs
  BY <1>0 DEF Range
<1>w. /\ Range(queue) \subseteq Msgs /\ Range(box) \subseteq Msgs
      /\ \A c \in Calls : Range(taken[c]) \subseteq Msgs
      /\ scheduled \subseteq Msgs /\ Msgs \subseteq Calls
      /\ Range(<<>>) = {}
      /\ queue \in Seq(Msgs) /\ box \in Seq(Msgs)
      /\ \A c \in Calls : taken[c] \in Seq(Msgs)
  BY WordsAreMessages
<1>m. ASSUME NEW c \in Calls, NEW s, Go(c, s), s \notin Fresh \cup {"queued"} \/ (s \in Fresh /\ stage[c] \in Fresh),
             UNCHANGED <<lineup, lined>>
      PROVE  Goal
  <2>1. \A x \in Msgs : stage'[x] = IF x = c THEN s ELSE stage[x]
    BY <1>0, <1>m, <1>w DEF Go
  <2> QED BY <1>a, <1>m, <2>1, LineStays
\* Taking out the entries in W, which stop waiting, starts nobody.
<1>x. ASSUME NEW W, queue' \in Excluding(queue, W), UNCHANGED <<lined, scheduled>>,
             \A x \in Msgs : stage'[x] = "queued" => stage[x] = "queued" /\ ~(x \in W /\ x \in Range(queue)),
             \A x \in Msgs : stage'[x] \in Fresh => stage[x] \in Fresh
      PROVE  Goal
  <2> DEFINE S == {}
  <2>1. /\ Range(queue') = Range(queue) \ W
        /\ \A a, b \in DOMAIN queue' : a < b =>
             \E i, j \in DOMAIN queue : i < j /\ queue'[a] = queue[i] /\ queue'[b] = queue[j]
    BY <1>w, <1>x, ExcludedExactly
  <2>2. \A x \in Msgs : stage'[x] = "queued" => x \in Range(queue')
    BY <1>x, <2>1 DEF LineInv
  <2>3. /\ scheduled' = scheduled \cup S /\ S \subseteq Range(queue) /\ S \cap Range(queue') = {}
        /\ Range(queue') \subseteq Range(queue)
        /\ \A s \in S : \A x \in Range(queue') :
             s \in scheduled \/ (x \notin scheduled /\ Precedes(s, x))
    BY <1>x, <2>1
  <2> HIDE DEF S
  <2> QED BY <1>x, <2>1, <2>2, <2>3, LineKept
<1> HIDE DEF Goal
<1>1. ASSUME MoveStep PROVE Goal
  <2>1. PICK c \in Calls, s \in Stages :
          /\ Go(c, s) /\ s \notin Waiting
          /\ s \in Fresh => stage[c] \in Fresh
          /\ UNCHANGED <<lineup, lined>>
    BY <1>1 DEF MoveStep
  <2> QED BY <1>a, <1>m, <2>1
<1>2. ASSUME StillStep PROVE Goal
  BY <1>2, LineStays DEF StillStep, Goal
<1>3. ASSUME BatonStep PROVE Goal
  <2>1. PICK c \in Calls, H \in SUBSET Msgs :
          /\ stage[c] \in Starting
          /\ ShiftOf(H, [stage EXCEPT ![c] = "told"], HasActiveTurn)
          /\ \A x \in Calls : stage'[x] = IF x \in H THEN (IF draining THEN "dropped" ELSE "start")
                                          ELSE IF x = c THEN "told" ELSE stage[x]
    BY <1>3, BatonShifts
  <2>2. UNCHANGED lined
    BY <1>3 DEF BatonStep
  <2>3. \A x \in Msgs : /\ stage'[x] = "queued" => stage[x] = "queued" /\ x \notin H
                        /\ stage'[x] \in Fresh => stage[x] \in Fresh
    BY <1>a, <1>w, <2>1
  <2> QED BY <2>1, <2>2, <2>3, LineShifts DEF Goal
<1>4. ASSUME EndStep PROVE Goal
  <2>1. UNCHANGED lined
    BY <1>4, EndShifts
  <2>2. PICK c \in Calls, H \in SUBSET Msgs, st \in [Calls -> Stages] :
          /\ ShiftOf(H, st, FALSE)
          /\ \A x \in Calls : stage'[x] = IF x \in H THEN (IF draining THEN "dropped" ELSE "start")
               ELSE IF x = c THEN "ended"
               ELSE IF x \in Range(box) /\ stage[x] = "offered" THEN "dropped" ELSE stage[x]
    BY <1>4, EndShifts
  <2>3. \A x \in Msgs : /\ stage'[x] = "queued" => stage[x] = "queued" /\ x \notin H
                        /\ stage'[x] \in Fresh => stage[x] \in Fresh
    BY <1>a, <1>w, <2>2
  <2> QED BY <2>1, <2>2, <2>3, LineShifts DEF Goal
<1>6. ASSUME DrainStep PROVE Goal
  BY <1>6, <1>a, <1>m DEF DrainStep
<1>7. ASSUME SpliceStep PROVE Goal
  BY <1>7, <1>a, <1>m DEF SpliceStep
<1>8. ASSUME ConsumeStep PROVE Goal
  <2>1. PICK c \in Calls :
          /\ stage[c] = "announce"
          /\ queue' \in Excluding(queue, {Head(taken[c])})
          /\ stage' = [stage EXCEPT
               ![Head(taken[c])] = IF @ \in {"queued", "offered"} THEN "joined" ELSE @,
               ![c] = IF Tail(taken[c]) = <<>> THEN "model" ELSE "splice"]
          /\ UNCHANGED <<scheduled, lined>>
    BY <1>8 DEF ConsumeStep
  <2> DEFINE m == Head(taken[c])
  <2>2. m \in Msgs
    BY <1>w, <2>1 DEF TypeInv, WordsInHand
  <2>3. \A x \in Calls : stage'[x] = IF x = c THEN (IF Tail(taken[c]) = <<>> THEN "model" ELSE "splice")
                                     ELSE IF x = m /\ stage[x] \in {"queued", "offered"} THEN "joined"
                                     ELSE stage[x]
    BY <1>0, <1>w, <2>1, <2>2
  <2>4. queue' \in Excluding(queue, {m})
    BY <2>1
  <2> HIDE DEF m
  <2>5. \A x \in Msgs : /\ stage'[x] = "queued" => stage[x] = "queued" /\ ~(x \in {m} /\ x \in Range(queue))
                        /\ stage'[x] \in Fresh => stage[x] \in Fresh
    BY <1>a, <1>w, <2>3
  <2> QED BY <1>x, <2>1, <2>4, <2>5
<1>9. ASSUME GiveUpStep PROVE Goal
  BY <1>9, <1>a, <1>m DEF GiveUpStep
<1>11. ASSUME OfferStep PROVE Goal
  <2>1. PICK m \in Steers : stage[m] = "typed" /\ Go(m, "offered") /\ UNCHANGED <<lineup, lined>>
    BY <1>11 DEF OfferStep
  <2> QED BY <1>a, <1>m, <1>w, <2>1, ChatAssumption
<1>12. ASSUME TakeAwayStep PROVE Goal
  <2>1. PICK W \in SUBSET Msgs :
          /\ queue' \in Excluding(queue, W)
          /\ Withdraw(W \cap (Range(queue) \cup Range(box)))
          /\ UNCHANGED <<scheduled, lined>>
    BY <1>12 DEF TakeAwayStep
  <2>2. \A x \in Calls : stage'[x] = IF x \in W \cap (Range(queue) \cup Range(box)) THEN "withdrawn" ELSE stage[x]
    BY <2>1 DEF Withdraw
  <2>3. \A x \in Msgs : /\ stage'[x] = "queued" => stage[x] = "queued" /\ ~(x \in W /\ x \in Range(queue))
                        /\ stage'[x] \in Fresh => stage[x] \in Fresh
    BY <1>a, <1>w, <2>2
  <2> QED BY <1>x, <2>1, <2>3
<1>13. ASSUME ClearStep PROVE Goal
  <2> DEFINE S == {}
  <2>1. queue' = <<>> /\ Withdraw(Range(queue)) /\ UNCHANGED <<scheduled, lined>>
    BY <1>13 DEF ClearStep, ClearQueued
  <2>2. \A x \in Calls : stage'[x] = IF x \in Range(queue) THEN "withdrawn" ELSE stage[x]
    BY <2>1 DEF Withdraw
  <2>3. /\ \A x \in Msgs : stage'[x] = "queued" => x \in Range(queue')
        /\ \A x \in Msgs : stage'[x] \in Fresh => stage[x] \in Fresh
    BY <1>a, <1>w, <2>2 DEF LineInv
  <2>4. /\ scheduled' = scheduled \cup S /\ S \subseteq Range(queue) /\ S \cap Range(queue') = {}
        /\ Range(queue') \subseteq Range(queue)
        /\ \A s \in S : \A x \in Range(queue') :
             s \in scheduled \/ (x \notin scheduled /\ Precedes(s, x))
        /\ \A a, b \in DOMAIN queue' : a < b =>
             \E i, j \in DOMAIN queue : i < j /\ queue'[a] = queue[i] /\ queue'[b] = queue[j]
    BY <1>w, <2>1
  <2> HIDE DEF S
  <2> QED BY <2>1, <2>3, <2>4, LineKept DEF Goal
\* An entry a 409 put back stands in front of all and was given its turn.
<1>5. ASSUME RequeueStep PROVE Goal
  <2>1. PICK c \in scheduled : /\ stage[c] = "register" /\ Go(c, "queued")
                               /\ queue' = <<c>> \o queue
                               /\ UNCHANGED <<scheduled, lined>>
    BY <1>5 DEF RequeueStep
  <2>2. c \in Msgs /\ \A x \in Calls : stage'[x] = IF x = c THEN "queued" ELSE stage[x]
    BY <1>0, <1>w, <2>1 DEF Go
  <2>3. Range(queue') = Range(queue) \cup {c}
    BY <1>w, <2>1, <2>2, MessageAdded
  <2>4. /\ DOMAIN queue' = 1..(Len(queue) + 1) /\ DOMAIN queue = 1..Len(queue) /\ Len(queue) \in Nat
        /\ queue'[1] = c
        /\ \A i \in DOMAIN queue' : i = 1 \/ (i - 1 \in DOMAIN queue /\ queue'[i] = queue[i - 1])
    BY <1>w, <2>1
  <2>5. ASSUME NEW a \in DOMAIN queue', NEW b \in DOMAIN queue', a < b
        PROVE  \/ queue'[a] \in scheduled
               \/ queue'[b] \notin scheduled /\ Precedes(queue'[a], queue'[b])
    <3>1. CASE a = 1
      BY <2>1, <2>4, <3>1
    <3>2. CASE a # 1
      <4>1. /\ a - 1 \in DOMAIN queue /\ b - 1 \in DOMAIN queue /\ a - 1 < b - 1
            /\ queue'[a] = queue[a - 1] /\ queue'[b] = queue[b - 1]
        BY <2>4, <2>5, <3>2
      <4> QED BY <4>1 DEF LineInv
    <3> QED BY <3>1, <3>2
  <2>6. /\ \A x \in Msgs : stage'[x] = "queued" => x \in Range(queue')
        /\ \A x \in Range(lined) : x \in Msgs /\ stage'[x] \notin Fresh
        /\ Range(queue') \cup scheduled \subseteq Range(lined)
        /\ \A x \in Range(queue') \ scheduled : \A y \in scheduled : Precedes(y, x)
    <3>1. \A x \in Range(lined) : x \in Msgs /\ stage'[x] \notin Fresh
      BY <1>a, <1>l, <1>w, <2>2 DEF LineInv
    <3>2. \A x \in Msgs : stage'[x] = "queued" => x \in Range(queue')
      BY <1>w, <2>2, <2>3 DEF LineInv
    <3> QED BY <2>1, <2>3, <3>1, <3>2 DEF LineInv
  <2>7. lined' = lined /\ scheduled' = scheduled
    BY <2>1
  <2> QED BY <2>5, <2>6, <2>7 DEF LineInv, Precedes, Goal
\* A new entry goes last, in the queue and among those accepted.
<1>10. ASSUME LandStep PROVE Goal
  <2>1. PICK m \in Msgs : /\ stage[m] = "lookup" /\ Go(m, "queued")
                          /\ queue' = Append(queue, m) /\ lined' = Append(lined, m)
                          /\ UNCHANGED scheduled
    BY <1>10 DEF LandStep
  <2>2. \A x \in Calls : stage'[x] = IF x = m THEN "queued" ELSE stage[x]
    BY <1>0, <1>w, <2>1 DEF Go
  <2>3. Range(queue') = Range(queue) \cup {m} /\ Range(lined') = Range(lined) \cup {m}
    BY <1>0, <1>w, <2>1, MessageAdded
  <2>4. m \notin Range(lined) /\ m \notin Range(queue) /\ m \notin scheduled /\ Range(lined) \subseteq Msgs
    BY <1>a, <1>l, <2>1 DEF LineInv
  <2>5. /\ DOMAIN queue' = 1..(Len(queue) + 1) /\ DOMAIN queue = 1..Len(queue) /\ Len(queue) \in Nat
        /\ queue'[Len(queue) + 1] = m
        /\ \A i \in DOMAIN queue' : i = Len(queue) + 1 \/ (i \in DOMAIN queue /\ queue'[i] = queue[i])
    BY <1>w, <2>1
  <2>6. /\ DOMAIN lined' = 1..(Len(lined) + 1) /\ DOMAIN lined = 1..Len(lined) /\ Len(lined) \in Nat
        /\ lined'[Len(lined) + 1] = m
        /\ \A i \in DOMAIN lined' : i = Len(lined) + 1 \/ (i \in DOMAIN lined /\ lined'[i] = lined[i])
        /\ \A i \in DOMAIN lined : i \in DOMAIN lined' /\ lined'[i] = lined[i] /\ i < Len(lined) + 1
    BY <1>0, <2>1
  <2> DEFINE Before(x, y) == \E i, j \in DOMAIN lined' : i < j /\ lined'[i] = x /\ lined'[j] = y
  <2>7. \A x, y : Precedes(x, y) => Before(x, y)
    BY <2>6 DEF Precedes
  <2>8. \A x \in Range(lined) : Before(x, m)
    <3>1. Len(lined) + 1 \in DOMAIN lined'
      BY <2>6
    <3> QED BY <2>6, <3>1 DEF Range
  <2>9. \A i, j \in DOMAIN lined' : lined'[i] = lined'[j] => i = j
    <3>1. \A i \in DOMAIN lined : lined[i] # m
      BY <2>4 DEF Range
    <3> QED BY <2>6, <3>1 DEF LineInv
  <2> HIDE DEF Before
  <2>10. ASSUME NEW a \in DOMAIN queue', NEW b \in DOMAIN queue', a < b
         PROVE  \/ queue'[a] \in scheduled
                \/ queue'[b] \notin scheduled /\ Before(queue'[a], queue'[b])
    <3>1. a \in DOMAIN queue /\ queue'[a] = queue[a] /\ queue[a] \in Range(lined)
      <4>1. a \in DOMAIN queue /\ queue'[a] = queue[a]
        BY <2>5, <2>10
      <4> QED BY <4>1 DEF LineInv, Range
    <3>2. CASE b = Len(queue) + 1
      BY <2>4, <2>5, <2>8, <3>1, <3>2
    <3>3. CASE b \in DOMAIN queue /\ queue'[b] = queue[b]
      BY <2>7, <2>10, <3>1, <3>3 DEF LineInv
    <3> QED BY <2>5, <3>2, <3>3
  <2>11. \A x \in Range(queue') \ scheduled : \A y \in scheduled : Before(y, x)
    BY <2>3, <2>7, <2>8 DEF LineInv
  <2>12. /\ \A x \in Msgs : stage'[x] = "queued" => x \in Range(queue')
         /\ \A x \in Range(lined') : stage'[x] \notin Fresh
         /\ Range(queue') \cup scheduled \subseteq Range(lined')
    BY <1>a, <1>w, <2>1, <2>2, <2>3, <2>4 DEF LineInv
  <2>13. scheduled' = scheduled
    BY <2>1
  <2> QED BY <2>9, <2>10, <2>11, <2>12, <2>13 DEF LineInv, Precedes, Before, Goal
<1>g. Goal
  BY <1>1, <1>2, <1>3, <1>4, <1>5, <1>6, <1>7, <1>8, <1>9, <1>10, <1>11, <1>12, <1>13 DEF CopyStep
<1> QED BY <1>g DEF Goal

\* Whatever fails, drains, races or is taken away: no entry is given its turn
\* while one the queue accepted before it waits for its first.
THEOREM InArrivalOrder == Spec => []ServedInOrder
<1> DEFINE I == TypeInv /\ WaitInv /\ HandInv /\ LineInv
<1>1. Init => I
  <2>1. ASSUME Init PROVE HandInv /\ LineInv
    <3>1. queue = <<>> /\ lined = <<>> /\ scheduled = {} /\ Range(<<>>) = {} /\ DOMAIN <<>> = {}
      BY <2>1 DEF Init, Range
    <3>2. \A m \in Msgs : stage[m] # "queued"
      BY <2>1 DEF Init, Calls
    <3>3. HandInv
      BY <2>1 DEF Init, HandInv, Range
    <3> QED BY <3>1, <3>2, <3>3 DEF LineInv
  <2> QED BY <2>1, TypeStart, WaitStart
<1>2. I /\ [Next]_vars => I'
  BY TypeStep, WaitStep, CopySteps, HandStep, LineStep
<1>3. I => ServedInOrder
  <2> SUFFICES ASSUME I, NEW i \in DOMAIN lined, NEW j \in DOMAIN lined, i < j,
                      lined[j] \in scheduled, stage[lined[i]] = "queued",
                      lined[i] \notin scheduled
               PROVE  FALSE
    BY DEF ServedInOrder
  <2>1. lined \in Seq(Msgs)
    BY DEF TypeInv, TypeOK, HistoryOK
  <2>2. lined[i] \in Range(queue) \ scheduled
    BY <2>1 DEF LineInv
  <2>3. PICK a, b \in DOMAIN lined : a < b /\ lined[a] = lined[j] /\ lined[b] = lined[i]
    BY <2>2 DEF LineInv, Precedes
  <2>4. a = j /\ b = i
    BY <2>3 DEF LineInv
  <2> QED BY <2>1, <2>3, <2>4
<1> QED BY <1>1, <1>2, <1>3, PTL DEF Spec

-----------------------------------------------------------------------------
(* No entry is stranded *)

\* What waits in the queue is served, and a bare steer is never among it.  The
\* chat is there until its rows are deleted; once the deletion is announced an
\* entry can only start, and every start is refused, which passes the baton.
ServeInv ==
  /\ QueueIsServed
  /\ deletion = "announced" =>
       \/ queue = <<>> \/ HasActiveTurn \/ DrainDropped # {}
       \/ \E m \in scheduled : stage[m] = "start"
  /\ exists <=> deletion \in {"no", "begun"}
  /\ \A m \in Steers : m \notin Range(queue) \cup scheduled /\ stage[m] # "lookup"

\* After a step, a turn that lives is the registry's.
LEMMA LiveIsActive ==
  ASSUME TypeInv', WaitInv', NEW x \in Calls, stage'[x] \in Live
  PROVE  HasActiveTurn'
<1>1. None \notin Calls /\ reg' = x
  BY ChatAssumption DEF WaitInv, RegistryOwnsRunner
<1> QED BY <1>1 DEF HasActiveTurn

\* What ends the wait of the queue without leaving an entry behind: it is
\* empty, a turn runs, its head was started, or a drain dropped one.
Served ==
  \/ queue = <<>> \/ HasActiveTurn \/ DrainDropped # {}
  \/ \E m \in scheduled : stage[m] = "start"

\* The shift leaves nobody behind, unless a turn goes on running.
LEMMA ShiftServes ==
  ASSUME TypeInv, WaitInv, TypeInv', WaitInv',
         \A m \in Range(queue) : m \notin Steers,
         NEW H \in SUBSET Msgs, NEW st, NEW busy, ShiftOf(H, st, busy),
         busy => \E x \in Calls : stage'[x] \in Live
  PROVE  Served'
<1>1. CASE H = {}
  <2>1. queue = <<>> \/ busy
    BY <1>1 DEF ShiftOf
  <2>2. queue' = queue
    BY <1>1 DEF ShiftOf
  <2>3. busy => HasActiveTurn'
    BY LiveIsActive
  <2> QED BY <2>1, <2>2, <2>3 DEF Served
<1>2. CASE H # {} /\ draining
  <2>1. PICK h \in H : h \in Msgs \ Steers
    BY <1>2 DEF ShiftOf
  <2>2. stage'[h] = "dropped"
    BY <1>2, <2>1 DEF ShiftOf, Calls
  <2> QED BY <2>1, <2>2 DEF Served, DrainDropped
<1>3. CASE H # {} /\ ~draining
  <2>1. PICK h \in H : h \in scheduled'
    BY <1>3 DEF ShiftOf
  <2>2. stage'[h] = "start"
    BY <1>3, <2>1 DEF ShiftOf, Calls
  <2> QED BY <2>1, <2>2 DEF Served
<1> QED BY <1>1, <1>2, <1>3

\* A step that neither shifts the queue nor clears it leaves it served: it
\* lengthens the queue only while a turn runs, ends no turn, forgets no drop,
\* and moves a started entry only towards its turn.
LEMMA StillServed ==
  ASSUME TypeInv, WaitInv, TypeInv', WaitInv', ServeInv, UNCHANGED <<exists, deletion>>,
         queue = <<>> => queue' = <<>> \/ HasActiveTurn,
         HasActiveTurn => \E x \in Calls : stage'[x] \in Live,
         DrainDropped \subseteq DrainDropped' \/ HasActiveTurn,
         scheduled \subseteq scheduled',
         \A m \in scheduled : stage[m] \in Starting =>
           \/ stage'[m] = stage[m] \/ stage'[m] \in Live
           \/ stage'[m] \in Starting /\ (stage[m] = "start" => exists)
           \/ stage[m] = "write" /\ ~exists
  PROVE  /\ QueueIsServed'
         /\ deletion' = "announced" => Served'
<1>1. (\E x \in Calls : stage'[x] \in Live) => HasActiveTurn'
  BY LiveIsActive
<1>2. scheduled \subseteq Calls /\ "start" \in Starting
  BY WordsAreMessages DEF Starting
<1>3. CASE HasActiveTurn \/ queue = <<>> \/ DrainDropped # {}
  <2>1. HasActiveTurn' \/ queue' = <<>> \/ DrainDropped' # {}
    BY <1>1, <1>3
  <2> QED BY <2>1 DEF QueueIsServed, Served
<1>4. CASE deletion = "deleted"
  BY <1>4 DEF QueueIsServed
<1>5. CASE /\ deletion \notin {"deleted", "announced"}
           /\ \E m \in scheduled : stage[m] \in Starting
  <2>1. exists /\ deletion' # "announced"
    BY <1>5 DEF ServeInv, TypeInv, TypeOK, ControlOK
  <2>2. PICK m \in scheduled : stage'[m] \in Starting \cup Live
    BY <1>5, <2>1
  <2>3. HasActiveTurn' \/ (m \in scheduled' /\ stage'[m] \in Starting)
    BY <1>1, <1>2, <2>2
  <2> QED BY <2>1, <2>3 DEF QueueIsServed
<1>6. CASE /\ deletion = "announced"
           /\ \E m \in scheduled : stage[m] = "start"
  <2>1. ~exists
    BY <1>6 DEF ServeInv
  <2>2. PICK m \in scheduled : stage[m] = "start" /\ (stage'[m] = "start" \/ stage'[m] \in Live)
    BY <1>2, <1>6, <2>1
  <2>3. HasActiveTurn' \/ (m \in scheduled' /\ stage'[m] = "start")
    BY <1>1, <1>2, <2>2
  <2> QED BY <1>2, <2>3 DEF QueueIsServed, Served
<1> QED BY <1>3, <1>4, <1>5, <1>6 DEF ServeInv, QueueIsServed

\* Every step but a delete's keeps the queue served.
LEMMA ServedStep ==
  ASSUME TypeInv, WaitInv, HandInv, TypeInv', WaitInv', ServeInv, CopyStep, ~MayFail,
         UNCHANGED <<exists, deletion>>
  PROVE  /\ QueueIsServed'
         /\ deletion' = "announced" => Served'
<1> DEFINE Goal == QueueIsServed' /\ (deletion' = "announced" => Served')
           Live2 == \E x \in Calls : stage'[x] \in Live
<1>0. /\ stage \in [Calls -> Stages] /\ deletion' = deletion /\ exists' = exists
      /\ \A m \in Range(queue) : m \notin Steers
      /\ HasActiveTurn => reg \in Calls /\ stage[reg] \in Live
  BY ChatAssumption DEF TypeInv, TypeOK, StageOK, RegistryOK, HasActiveTurn, ServeInv
<1>a. /\ Waiting = {"queued", "offered", "joined", "withdrawn", "dropped"}
      /\ {"tools", "splice", "announce", "model", "save", "prepare", "close"} \subseteq Live
      /\ {"register"} \subseteq Starting
      /\ Live \cap (Waiting \cup Starting) = {} /\ Starting \cap Waiting = {}
      /\ {"lookup", "typed", "told"} \cap (Live \cup Starting \cup Waiting) = {}
  BY DEF Waiting, Live, Hosting, Starting
<1>w. /\ Range(queue) \subseteq Msgs /\ Range(box) \subseteq Msgs
      /\ scheduled \subseteq Msgs /\ Msgs \subseteq Calls
      /\ Range(<<>>) = {}
      /\ queue \in Seq(Msgs) /\ box \in Seq(Msgs)
      /\ \A c \in Calls : taken[c] \in Seq(Msgs)
  BY WordsAreMessages
<1>s. Served' => Goal
  BY DEF Served, QueueIsServed, Starting
\* Moves within the turn of the one call that has one.
<1>m. ASSUME NEW c \in Calls, NEW s, \A x \in Calls : stage'[x] = stage[x] \/ (x = c /\ stage'[x] = s),
             stage[c] \notin Waiting, MovesOn(c, s), UNCHANGED scheduled,
             queue' = <<>> \/ queue = queue' \/ HasActiveTurn
      PROVE  Goal
  <2>1. HasActiveTurn => \E x \in Calls : stage'[x] \in Live
    BY <1>0, <1>m DEF MovesOn
  <2>2. DrainDropped \subseteq DrainDropped'
    BY <1>a, <1>m, <1>w DEF DrainDropped
  <2>3. \A m \in scheduled : stage[m] \in Starting =>
           \/ stage'[m] = stage[m] \/ stage'[m] \in Live
           \/ stage'[m] \in Starting /\ (stage[m] = "start" => exists)
           \/ stage[m] = "write" /\ ~exists
    BY <1>m, <1>w DEF MovesOn
  <2>4. scheduled \subseteq scheduled' /\ (queue = <<>> => queue' = <<>> \/ HasActiveTurn)
    BY <1>m
  <2> QED BY <1>0, <2>1, <2>2, <2>3, <2>4, StillServed
\* A waiting message moves.
<1>n. ASSUME \A x \in Calls : stage'[x] = stage[x] \/ stage[x] \in Waiting \cup {"lookup", "typed"},
             DrainDropped \subseteq DrainDropped' \/ HasActiveTurn,
             UNCHANGED scheduled, queue = <<>> => queue' = <<>> \/ HasActiveTurn
      PROVE  Goal
  <2>1. HasActiveTurn => \E x \in Calls : stage'[x] \in Live
    BY <1>0, <1>a, <1>n
  <2>2. \A m \in scheduled : stage[m] \in Starting => stage'[m] = stage[m]
    BY <1>a, <1>n, <1>w
  <2>3. scheduled \subseteq scheduled'
    BY <1>n
  <2> QED BY <1>0, <1>n, <2>1, <2>2, <2>3, StillServed
<1> HIDE DEF Goal
<1>1. ASSUME MoveStep PROVE Goal
  <2>1. PICK c \in Calls, s \in Stages :
          /\ Go(c, s) /\ stage[c] \notin Waiting
          /\ MovesOn(c, s)
          /\ UNCHANGED lineup
    BY <1>1 DEF MoveStep
  <2>2. \A x \in Calls : stage'[x] = stage[x] \/ (x = c /\ stage'[x] = s)
    BY <1>0, <2>1 DEF Go
  <2> QED BY <1>m, <2>1, <2>2 DEF lineup
<1>2. ASSUME StillStep PROVE Goal
  BY <1>2, <1>n DEF StillStep, lineup, DrainDropped
<1>3. ASSUME BatonStep PROVE Goal
  <2>1. PICK c \in Calls, H \in SUBSET Msgs :
          /\ stage[c] \in Starting
          /\ ShiftOf(H, [stage EXCEPT ![c] = "told"], HasActiveTurn)
          /\ \A x \in Calls : stage'[x] = IF x \in H THEN (IF draining THEN "dropped" ELSE "start")
                                          ELSE IF x = c THEN "told" ELSE stage[x]
    BY <1>3, BatonShifts
  <2>2. HasActiveTurn => \E x \in Calls : stage'[x] \in Live
    <3>1. \A h \in H : stage[h] = "queued"
      BY <2>1 DEF ShiftOf
    <3> QED BY <1>0, <1>a, <2>1, <3>1
  <2>3. Served'
    BY <1>0, <2>1, <2>2, ShiftServes
  <2> QED BY <1>s, <2>3
<1>4. ASSUME EndStep PROVE Goal
  <2>1. PICK c \in Calls, H \in SUBSET Msgs, st \in [Calls -> Stages] : ShiftOf(H, st, FALSE)
    BY <1>4, EndShifts
  <2>2. Served'
    BY <1>0, <2>1, ShiftServes
  <2> QED BY <1>s, <2>2
<1>5. ASSUME RequeueStep PROVE Goal
  <2>1. PICK c \in scheduled : /\ stage[c] = "register" /\ HasActiveTurn /\ Go(c, "queued")
    BY <1>5 DEF RequeueStep
  <2>2. stage'[reg] \in Live
    BY <1>0, <1>a, <1>w, <2>1 DEF Go
  <2>3. HasActiveTurn'
    BY <1>0, <2>1, <2>2, LiveIsActive
  <2> QED BY <1>s, <2>3 DEF Served
<1>6. ASSUME DrainStep \/ SpliceStep \/ GiveUpStep PROVE Goal
  <2>1. PICK c \in Calls : /\ stage[c] \in {"tools", "splice", "announce"}
                           /\ \E s \in {"model", "splice", "announce", "save"} : Go(c, s)
    BY <1>6 DEF DrainStep, SpliceStep, GiveUpStep
  <2>2. stage'[c] \in Live
    BY <1>0, <1>a, <2>1 DEF Go
  <2>3. HasActiveTurn'
    BY <2>2, LiveIsActive
  <2> QED BY <1>s, <2>3 DEF Served
<1>8. ASSUME ConsumeStep PROVE Goal
  <2>1. PICK c \in Calls :
          /\ stage[c] = "announce"
          /\ stage' = [stage EXCEPT
               ![Head(taken[c])] = IF @ \in {"queued", "offered"} THEN "joined" ELSE @,
               ![c] = IF Tail(taken[c]) = <<>> THEN "model" ELSE "splice"]
    BY <1>8 DEF ConsumeStep
  <2>2. stage'[c] \in {"model", "splice"}
    BY <1>0, <2>1
  <2>3. HasActiveTurn'
    BY <1>a, <2>2, LiveIsActive
  <2> QED BY <1>s, <2>3 DEF Served
<1>10. ASSUME LandStep PROVE Goal
  <2>1. PICK m \in Msgs : stage[m] = "lookup" /\ HasActiveTurn /\ Go(m, "queued")
    BY <1>10 DEF LandStep
  <2>2. stage'[reg] \in Live
    BY <1>0, <1>a, <1>w, <2>1 DEF Go
  <2>3. HasActiveTurn'
    BY <1>0, <2>1, <2>2, LiveIsActive
  <2> QED BY <1>s, <2>3 DEF Served
<1>11. ASSUME OfferStep PROVE Goal
  <2>1. PICK m \in Steers : /\ stage[m] = "typed" /\ Go(m, "offered") /\ UNCHANGED lineup
    BY <1>11 DEF OfferStep
  <2>2. m \in Calls /\ \A x \in Calls : stage'[x] = IF x = m THEN "offered" ELSE stage[x]
    BY <1>0, <1>w, <2>1, ChatAssumption DEF Go
  <2>3. DrainDropped \subseteq DrainDropped'
    BY <1>w, <2>1, <2>2 DEF DrainDropped
  <2> QED BY <1>n, <2>1, <2>2, <2>3 DEF lineup
<1>12. ASSUME TakeAwayStep PROVE Goal
  <2>1. PICK W \in SUBSET Msgs :
          /\ queue' \in Excluding(queue, W)
          /\ Withdraw(W \cap (Range(queue) \cup Range(box)))
          /\ UNCHANGED scheduled
    BY <1>12 DEF TakeAwayStep
  <2>2. \A x \in Calls : stage'[x] = IF x \in W \cap (Range(queue) \cup Range(box)) THEN "withdrawn" ELSE stage[x]
    BY <2>1 DEF Withdraw
  <2>3. /\ \A x \in Range(queue) : stage[x] = "queued"
        /\ \A x \in Range(box) : stage[x] \in Waiting
    BY DEF WaitInv, QueueWaits, BoxWaits, Waiting, Range
  <2>4. DrainDropped \subseteq DrainDropped' \/ HasActiveTurn
    <3>1. HasActiveTurn \/ Range(box) = {}
      BY <1>w, IdleMailbox
    <3> QED BY <1>w, <2>2, <2>3, <3>1 DEF DrainDropped
  <2>5. queue = <<>> => queue' = <<>>
    BY <2>1, EmptyStays
  <2>6. \A x \in Calls : stage'[x] = stage[x] \/ stage[x] \in Waiting
    BY <1>a, <2>2, <2>3
  <2> QED BY <1>n, <2>1, <2>4, <2>5, <2>6
<1>13. ASSUME ClearStep PROVE Goal
  <2>1. queue' = <<>>
    BY <1>13 DEF ClearStep, ClearQueued
  <2> QED BY <1>s, <2>1 DEF Served
<1>g. Goal
  BY <1>1, <1>2, <1>3, <1>4, <1>5, <1>6, <1>8, <1>10, <1>11, <1>12, <1>13 DEF CopyStep
<1> QED BY <1>g DEF Goal

\* No step schedules a bare steer.
LEMMA SteersStep ==
  ASSUME TypeInv, WaitInv, ServeInv, CopyStep
  PROVE  \A m \in Steers : m \notin Range(queue') \cup scheduled' /\ stage'[m] # "lookup"
<1> DEFINE Goal == \A m \in Steers : m \notin Range(queue') \cup scheduled' /\ stage'[m] # "lookup"
<1>0. /\ stage \in [Calls -> Stages] /\ Steers \subseteq Msgs
      /\ \A m \in Steers : m \notin Range(queue) \cup scheduled /\ stage[m] # "lookup"
  BY ChatAssumption DEF TypeInv, TypeOK, StageOK, ServeInv
<1>w. /\ Range(queue) \subseteq Msgs /\ scheduled \subseteq Msgs /\ Msgs \subseteq Calls
      /\ Range(<<>>) = {} /\ queue \in Seq(Msgs)
      /\ \A c \in Calls : taken[c] \in Seq(Msgs)
  BY WordsAreMessages
<1>k. ASSUME Range(queue') \subseteq Range(queue) \/ (Range(queue') \subseteq Range(queue) \cup scheduled),
             scheduled' \subseteq scheduled \cup Range(queue),
             \A m \in Steers : stage'[m] = "lookup" => stage[m] = "lookup"
      PROVE  Goal
  BY <1>0, <1>k
<1>q. ASSUME NEW c \in Calls, NEW s, Go(c, s), s = "lookup" => c \notin Steers,
             UNCHANGED lineup
      PROVE  Goal
  BY <1>0, <1>k, <1>q, <1>w DEF Go, lineup
<1> HIDE DEF Goal
<1>1. ASSUME MoveStep PROVE Goal
  <2>1. PICK c \in Calls, s \in Stages : Go(c, s) /\ (s = "lookup" => c \notin Steers) /\ UNCHANGED lineup
    BY <1>1 DEF MoveStep
  <2> QED BY <1>q, <2>1
<1>2. ASSUME StillStep PROVE Goal
  BY <1>2, <1>k DEF StillStep, lineup
<1>3. ASSUME BatonStep \/ EndStep PROVE Goal
  <2>1. CASE BatonStep
    <3>1. PICK c \in Calls, H \in SUBSET Msgs :
            /\ ShiftOf(H, [stage EXCEPT ![c] = "told"], HasActiveTurn)
            /\ \A x \in Calls : stage'[x] = IF x \in H THEN (IF draining THEN "dropped" ELSE "start")
                                            ELSE IF x = c THEN "told" ELSE stage[x]
      BY <2>1, BatonShifts
    <3>2. Range(queue') \subseteq Range(queue) /\ scheduled' \subseteq scheduled \cup Range(queue)
      BY <3>1 DEF ShiftOf
    <3>3. \A m \in Steers : stage'[m] = "lookup" => stage[m] = "lookup"
      BY <1>0, <1>w, <3>1
    <3> QED BY <1>k, <3>2, <3>3
  <2>2. CASE EndStep
    <3>1. PICK c \in Calls, H \in SUBSET Msgs, st \in [Calls -> Stages] :
            /\ ShiftOf(H, st, FALSE)
            /\ \A x \in Calls : stage'[x] = IF x \in H THEN (IF draining THEN "dropped" ELSE "start")
                 ELSE IF x = c THEN "ended"
                 ELSE IF x \in Range(box) /\ stage[x] = "offered" THEN "dropped" ELSE stage[x]
      BY <2>2, EndShifts
    <3>2. Range(queue') \subseteq Range(queue) /\ scheduled' \subseteq scheduled \cup Range(queue)
      BY <3>1 DEF ShiftOf
    <3>3. \A m \in Steers : stage'[m] = "lookup" => stage[m] = "lookup"
      BY <1>0, <1>w, <3>1
    <3> QED BY <1>k, <3>2, <3>3
  <2> QED BY <1>3, <2>1, <2>2
<1>5. ASSUME RequeueStep PROVE Goal
  <2>1. PICK c \in scheduled : /\ Go(c, "queued") /\ queue' = <<c>> \o queue /\ UNCHANGED scheduled
    BY <1>5 DEF RequeueStep
  <2>2. Range(queue') \subseteq Range(queue) \cup scheduled
    BY <1>w, <2>1, MessageAdded
  <2> QED BY <1>0, <1>k, <1>w, <2>1, <2>2 DEF Go
<1>6. ASSUME DrainStep \/ SpliceStep \/ GiveUpStep \/ OfferStep PROVE Goal
  <2>1. \E c \in Calls, s \in {"model", "splice", "announce", "save", "offered"} : Go(c, s) /\ UNCHANGED lineup
    BY <1>0, <1>6, <1>w DEF DrainStep, SpliceStep, GiveUpStep, OfferStep
  <2> QED BY <1>q, <2>1
<1>8. ASSUME ConsumeStep PROVE Goal
  <2>1. PICK c \in Calls :
          /\ stage[c] = "announce"
          /\ queue' \in Excluding(queue, {Head(taken[c])})
          /\ stage' = [stage EXCEPT
               ![Head(taken[c])] = IF @ \in {"queued", "offered"} THEN "joined" ELSE @,
               ![c] = IF Tail(taken[c]) = <<>> THEN "model" ELSE "splice"]
          /\ UNCHANGED scheduled
    BY <1>8 DEF ConsumeStep
  <2>2. Head(taken[c]) \in Msgs
    BY <1>w, <2>1 DEF TypeInv, WordsInHand
  <2>3. \A x \in Calls : stage'[x] = "lookup" => stage[x] = "lookup"
    BY <1>0, <1>w, <2>1, <2>2
  <2>4. Range(queue') \subseteq Range(queue)
    BY <1>w, <2>1, ExcludedExactly
  <2> QED BY <1>0, <1>k, <1>w, <2>1, <2>3, <2>4
<1>10. ASSUME LandStep PROVE Goal
  <2>1. PICK m \in Msgs : /\ stage[m] = "lookup" /\ Go(m, "queued") /\ queue' = Append(queue, m)
                          /\ UNCHANGED scheduled
    BY <1>10 DEF LandStep
  <2>2. Range(queue') = Range(queue) \cup {m} /\ m \notin Steers
    BY <1>0, <1>w, <2>1, MessageAdded
  <2> QED BY <1>0, <1>w, <2>1, <2>2 DEF Go, Goal
<1>12. ASSUME TakeAwayStep \/ ClearStep PROVE Goal
  <2>1. PICK S : Withdraw(S)
    BY <1>12 DEF TakeAwayStep, ClearStep, ClearQueued
  <2>2. \A x \in Calls : stage'[x] = IF x \in S THEN "withdrawn" ELSE stage[x]
    BY <2>1 DEF Withdraw
  <2>3. Range(queue') \subseteq Range(queue) /\ UNCHANGED scheduled
    <3>1. CASE TakeAwayStep
      <4>1. PICK W \in SUBSET Msgs : queue' \in Excluding(queue, W) /\ UNCHANGED scheduled
        BY <3>1 DEF TakeAwayStep
      <4> QED BY <1>w, <4>1, ExcludedExactly
    <3>2. CASE ClearStep
      BY <1>w, <3>2 DEF ClearStep, ClearQueued
    <3> QED BY <1>12, <3>1, <3>2
  <2> QED BY <1>0, <1>k, <1>w, <2>2, <2>3
<1>g. Goal
  BY <1>1, <1>2, <1>3, <1>5, <1>6, <1>8, <1>10, <1>12 DEF CopyStep
<1> QED BY <1>g DEF Goal

\* While no query fails, whatever races, is removed, deleted or drained: while
\* something is scheduled, a turn runs whose end will shift the queue, or the
\* queue's own call is on its way to one.
THEOREM NobodyStranded ==
  ASSUME ~MayFail
  PROVE  Spec => []QueueIsServed
<1> DEFINE I == TypeInv /\ WaitInv /\ HandInv /\ ServeInv
<1>1. Init => I
  <2>1. ASSUME Init PROVE HandInv /\ ServeInv
    <3>1. queue = <<>> /\ deletion = "no" /\ exists = TRUE /\ scheduled = {} /\ Range(<<>>) = {}
      BY <2>1 DEF Init, Range
    <3>2. \A m \in Steers : stage[m] # "lookup"
      BY <2>1, ChatAssumption DEF Init, Calls
    <3>3. HandInv
      BY <2>1 DEF Init, HandInv, Range
    <3> QED BY <3>1, <3>2, <3>3 DEF ServeInv, QueueIsServed
  <2> QED BY <2>1, TypeStart, WaitStart
<1>2. I /\ [Next]_vars => I'
  <2> SUFFICES ASSUME I, [Next]_vars PROVE I'
    OBVIOUS
  <2>1. TypeInv' /\ WaitInv' /\ CopyStep
    BY TypeStep, WaitStep, CopySteps
  <2>2. HandInv'
    BY <2>1, HandStep
  <2>3. \A m \in Steers : m \notin Range(queue') \cup scheduled' /\ stage'[m] # "lookup"
    BY <2>1, SteersStep
  <2>4. CASE UNCHANGED <<exists, deletion>>
    <3>1. QueueIsServed' /\ (deletion' = "announced" => Served')
      BY <2>1, <2>4, ServedStep
    <3> QED BY <2>1, <2>2, <2>3, <2>4, <3>1 DEF ServeInv, Served
  <2>5. CASE DeleteBegin \/ DeleteAnnounce
    <3>1. queue' = <<>> /\ (exists' <=> deletion' \in {"no", "begun"})
      BY <2>5 DEF DeleteBegin, DeleteAnnounce, ClearQueued, db, ServeInv
    <3> QED BY <2>1, <2>2, <2>3, <3>1 DEF ServeInv, QueueIsServed
  <2>6. CASE DeleteRows
    <3>1. deletion' = "deleted" /\ exists' = FALSE
      BY <2>6 DEF DeleteRows
    <3> QED BY <2>1, <2>2, <2>3, <3>1 DEF ServeInv, QueueIsServed
  <2> QED BY <2>4, <2>5, <2>6, OnlyDeleting DEF Deleting
<1>3. I => QueueIsServed
  BY DEF ServeInv
<1> QED BY <1>1, <1>2, <1>3, PTL DEF Spec

=============================================================================
