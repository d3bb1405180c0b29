--------------------------- MODULE ChatScreenProofs ---------------------------
(***************************************************************************)
(* One tab beside any number of turns, replies of any length and any       *)
(* number of faults.                                                       *)
(*                                                                         *)
(* The invariant is TabInv, built in layers, each used by the next:        *)
(*   Shape      the types, without the bound on a bubble's text;           *)
(*   RegistryStep, CutOffStep, HoldStep   the parts of ScreenInv;          *)
(*   KeyInv     a key is used by one request, then by one stream;          *)
(*   TextInv    a bubble has the text its stream has read so far: what     *)
(*              bounds the text, and makes a reply with an id whole;       *)
(*   RowInv, OnceInv   a message has one row and one bubble, a reply one   *)
(*              row and one bubble with its id, a stream one bubble;       *)
(*   DoneInv    a bubble without an id is written by a stream or has no    *)
(*              row, unless something has passed the screen by.            *)
(*                                                                         *)
(* What has the screen catch up takes two more:                            *)
(*   BasisInv   a request waits for its turn, the feed brings what others  *)
(*              asked, an id on the screen is of a reply that was saved;   *)
(*   ArriveInv  while nothing has passed the screen by, every row of the   *)
(*              thread is shown or on its way, and nothing else is shown;  *)
(*              or a reload is due, or something on its way passes it by.  *)
(***************************************************************************)
EXTENDS ChatScreen, FiniteSetTheorems, SequenceTheorems, WellFoundedInduction, TLAPS

\* Most steps leave the requests for a thread, and what answers them, alone.
USE DEF reloads

-----------------------------------------------------------------------------
(* Picking entries of a sequence *)

\* Every rank from 1 to the size of a finite set of numbers is taken by one of
\* its members.
LEMMA EveryRank ==
  ASSUME NEW P \in SUBSET Nat, IsFiniteSet(P), NEW k \in 1..Cardinality(P)
  PROVE  \E i \in P : Cardinality({j \in P : j <= i}) = k
<1> DEFINE n == Cardinality(P)
           Upto(i) == {j \in P : j <= i}
           rank == [i \in P |-> Cardinality(Upto(i))]
           R == {rank[i] : i \in P}
<1>1. n \in Nat
  BY FS_CardinalityType
<1>2. ASSUME NEW i \in P
      PROVE  IsFiniteSet(Upto(i)) /\ Cardinality(Upto(i)) \in 1..n
  <2>1. Upto(i) \in SUBSET P /\ i \in Upto(i)
    OBVIOUS
  <2>2. IsFiniteSet(Upto(i)) /\ Cardinality(Upto(i)) <= n
    BY <2>1, FS_Subset
  <2>3. Cardinality(Upto(i)) \in Nat
    BY <2>2, FS_CardinalityType
  <2>4. Cardinality(Upto(i)) # 0
    BY <2>1, <2>2, FS_EmptySet
  <2> QED BY <1>1, <2>2, <2>3, <2>4
<1>3. ASSUME NEW i \in P, NEW j \in P, i < j
      PROVE  Cardinality(Upto(i)) < Cardinality(Upto(j))
  <2>1. i \in Nat /\ j \in Nat /\ \A m \in P : m \in Nat
    BY <1>3
  <2>2. (\A m \in P : m <= i => m <= j) /\ ~(j <= i)
    BY <1>3, <2>1
  <2>3. Upto(i) \in SUBSET Upto(j) /\ j \in Upto(j) /\ j \notin Upto(i)
    <3>1. \A m \in Upto(i) : m \in Upto(j)
      BY <2>2
    <3>2. j \in Upto(j) /\ j \notin Upto(i)
      BY <2>1, <2>2
    <3> QED BY <3>1, <3>2
  <2>4. Cardinality(Upto(i)) <= Cardinality(Upto(j))
    BY <2>3, <1>2, FS_Subset
  <2>5. Cardinality(Upto(i)) # Cardinality(Upto(j))
    BY <2>3, <1>2, FS_Subset
  <2>6. Cardinality(Upto(i)) \in Nat /\ Cardinality(Upto(j)) \in Nat
    BY <1>1, <1>2
  <2> QED BY <2>4, <2>5, <2>6
<1>4. rank \in [P -> R]
  OBVIOUS
<1>5. \A i, j \in P : rank[i] = rank[j] => i = j
  <2> SUFFICES ASSUME NEW i \in P, NEW j \in P, i # j
               PROVE  rank[i] # rank[j]
    OBVIOUS
  <2>1. i < j \/ j < i
    OBVIOUS
  <2>2. Cardinality(Upto(i)) \in Nat /\ Cardinality(Upto(j)) \in Nat
    BY <1>1, <1>2
  <2>3. Cardinality(Upto(i)) # Cardinality(Upto(j))
    BY <1>3, <2>1, <2>2
  <2> QED BY <2>3
<1>6. R \in SUBSET (1..n)
  BY <1>2
<1>7. rank \in Injection(P, R) /\ rank \in Surjection(P, R)
  BY <1>4, <1>5 DEF Injection, IsInjective, Surjection
<1> HIDE DEF R, rank
<1>8. Cardinality(R) = n /\ IsFiniteSet(R)
  BY <1>7, FS_Surjection
<1>9. IsFiniteSet(1..n) /\ Cardinality(1..n) = n
  BY <1>1, FS_Interval
<1>10. R = 1..n
  BY <1>6, <1>8, <1>9, FS_Subset
<1>11. PICK i \in P : rank[i] = k
  BY <1>10 DEF R
<1> QED BY <1>11 DEF rank

\* What is picked of a sequence is a sequence of its entries, each taken once.
LEMMA PickedEntries ==
  ASSUME NEW T, NEW q \in Seq(T), NEW P \in SUBSET DOMAIN q
  PROVE  /\ At(q, P) \in Seq(T)
         /\ \E f \in Injection(DOMAIN At(q, P), P) :
               \A k \in DOMAIN At(q, P) : At(q, P)[k] = q[f[k]]
<1> DEFINE n == Cardinality(P)
           rank(i) == Cardinality({j \in P : j <= i})
           f == [k \in 1..n |-> CHOOSE i \in P : rank(i) = k]
<1>1. DOMAIN q = 1..Len(q) /\ Len(q) \in Nat
  OBVIOUS
<1>2. IsFiniteSet(P) /\ P \in SUBSET Nat
  <2>1. IsFiniteSet(1..Len(q))
    BY <1>1, FS_Interval
  <2> QED BY <1>1, <2>1, FS_Subset
<1>3. n \in Nat
  BY <1>2, FS_CardinalityType
<1>4. DOMAIN At(q, P) = 1..n /\ At(q, P) = [k \in 1..n |-> q[f[k]]]
  BY DEF At
<1>5. ASSUME NEW k \in 1..n
      PROVE  f[k] \in P /\ rank(f[k]) = k
  <2>1. \E i \in P : rank(i) = k
    BY <1>2, EveryRank
  <2>2. LET i == CHOOSE j \in P : rank(j) = k IN i \in P /\ rank(i) = k
    BY <2>1
  <2> QED BY <2>2
<1>6. f \in [1..n -> P]
  <2>1. \A k \in 1..n : (CHOOSE i \in P : rank(i) = k) \in P
    BY <1>5
  <2> QED BY <2>1
<1> HIDE DEF f, n
<1>7. f \in [1..n -> P] /\ \A k, l \in 1..n : f[k] = f[l] => k = l
  BY <1>5, <1>6
<1>8. f \in Injection(1..n, P)
  BY <1>7 DEF Injection, IsInjective
<1>9. \A k \in 1..n : At(q, P)[k] = q[f[k]] /\ q[f[k]] \in T
  BY <1>1, <1>4, <1>7
<1>10. At(q, P) \in Seq(T)
  BY <1>3, <1>4, <1>9
<1> QED BY <1>4, <1>8, <1>9, <1>10

-----------------------------------------------------------------------------
(* Shapes: the types, without the bound on a bubble's text, which takes the *)
(* rest of the invariant to hold                                            *)

LooseBubbles == [who : {"user", "reply"}, turn : Turns, key : Keys \cup {0}, known : BOOLEAN,
                 text : Nat]

\* What the feed says of a turn names one.
Told == [type : {"message", "turn_started", "thread_changed"}, turn : Turns]
        \cup [type : {"resync", "chat_removed"}, turn : {0}]

\* An answer to a request for the thread, or none.
Answer == [stage : {"none", "taken", "gone"}, snap : Seq(LooseBubbles)]

ServerShape ==
    /\ phase \in [Turns -> {"none", "posted", "starting", "running", "saved", "ended",
                            "refused", "lost"}]
    /\ mine \subseteq Turns /\ target \in [Turns -> 0..MaxTurns]
    /\ kept \subseteq Turns
    /\ rows \in Seq(Rows) /\ reg \in 0..MaxTurns /\ timers \subseteq Turns

FlagShape ==
    /\ member \in BOOLEAN /\ detached \in BOOLEAN
    /\ behind \in BOOLEAN /\ stale \in BOOLEAN /\ slipped \in BOOLEAN
    /\ faults \in 0..MaxFaults

FeedShape ==
    /\ sub \in {"none", "asked", "checked", "blind", "viewing", "away", "down"}
    /\ wire \in Seq(Told) /\ hadError \in BOOLEAN

TabShape ==
    /\ page \in {"closed", "loaded", "mounted"} /\ shown \in Seq(LooseBubbles)
    /\ held \in Keys \cup {0} /\ streaming \in BOOLEAN
    /\ streams \subseteq Stream /\ posts \subseteq Post
    /\ resume \in {"none", "asked"} /\ attach \subseteq Turns
    /\ asked \in Nat /\ reload \in Answer /\ earlier \in Seq(Answer)
    /\ reload.stage = "none" => reload = NoReload
    /\ \A i \in DOMAIN earlier : earlier[i].stage /= "none"
    /\ lost \in BOOLEAN

Shape == ServerShape /\ FlagShape /\ FeedShape /\ TabShape

\* Somebody's request to attach is answered; an answer with the thread is shown.
AttachAnswered == \E t \in Turns : AnswerAttach(t)
Shows == ShowThread \/ \E i \in DOMAIN earlier : ShowEarlier(i)

\* What answers are on their way.
Answered == {reload} \cup {earlier[i] : i \in DOMAIN earlier}

\* Turns and keys are numbers.
LEMMA TurnsAndKeys ==
  /\ MaxTurns \in Nat /\ Deltas \in Nat /\ MaxFaults \in Nat
  /\ \A t \in Turns : t \in Nat /\ t # 0 /\ t \in Keys /\ t # ResumeKey /\ t \in 0..MaxTurns
  /\ ResumeKey \in Keys /\ ResumeKey # 0 /\ ResumeKey \in Nat
  /\ \A k \in Keys : k \in Nat /\ k # 0 /\ (k \in Turns \/ k = ResumeKey)
BY ScreenAssumption DEF Turns, Keys, ResumeKey

\* Adding a message's row, in place of what an edit deletes.
LEMMA WithMessageIsRows ==
  ASSUME ServerShape, NEW t \in Turns, NEW k, k = 0 \/ Editable(k)
  PROVE  WithMessage(t, k) \in Seq(Rows)
<1>1. Row("user", t) \in Rows
  BY DEF Row, Rows
<1>2. rows \in Seq(Rows)
  BY DEF ServerShape
<1>3. CASE k = 0
  <2>1. WithMessage(t, k) = rows \o <<Row("user", t)>>
    BY <1>3 DEF WithMessage
  <2> QED BY <1>1, <1>2, <2>1
<1>4. CASE k # 0
  <2> DEFINE n == CHOOSE i \in DOMAIN rows : rows[i] = Row("user", k)
  <2>1. n \in DOMAIN rows
    BY <1>4 DEF Editable
  <2>2. CutAt(k) = SubSeq(rows, 1, n - 1)
    BY DEF CutAt
  <2> HIDE DEF n
  <2>3. n \in 1..Len(rows) /\ Len(rows) \in Nat
    BY <1>2, <2>1
  <2>4. \A i \in 1..(n - 1) : rows[i] \in Rows
    BY <1>2, <2>3
  <2>5. CutAt(k) \in Seq(Rows)
    BY <2>2, <2>3, <2>4, SubSeqProperties
  <2>6. WithMessage(t, k) = CutAt(k) \o <<Row("user", t)>>
    BY <1>4 DEF WithMessage
  <2> QED BY <1>1, <2>5, <2>6
<1> QED BY <1>3, <1>4

\* Every step keeps the types of what the server has.
LEMMA ServerStep ==
  ASSUME ServerShape, Next
  PROVE  ServerShape'
<1> USE TurnsAndKeys
<1>1. ASSUME NEW t \in Turns, Start(t)
      PROVE  ServerShape'
  <2>1. rows' \in Seq(Rows)
    <3>1. CASE rows' = rows
      BY <3>1 DEF ServerShape
    <3>2. CASE rows' # rows
      <4>1. rows' = WithMessage(t, target[t]) /\ (target[t] = 0 \/ Editable(target[t]))
        BY <1>1, <3>2 DEF Start
      <4> QED BY <4>1, WithMessageIsRows
    <3> QED BY <3>1, <3>2
  <2>2. phase' \in [Turns -> {"none", "posted", "starting", "running", "saved", "ended",
                              "refused", "lost"}]
    BY <1>1 DEF Start, ServerShape
  <2> QED BY <1>1, <2>1, <2>2 DEF Start, ServerShape
<1>2. ASSUME StartElsewhere
      PROVE  ServerShape'
  <2>1. PICK t \in Turns, k \in {0} \cup {j \in Turns \ mine : Editable(j)} :
               /\ phase' = [phase EXCEPT ![t] = "starting"]
               /\ target' = [target EXCEPT ![t] = k]
               /\ rows' = WithMessage(t, k)
    BY <1>2 DEF StartElsewhere
  <2>2. rows' \in Seq(Rows)
    BY <2>1, WithMessageIsRows
  <2>3. k \in 0..MaxTurns
    BY <2>1
  <2> QED BY <1>2, <2>1, <2>2, <2>3 DEF StartElsewhere, ServerShape
<1>3. ASSUME NEW t \in Turns, Register(t)
      PROVE  ServerShape'
  BY <1>3 DEF Register, ServerShape
<1>4. ASSUME NEW t \in Turns, SaveReply(t)
      PROVE  ServerShape'
  <2>1. Row("reply", t) \in Rows
    BY DEF Row, Rows
  <2>2. Append(rows, Row("reply", t)) \in Seq(Rows)
    BY <2>1 DEF ServerShape
  <2> QED BY <1>4, <2>2 DEF SaveReply, ServerShape
<1>5. ASSUME NEW t \in Turns, EndTurn(t)
      PROVE  ServerShape'
  BY <1>5 DEF EndTurn, ServerShape
<1>6. ASSUME NEW t \in Turns, GraceExpires(t)
      PROVE  ServerShape'
  BY <1>6 DEF GraceExpires, AfterGrace, ServerShape
<1>7. ASSUME Restart
      PROVE  ServerShape'
  BY <1>7 DEF Restart, ServerShape
<1>8. ASSUME NEW before, NEW k \in 0..MaxTurns, AskFor(before, k),
             UNCHANGED <<kept, rows, reg, timers>>
      PROVE  ServerShape'
  BY <1>8 DEF AskFor, ServerShape
<1>9. ASSUME Send
      PROVE  ServerShape'
  <2>1. AskFor(shown, 0) /\ UNCHANGED <<kept, rows, reg, timers>>
    BY <1>9 DEF Send
  <2>2. 0 \in 0..MaxTurns
    OBVIOUS
  <2> HIDE DEF ServerShape
  <2> QED BY <1>8, <2>1, <2>2
<1>10. ASSUME EditMessage
       PROVE  ServerShape'
  <2>1. PICK i \in DOMAIN shown : /\ shown[i].turn \in mine
                                  /\ AskFor(SubSeq(shown, 1, i - 1), shown[i].turn)
    BY <1>10 DEF EditMessage
  <2>2. UNCHANGED <<kept, rows, reg, timers>>
    BY <1>10 DEF EditMessage
  <2>3. shown[i].turn \in 0..MaxTurns
    BY <2>1 DEF ServerShape
  <2> QED BY <1>8, <2>1, <2>2, <2>3
<1>11. CASE UNCHANGED server
  BY <1>11 DEF ServerShape, server
<1>12. ASSUME Answers \/ CutFeed \/ RemoveMember \/ Detach \/ LoadPage \/ Mount \/ Browser
       PROVE  UNCHANGED server
  BY <1>12 DEF Answers, AttachAnswered, AnswerResume, AnswerAttach, CheckAccess, Subscribe,
       TakeThread, CutFeed, RemoveMember, Detach, LoadPage, Mount, Browser, Shows, Reconnect,
       ShowThread, ShowEarlier, Show, OnEvent, Ignore, OnMessage, OnTurnStarted, OnReload,
       OnRemoved, Refused, ReadEvent, ReadEnd, ReadBroken, StopReading
<1> QED
  BY <1>1, <1>2, <1>3, <1>4, <1>5, <1>6, <1>7, <1>9, <1>10, <1>11, <1>12
  DEF Next, Server, Faults, Person

\* ... of what counts for the bounds and the history.
LEMMA FlagStep ==
  ASSUME FlagShape, Next
  PROVE  FlagShape'
<1> USE TurnsAndKeys
<1>1. CASE \E t \in Turns : Start(t) \/ EndTurn(t) \/ GraceExpires(t)
  BY <1>1 DEF Start, EndTurn, GraceExpires, FlagShape, access, history
<1>2. CASE StartElsewhere
  BY <1>2 DEF StartElsewhere, FlagShape, access, history
<1>3. CASE \E t \in Turns : Register(t)
  <2>1. behind' \in BOOLEAN
    BY <1>3 DEF Register, FlagShape
  <2>2. UNCHANGED <<access, stale, slipped, faults>>
    BY <1>3 DEF Register
  <2> QED BY <2>1, <2>2 DEF FlagShape, access
<1>4. CASE \E t \in Turns : SaveReply(t)
  BY <1>4 DEF SaveReply, FlagShape, access, history
<1>5. CASE Restart
  BY <1>5 DEF Restart, FlagShape, access
<1>6. CASE RemoveMember \/ Detach
  <2>1. member' \in BOOLEAN /\ detached' \in BOOLEAN /\ UNCHANGED history
    BY <1>6 DEF RemoveMember, Detach, FlagShape
  <2>2. faults' \in 0..MaxFaults
    BY <1>6 DEF RemoveMember, Detach, FlagShape
  <2> QED BY <2>1, <2>2 DEF FlagShape, history
<1>7. CASE CheckAccess \/ Reconnect \/ LoadPage \/ Mount \/ Ignore \/ OnReload \/ OnRemoved
           \/ AnswerResume
  BY <1>7 DEF CheckAccess, Reconnect, LoadPage, Mount, Ignore, OnReload, OnRemoved, AnswerResume,
       FlagShape, access, history
<1>8. CASE Subscribe
  BY <1>8 DEF Subscribe, FlagShape, access
<1>9. CASE CutFeed
  BY <1>9 DEF CutFeed, FlagShape, access
<1>10. CASE Send
  <2>1. stale' \in BOOLEAN
    BY <1>10 DEF Send, AskFor, FlagShape
  <2> QED BY <1>10, <2>1 DEF Send, FlagShape, access
<1>11. CASE EditMessage
  <2>1. stale' \in BOOLEAN /\ behind' \in BOOLEAN
    BY <1>11 DEF EditMessage, AskFor, FlagShape
  <2> QED BY <1>11, <2>1 DEF EditMessage, FlagShape, access
<1>12. CASE \E p \in posts : Refused(p)
  BY <1>12 DEF Refused, FlagShape, access
<1>13. CASE AttachAnswered
  BY <1>13 DEF AttachAnswered, AnswerAttach, FlagShape, access
<1>14. CASE OnMessage
  BY <1>14 DEF OnMessage, FlagShape, access
<1>15. CASE OnTurnStarted
  BY <1>15 DEF OnTurnStarted, FlagShape, access
<1>16. CASE TakeThread
  BY <1>16 DEF TakeThread, FlagShape, access
<1>17. CASE Shows
  BY <1>17 DEF Shows, ShowThread, ShowEarlier, Show, FlagShape, access
<1>18. CASE \E s \in streams : ReadEvent(s)
  BY <1>18 DEF ReadEvent, FlagShape, access
<1>19. CASE \E s \in streams : ReadEnd(s) \/ ReadBroken(s)
  <2>1. behind' \in BOOLEAN
    BY <1>19 DEF ReadEnd, ReadBroken, FlagShape
  <2>2. faults' \in 0..MaxFaults
    BY <1>19 DEF ReadEnd, ReadBroken, FlagShape
  <2>3. UNCHANGED <<access, stale, slipped>>
    BY <1>19 DEF ReadEnd, ReadBroken, StopReading
  <2> QED BY <2>1, <2>2, <2>3 DEF FlagShape, access
<1> QED
  BY <1>1, <1>2, <1>3, <1>4, <1>5, <1>6, <1>7, <1>8, <1>9, <1>10, <1>11, <1>12, <1>13, <1>14,
     <1>15, <1>16, <1>17, <1>18, <1>19
  DEF Next, Server, Answers, AttachAnswered, Faults, Person, Browser, Shows, OnEvent

\* ... of the feed's connection.
LEMMA FeedStep ==
  ASSUME FeedShape, Next
  PROVE  FeedShape'
<1> USE TurnsAndKeys
<1>1. ASSUME NEW t \in Turns, Register(t)
      PROVE  FeedShape'
  <2> DEFINE m == Event(IF target[t] = 0 THEN "message" ELSE "thread_changed", t)
             s == Event("turn_started", t)
  <2>1. m \in Told /\ s \in Told
    BY DEF Event, Told
  <2>2. wire' = wire \/ wire' = wire \o <<m, s>>
    BY <1>1 DEF Register, PublishToChat
  <2>3. <<m, s>> \in Seq(Told)
    BY <2>1
  <2> HIDE DEF m, s
  <2>4. wire \o <<m, s>> \in Seq(Told)
    BY <2>3, ConcatProperties DEF FeedShape
  <2> QED BY <1>1, <2>2, <2>4 DEF Register, FeedShape
<1>2. CASE Restart
  BY <1>2 DEF Restart, FeedShape
<1>3. CASE Detach
  <2>1. Event("chat_removed", 0) \in Told
    BY DEF Event, Told
  <2>2. wire' \in Seq(Told)
    BY <1>3, <2>1 DEF Detach, FeedShape
  <2> QED BY <1>3, <2>2 DEF Detach, DetachViewer, FeedShape
<1>4. CASE CheckAccess \/ Reconnect \/ Mount
  BY <1>4 DEF CheckAccess, Reconnect, Mount, FeedShape
<1>5. CASE Subscribe
  <2>1. Event("resync", 0) \in Told
    BY DEF Event, Told
  <2>2. wire' \in Seq(Told)
    BY <1>5, <2>1 DEF Subscribe, FeedShape
  <2> QED BY <1>5, <2>2 DEF Subscribe, FeedShape
<1>6. CASE CutFeed
  BY <1>6 DEF CutFeed, FeedShape
<1>7. CASE OnEvent
  <2>1. wire /= <<>> /\ wire' = Tail(wire)
    BY <1>7 DEF OnEvent, Ignore, OnMessage, OnTurnStarted, OnReload, OnRemoved, Receive
  <2>2. Tail(wire) \in Seq(Told)
    BY <2>1 DEF FeedShape
  <2>3. UNCHANGED <<sub, hadError>>
    BY <1>7 DEF OnEvent, Ignore, OnMessage, OnTurnStarted, OnReload, OnRemoved
  <2> QED BY <2>1, <2>2, <2>3 DEF FeedShape
<1>8. CASE UNCHANGED feed
  BY <1>8 DEF FeedShape, feed
<1>9. ASSUME \/ StartElsewhere \/ AnswerResume \/ AttachAnswered \/ TakeThread \/ RemoveMember
             \/ LoadPage \/ Send \/ EditMessage \/ Shows
             \/ \E t \in Turns : Start(t) \/ SaveReply(t) \/ EndTurn(t) \/ GraceExpires(t)
             \/ \E p \in posts : Refused(p)
             \/ \E s \in streams : ReadEvent(s) \/ ReadEnd(s) \/ ReadBroken(s)
      PROVE  UNCHANGED feed
  BY <1>9 DEF StartElsewhere, AnswerResume, AttachAnswered, AnswerAttach, TakeThread,
       RemoveMember, LoadPage, Send, EditMessage, Shows, ShowThread, ShowEarlier, Show, Start,
       SaveReply, EndTurn, GraceExpires, Refused, ReadEvent, ReadEnd, ReadBroken, StopReading
<1> QED
  BY <1>1, <1>2, <1>3, <1>4, <1>5, <1>6, <1>7, <1>8, <1>9
  DEF Next, Server, Answers, AttachAnswered, Faults, Person, Browser, Shows

\* A sequence whose entries are replaced one by one stays one.
LEMMA Rewritten ==
  ASSUME NEW S, NEW T, NEW q \in Seq(S), NEW r, DOMAIN r = DOMAIN q, r = [i \in DOMAIN r |-> r[i]],
         \A i \in DOMAIN q : r[i] \in T
  PROVE  r \in Seq(T) /\ Len(r) = Len(q)
<1>1. Len(q) \in Nat /\ DOMAIN q = 1..Len(q)
  OBVIOUS
<1>2. r \in [1..Len(q) -> T]
  BY <1>1
<1> QED BY <1>1, <1>2

\* The start of a sequence.
LEMMA Prefix ==
  ASSUME NEW T, NEW q \in Seq(T), NEW i \in DOMAIN q
  PROVE  /\ SubSeq(q, 1, i - 1) \in Seq(T)
         /\ DOMAIN SubSeq(q, 1, i - 1) = 1..(i - 1)
         /\ \A j \in 1..(i - 1) : j \in DOMAIN q /\ SubSeq(q, 1, i - 1)[j] = q[j]
<1>1. Len(q) \in Nat /\ i \in 1..Len(q) /\ DOMAIN q = 1..Len(q)
  OBVIOUS
<1>2. \A j \in 1..(i - 1) : j \in DOMAIN q /\ q[j] \in T
  BY <1>1
<1>3. /\ SubSeq(q, 1, i - 1) \in Seq(T)
      /\ Len(SubSeq(q, 1, i - 1)) = IF 1 <= i - 1 THEN i - 1 ELSE 0
      /\ \A j \in 1..(i - 1) : SubSeq(q, 1, i - 1)[j] = q[j]
  BY <1>1, <1>2, SubSeqProperties
<1>4. DOMAIN SubSeq(q, 1, i - 1) = 1..(i - 1)
  BY <1>1, <1>3
<1> QED BY <1>2, <1>3, <1>4

\* A thread loaded from the server: rows with their ids, written by no stream.
LEMMA LoadedBubbles ==
  ASSUME ServerShape
  PROVE  /\ Loaded(rows) \in Seq(LooseBubbles)
         /\ \A i \in DOMAIN Loaded(rows) :
               /\ Loaded(rows)[i].key = 0 /\ Loaded(rows)[i].known
               /\ Loaded(rows)[i].text \in {0, Deltas}
               /\ Loaded(rows)[i].who = "reply" => Loaded(rows)[i].text = Deltas
<1> USE TurnsAndKeys
<1>1. \A i \in DOMAIN rows : rows[i].who \in {"user", "reply"} /\ rows[i].turn \in Turns
  <2>1. \A i \in DOMAIN rows : rows[i] \in Rows
    BY DEF ServerShape
  <2> QED BY <2>1 DEF Rows
<1>2. DOMAIN Loaded(rows) = DOMAIN rows
  BY DEF Loaded
<1>3. \A i \in DOMAIN rows :
         /\ Loaded(rows)[i] \in LooseBubbles
         /\ Loaded(rows)[i].key = 0 /\ Loaded(rows)[i].known
         /\ Loaded(rows)[i].text \in {0, Deltas}
         /\ Loaded(rows)[i].who = "reply" => Loaded(rows)[i].text = Deltas
  BY <1>1 DEF Loaded, Bubble, LooseBubbles
<1>4. Loaded(rows) = [i \in DOMAIN Loaded(rows) |-> Loaded(rows)[i]]
  BY DEF Loaded
<1>5. Loaded(rows) \in Seq(LooseBubbles)
  BY <1>2, <1>3, <1>4, Rewritten DEF ServerShape
<1> QED BY <1>2, <1>3, <1>5

\* What a reload keeps of the screen was on it, a reply without an id.
LEMMA LiveBubbles ==
  ASSUME TabShape
  PROVE  /\ Live \in Seq(LooseBubbles)
         /\ \E f \in Injection(DOMAIN Live, DOMAIN shown) :
               \A k \in DOMAIN Live : /\ Live[k] = shown[f[k]] /\ shown[f[k]].who = "reply"
                                      /\ ~shown[f[k]].known
<1> DEFINE P == {i \in DOMAIN shown : shown[i].who = "reply" /\ ~shown[i].known}
<1>1. CASE held = 0
  <2>1. Live = <<>>
    BY <1>1 DEF Live
  <2>2. DOMAIN Live = {} /\ Live \in Seq(LooseBubbles)
    BY <2>1
  <2>3. [k \in {} |-> k] \in Injection(DOMAIN Live, DOMAIN shown)
    BY <2>2 DEF Injection, IsInjective
  <2> QED BY <2>2, <2>3
<1>2. CASE held # 0
  <2>1. Live = At(shown, P)
    BY <1>2 DEF Live
  <2>2. P \in SUBSET DOMAIN shown
    OBVIOUS
  <2>3. \A i \in P : shown[i].who = "reply" /\ ~shown[i].known
    OBVIOUS
  <2> HIDE DEF P
  <2>4. At(shown, P) \in Seq(LooseBubbles)
    BY <2>2, PickedEntries DEF TabShape
  <2>5. PICK f \in Injection(DOMAIN Live, P) : \A k \in DOMAIN Live : Live[k] = shown[f[k]]
    BY <2>1, <2>2, PickedEntries DEF TabShape
  <2>6. f \in Injection(DOMAIN Live, DOMAIN shown) /\ \A k \in DOMAIN Live : f[k] \in P
    BY <2>2, <2>5 DEF Injection
  <2> QED BY <2>1, <2>3, <2>4, <2>5, <2>6
<1> QED BY <1>1, <1>2

\* One of a sequence's entries is taken out.
LEMMA Without ==
  ASSUME NEW T, NEW q \in Seq(T), NEW i \in DOMAIN q
  PROVE  /\ RemoveAt(q, i) \in Seq(T)
         /\ \A j \in DOMAIN RemoveAt(q, i) : \E k \in DOMAIN q : RemoveAt(q, i)[j] = q[k]
<1> DEFINE a == SubSeq(q, 1, i - 1)
           b == SubSeq(q, i + 1, Len(q))
<1>1. Len(q) \in Nat /\ i \in 1..Len(q) /\ DOMAIN q = 1..Len(q)
  OBVIOUS
<1>2. /\ a \in Seq(T) /\ DOMAIN a = 1..(i - 1)
      /\ \A j \in 1..(i - 1) : j \in DOMAIN q /\ a[j] = q[j]
  BY Prefix
<1>3. /\ b \in Seq(T) /\ Len(b) = IF i + 1 <= Len(q) THEN Len(q) - i ELSE 0
      /\ \A j \in 1..(Len(q) - i) : b[j] = q[i + j]
  <2>1. \A k \in (i + 1)..Len(q) : q[k] \in T
    BY <1>1
  <2>2. /\ b \in Seq(T)
        /\ Len(b) = IF i + 1 <= Len(q) THEN Len(q) - (i + 1) + 1 ELSE 0
        /\ \A j \in 1..(Len(q) - (i + 1) + 1) : b[j] = q[(i + 1) + j - 1]
    BY <1>1, <2>1, SubSeqProperties
  <2> QED BY <1>1, <2>2
<1>4. RemoveAt(q, i) = a \o b
  BY DEF RemoveAt
<1>5. \A j \in DOMAIN b : \E k \in DOMAIN q : b[j] = q[k]
  <2> TAKE j \in DOMAIN b
  <2>1. j \in 1..(Len(q) - i)
    BY <1>1, <1>3
  <2>2. b[j] = q[i + j] /\ i + j \in DOMAIN q
    BY <1>1, <1>3, <2>1
  <2> QED BY <2>2
<1>6. a \o b \in Seq(T) /\ \A j \in DOMAIN (a \o b) :
         \/ j \in DOMAIN a /\ (a \o b)[j] = a[j]
         \/ \E k \in DOMAIN b : (a \o b)[j] = b[k]
  <2>1. /\ a \o b \in Seq(T) /\ Len(a \o b) = Len(a) + Len(b)
        /\ \A j \in 1..(Len(a) + Len(b)) :
              (a \o b)[j] = IF j <= Len(a) THEN a[j] ELSE b[j - Len(a)]
    BY <1>2, <1>3, ConcatProperties
  <2>2. a \in Seq(T) /\ b \in Seq(T)
    BY <1>2, <1>3
  <2> HIDE DEF a, b
  <2>3. Len(a) \in Nat /\ Len(b) \in Nat /\ DOMAIN a = 1..Len(a) /\ DOMAIN b = 1..Len(b)
    BY <2>2
  <2>4. DOMAIN (a \o b) = 1..(Len(a) + Len(b))
    BY <2>1, <2>3
  <2>5. ASSUME NEW j \in DOMAIN (a \o b)
        PROVE  \/ j \in DOMAIN a /\ (a \o b)[j] = a[j]
               \/ \E k \in DOMAIN b : (a \o b)[j] = b[k]
    <3>1. CASE j <= Len(a)
      BY <2>1, <2>3, <2>4, <3>1
    <3>2. CASE ~(j <= Len(a))
      <4>1. j - Len(a) \in DOMAIN b /\ (a \o b)[j] = b[j - Len(a)]
        BY <2>1, <2>3, <2>4, <3>2
      <4> QED BY <4>1
    <3> QED BY <3>1, <3>2
  <2> QED BY <2>1, <2>5
<1> HIDE DEF a, b
<1> QED BY <1>2, <1>4, <1>5, <1>6

\* Where the answers on their way come from.
LEMMA AnsweredStep ==
  ASSUME TabShape, Next
  PROVE  /\ reload' \in Answered' /\ reload \in Answered
         /\ \A a \in Answered' : \/ a \in Answered \/ a = NoReload
                                 \/ TakeThread /\ a = reload'
<1>1. earlier \in Seq(Answer) /\ reload \in Answer
  BY DEF TabShape
<1>2. CASE TakeThread
  <2>1. earlier' = earlier \/ earlier' = Append(earlier, reload)
    BY <1>2 DEF TakeThread
  <2>2. \A j \in DOMAIN earlier' : earlier'[j] \in Answered
    <3>1. CASE earlier' = earlier
      BY <3>1 DEF Answered
    <3>2. CASE earlier' = Append(earlier, reload)
      <4>1. \A j \in DOMAIN earlier' : \/ j \in DOMAIN earlier /\ earlier'[j] = earlier[j]
                                       \/ earlier'[j] = reload
        BY <1>1, <3>2
      <4> QED BY <4>1 DEF Answered
    <3> QED BY <2>1, <3>1, <3>2
  <2> QED BY <1>2, <2>2 DEF Answered
<1>3. CASE ShowThread
  BY <1>3 DEF ShowThread, Answered
<1>4. ASSUME NEW i \in DOMAIN earlier, ShowEarlier(i)
      PROVE  Answered' \subseteq Answered
  <2>1. reload' = reload /\ earlier' = RemoveAt(earlier, i)
    BY <1>4 DEF ShowEarlier
  <2>2. \A j \in DOMAIN earlier' : \E k \in DOMAIN earlier : earlier'[j] = earlier[k]
    BY <1>1, <2>1, Without
  <2> QED BY <2>1, <2>2 DEF Answered
<1>5. CASE UNCHANGED <<reload, earlier>>
  BY <1>5 DEF Answered
<1>6. ASSUME ~TakeThread, ~Shows
      PROVE  UNCHANGED <<reload, earlier>>
  <2>1. CASE Server \/ Faults \/ Person
    BY <2>1 DEF Server, Faults, Person, StartElsewhere, Start, Register, SaveReply, EndTurn,
       GraceExpires, Restart, CutFeed, RemoveMember, Detach, LoadPage, Mount, Send, EditMessage, tab
  <2>2. CASE Answers \/ Browser
    BY <1>6, <2>2 DEF Answers, AnswerResume, AnswerAttach, CheckAccess, Subscribe, Browser, Shows,
       Reconnect, OnEvent, Ignore, OnMessage, OnTurnStarted, OnReload, OnRemoved, Refused,
       ReadEvent, ReadEnd, ReadBroken, StopReading, tab
  <2> QED BY <2>1, <2>2 DEF Next
<1> QED BY <1>2, <1>3, <1>4, <1>5, <1>6 DEF Shows, Answered

\* What a thread that is taken says, if it says anything.
LEMMA TakenIs ==
  ASSUME TakeThread
  PROVE  /\ \/ reload'.stage = "taken" /\ reload'.snap = Loaded(rows)
            \/ reload'.stage = "gone" /\ reload'.snap = <<>>
         /\ reload' = [stage |-> reload'.stage, snap |-> reload'.snap]
         /\ member => reload'.stage = "taken"
BY DEF TakeThread, NoReload

\* An answer that is shown is one of those, and changes the screen only.
LEMMA ShowsIs ==
  ASSUME Shows
  PROVE  /\ \E a \in Answered : shown' = shown \/ shown' = a.snap \o Live
         /\ lost' \in {TRUE, lost}
         /\ UNCHANGED <<server, access, feed, page, held, streaming, streams, posts, resume,
                        attach, asked, slipped, faults>>
BY DEF Shows, ShowThread, ShowEarlier, Show, Answered

\* The same, without saying that each is kept once.
LEMMA LiveFrom ==
  ASSUME TabShape
  PROVE  \A k \in DOMAIN Live :
            \E i \in DOMAIN shown : Live[k] = shown[i] /\ shown[i].who = "reply" /\ ~shown[i].known
<1>1. PICK f \in Injection(DOMAIN Live, DOMAIN shown) :
         \A k \in DOMAIN Live : /\ Live[k] = shown[f[k]] /\ shown[f[k]].who = "reply"
                                /\ ~shown[f[k]].known
  BY LiveBubbles
<1>2. \A k \in DOMAIN Live : f[k] \in DOMAIN shown
  BY DEF Injection
<1> QED BY <1>1, <1>2

\* A sequence keeps its places when its entries are rewritten where they stand.
LEMMA SamePlaces ==
  ASSUME NEW q, NEW r, DOMAIN r = DOMAIN q
  PROVE  /\ [k \in DOMAIN r |-> k] \in Injection(DOMAIN r, DOMAIN q)
         /\ \A k \in DOMAIN r : [l \in DOMAIN r |-> l][k] = k
BY DEF Injection, IsInjective

\* What the end of a reply leaves on the screen.
LEMMA CompletedBubbles ==
  ASSUME TabShape, NEW s \in Stream
  PROVE  /\ Completed(s) \in Seq(LooseBubbles)
         /\ \E f \in Injection(DOMAIN Completed(s), DOMAIN shown) :
               \A k \in DOMAIN Completed(s) :
                  \/ /\ Completed(s)[k] = shown[f[k]]
                     /\ shown[f[k]].key = s.key => s.turn \notin kept
                  \/ /\ shown[f[k]].key = s.key /\ ~LoadedElsewhere(s) /\ s.turn \in kept
                     /\ Completed(s)[k] = [shown[f[k]] EXCEPT !.known = TRUE]
<1> DEFINE P == {i \in DOMAIN shown : shown[i].key /= s.key}
           K == [i \in DOMAIN shown |-> IF shown[i].key = s.key
                                        THEN [shown[i] EXCEPT !.known = TRUE] ELSE shown[i]]
<1>1. shown \in Seq(LooseBubbles)
  BY DEF TabShape
<1>2. \A i \in DOMAIN shown : shown[i] \in LooseBubbles
  BY <1>1
<1>3. CASE s.turn \notin kept
  <2>1. Completed(s) = shown
    BY <1>3 DEF Completed
  <2> QED BY <1>1, <1>3, <2>1, SamePlaces
<1>4. CASE s.turn \in kept /\ LoadedElsewhere(s)
  <2>1. Completed(s) = At(shown, P)
    BY <1>4 DEF Completed
  <2>2. P \in SUBSET DOMAIN shown /\ \A i \in P : shown[i].key # s.key
    OBVIOUS
  <2> HIDE DEF P
  <2>3. Completed(s) \in Seq(LooseBubbles)
    BY <1>1, <2>1, <2>2, PickedEntries
  <2>4. PICK f \in Injection(DOMAIN Completed(s), P) :
           \A k \in DOMAIN Completed(s) : Completed(s)[k] = shown[f[k]]
    BY <1>1, <2>1, <2>2, PickedEntries
  <2>5. /\ f \in Injection(DOMAIN Completed(s), DOMAIN shown)
        /\ \A k \in DOMAIN Completed(s) : f[k] \in P
    BY <2>2, <2>4 DEF Injection
  <2> QED BY <2>2, <2>3, <2>4, <2>5
<1>5. CASE s.turn \in kept /\ ~LoadedElsewhere(s)
  <2>1. Completed(s) = K
    BY <1>5 DEF Completed
  <2>2. \A i \in DOMAIN shown : K[i] \in LooseBubbles
    BY <1>2 DEF LooseBubbles
  <2>3. DOMAIN K = DOMAIN shown /\ K = [i \in DOMAIN K |-> K[i]]
    OBVIOUS
  <2>4. \A i \in DOMAIN shown :
           \/ K[i] = shown[i] /\ shown[i].key # s.key
           \/ shown[i].key = s.key /\ K[i] = [shown[i] EXCEPT !.known = TRUE]
    OBVIOUS
  <2> HIDE DEF K
  <2>5. K \in Seq(LooseBubbles)
    BY <1>1, <2>2, <2>3, Rewritten
  <2>6. /\ [k \in DOMAIN K |-> k] \in Injection(DOMAIN K, DOMAIN shown)
        /\ \A k \in DOMAIN K : [l \in DOMAIN K |-> l][k] = k
    BY <2>3, SamePlaces
  <2> QED BY <1>5, <2>1, <2>3, <2>4, <2>5, <2>6
<1> QED BY <1>3, <1>4, <1>5

\* What reading one event of a reply does to each bubble.
LEMMA EventBubbles ==
  ASSUME TabShape, NEW s \in Stream
  PROVE  /\ AfterEvent(s) \in Seq(LooseBubbles)
         /\ \E f \in Injection(DOMAIN AfterEvent(s), DOMAIN shown) :
               \A k \in DOMAIN AfterEvent(s) :
                  \/ /\ AfterEvent(s)[k] = shown[f[k]]
                     /\ shown[f[k]].key = s.key =>
                           s.pos = 0 \/ (s.pos > Deltas /\ s.turn \notin kept)
                  \/ /\ s.pos = 0 /\ shown[f[k]].who = "user"
                     /\ AfterEvent(s)[k] = [shown[f[k]] EXCEPT !.known = TRUE]
                  \/ /\ s.pos \in 1..Deltas /\ shown[f[k]].key = s.key
                     /\ AfterEvent(s)[k] = [shown[f[k]] EXCEPT !.text = @ + 1]
                  \/ /\ s.pos > Deltas /\ shown[f[k]].key = s.key
                     /\ ~LoadedElsewhere(s) /\ s.turn \in kept
                     /\ AfterEvent(s)[k] = [shown[f[k]] EXCEPT !.known = TRUE]
<1> DEFINE U == [i \in DOMAIN shown |-> IF shown[i].who = "user" /\ shown[i].turn = s.turn
                                        THEN [shown[i] EXCEPT !.known = TRUE] ELSE shown[i]]
           W == [i \in DOMAIN shown |-> IF shown[i].key = s.key
                                        THEN [shown[i] EXCEPT !.text = @ + 1] ELSE shown[i]]
<1>1. shown \in Seq(LooseBubbles)
  BY DEF TabShape
<1>2. \A i \in DOMAIN shown : shown[i] \in LooseBubbles
  BY <1>1
<1>3. s.pos \in Nat /\ Deltas \in Nat
  BY TurnsAndKeys DEF Stream
<1>4. CASE s.pos = 0
  <2>1. AfterEvent(s) = U
    BY <1>4 DEF AfterEvent
  <2>2. \A i \in DOMAIN shown : U[i] \in LooseBubbles
    BY <1>2 DEF LooseBubbles
  <2>3. DOMAIN U = DOMAIN shown /\ U = [i \in DOMAIN U |-> U[i]]
    OBVIOUS
  <2>4. \A i \in DOMAIN shown :
           \/ U[i] = shown[i]
           \/ shown[i].who = "user" /\ U[i] = [shown[i] EXCEPT !.known = TRUE]
    OBVIOUS
  <2> HIDE DEF U
  <2>5. U \in Seq(LooseBubbles)
    BY <1>1, <2>2, <2>3, Rewritten
  <2>6. /\ [k \in DOMAIN U |-> k] \in Injection(DOMAIN U, DOMAIN shown)
        /\ \A k \in DOMAIN U : [l \in DOMAIN U |-> l][k] = k
    BY <2>3, SamePlaces
  <2> QED BY <1>4, <2>1, <2>3, <2>4, <2>5, <2>6
<1>5. CASE s.pos \in 1..Deltas
  <2>1. AfterEvent(s) = W
    BY <1>3, <1>5 DEF AfterEvent
  <2>2. \A i \in DOMAIN shown : W[i] \in LooseBubbles
    BY <1>2 DEF LooseBubbles
  <2>3. DOMAIN W = DOMAIN shown /\ W = [i \in DOMAIN W |-> W[i]]
    OBVIOUS
  <2>4. \A i \in DOMAIN shown :
           \/ W[i] = shown[i] /\ shown[i].key # s.key
           \/ shown[i].key = s.key /\ W[i] = [shown[i] EXCEPT !.text = @ + 1]
    OBVIOUS
  <2> HIDE DEF W
  <2>5. W \in Seq(LooseBubbles)
    BY <1>1, <2>2, <2>3, Rewritten
  <2>6. /\ [k \in DOMAIN W |-> k] \in Injection(DOMAIN W, DOMAIN shown)
        /\ \A k \in DOMAIN W : [l \in DOMAIN W |-> l][k] = k
    BY <2>3, SamePlaces
  <2> QED BY <1>5, <2>1, <2>3, <2>4, <2>5, <2>6
<1>6. CASE s.pos > Deltas
  <2>1. AfterEvent(s) = Completed(s)
    BY <1>3, <1>6 DEF AfterEvent
  <2>2. Completed(s) \in Seq(LooseBubbles)
    BY CompletedBubbles
  <2>3. PICK f \in Injection(DOMAIN Completed(s), DOMAIN shown) :
               \A k \in DOMAIN Completed(s) :
                  \/ /\ Completed(s)[k] = shown[f[k]]
                     /\ shown[f[k]].key = s.key => s.turn \notin kept
                  \/ /\ shown[f[k]].key = s.key /\ ~LoadedElsewhere(s) /\ s.turn \in kept
                     /\ Completed(s)[k] = [shown[f[k]] EXCEPT !.known = TRUE]
    BY CompletedBubbles
  <2> QED BY <1>6, <2>1, <2>2, <2>3
<1> QED BY <1>3, <1>4, <1>5, <1>6

\* The same, without saying that each bubble comes from its own.
LEMMA EventFrom ==
  ASSUME TabShape, NEW s \in Stream
  PROVE  \A k \in DOMAIN AfterEvent(s) :
            \E i \in DOMAIN shown :
               \/ /\ AfterEvent(s)[k] = shown[i]
                  /\ shown[i].key = s.key => s.pos = 0 \/ s.pos > Deltas
               \/ /\ s.pos = 0 /\ shown[i].who = "user"
                  /\ AfterEvent(s)[k] = [shown[i] EXCEPT !.known = TRUE]
               \/ /\ s.pos \in 1..Deltas /\ shown[i].key = s.key
                  /\ AfterEvent(s)[k] = [shown[i] EXCEPT !.text = @ + 1]
               \/ /\ s.pos > Deltas /\ shown[i].key = s.key
                  /\ AfterEvent(s)[k] = [shown[i] EXCEPT !.known = TRUE]
<1>1. PICK f \in Injection(DOMAIN AfterEvent(s), DOMAIN shown) :
         \A k \in DOMAIN AfterEvent(s) :
            \/ /\ AfterEvent(s)[k] = shown[f[k]]
               /\ shown[f[k]].key = s.key =>
                     s.pos = 0 \/ (s.pos > Deltas /\ s.turn \notin kept)
            \/ /\ s.pos = 0 /\ shown[f[k]].who = "user"
               /\ AfterEvent(s)[k] = [shown[f[k]] EXCEPT !.known = TRUE]
            \/ /\ s.pos \in 1..Deltas /\ shown[f[k]].key = s.key
               /\ AfterEvent(s)[k] = [shown[f[k]] EXCEPT !.text = @ + 1]
            \/ /\ s.pos > Deltas /\ shown[f[k]].key = s.key
               /\ ~LoadedElsewhere(s) /\ s.turn \in kept
               /\ AfterEvent(s)[k] = [shown[f[k]] EXCEPT !.known = TRUE]
  BY EventBubbles
<1>2. \A k \in DOMAIN AfterEvent(s) : f[k] \in DOMAIN shown
  BY DEF Injection
<1> QED BY <1>1, <1>2

\* A stream or a request that ends lets go of its bubbles.
LEMMA ReleasedBubbles ==
  ASSUME TabShape, NEW k,
         shown' = [i \in DOMAIN shown |->
                      IF shown[i].key = k THEN [shown[i] EXCEPT !.key = 0] ELSE shown[i]]
  PROVE  /\ shown' \in Seq(LooseBubbles)
         /\ DOMAIN shown' = DOMAIN shown
         /\ \A i \in DOMAIN shown :
               \/ shown'[i] = shown[i] /\ shown[i].key # k
               \/ shown'[i] = [shown[i] EXCEPT !.key = 0]
<1>1. shown \in Seq(LooseBubbles)
  BY DEF TabShape
<1>2. \A i \in DOMAIN shown : shown[i] \in LooseBubbles
  BY <1>1
<1>3. \A i \in DOMAIN shown : shown'[i] \in LooseBubbles
  BY <1>2 DEF LooseBubbles
<1>4. DOMAIN shown' = DOMAIN shown /\ shown' = [i \in DOMAIN shown' |-> shown'[i]]
  OBVIOUS
<1>5. \A i \in DOMAIN shown : \/ shown'[i] = shown[i] /\ shown[i].key # k
                              \/ shown'[i] = [shown[i] EXCEPT !.key = 0]
  OBVIOUS
<1>6. shown' \in Seq(LooseBubbles)
  BY <1>1, <1>3, <1>4, Rewritten
<1> QED BY <1>4, <1>5, <1>6

\* A bubble at the end of the thread, after what was there.
LEMMA BubbleAdded ==
  ASSUME TabShape, NEW b \in LooseBubbles
  PROVE  /\ Append(shown, b) \in Seq(LooseBubbles)
         /\ \A k \in DOMAIN Append(shown, b) :
               \/ k \in DOMAIN shown /\ Append(shown, b)[k] = shown[k]
               \/ k = Len(shown) + 1 /\ Append(shown, b)[k] = b
         /\ Len(shown) + 1 \notin DOMAIN shown
<1>1. shown \in Seq(LooseBubbles)
  BY DEF TabShape
<1> QED BY <1>1, AppendProperties

\* A turn the tab asks for puts two bubbles after what it keeps of the thread.
LEMMA AskedBubbles ==
  ASSUME NEW before \in Seq(LooseBubbles), NEW t \in Turns
  PROVE  LET q == before \o <<Bubble("user", t, 0, FALSE, 0), Bubble("reply", t, t, FALSE, 0)>>
         IN  /\ q \in Seq(LooseBubbles)
             /\ \A k \in DOMAIN q :
                   \/ k \in DOMAIN before /\ q[k] = before[k]
                   \/ k = Len(before) + 1 /\ q[k] = Bubble("user", t, 0, FALSE, 0)
                   \/ k = Len(before) + 2 /\ q[k] = Bubble("reply", t, t, FALSE, 0)
<1> DEFINE a == Bubble("user", t, 0, FALSE, 0)
           b == Bubble("reply", t, t, FALSE, 0)
<1>1. a \in LooseBubbles /\ b \in LooseBubbles
  BY TurnsAndKeys DEF Bubble, LooseBubbles
<1> HIDE DEF a, b
<1>2. <<a, b>> \in Seq(LooseBubbles)
  BY <1>1
<1>3. /\ before \o <<a, b>> \in Seq(LooseBubbles)
      /\ Len(before \o <<a, b>>) = Len(before) + 2
      /\ \A k \in 1 .. Len(before) + 2 :
            (before \o <<a, b>>)[k] = IF k <= Len(before) THEN before[k]
                                                         ELSE <<a, b>>[k - Len(before)]
  BY <1>2, ConcatProperties
<1>4. \A k \in DOMAIN (before \o <<a, b>>) :
         \/ k \in DOMAIN before /\ (before \o <<a, b>>)[k] = before[k]
         \/ k = Len(before) + 1 /\ (before \o <<a, b>>)[k] = a
         \/ k = Len(before) + 2 /\ (before \o <<a, b>>)[k] = b
  <2> SUFFICES ASSUME NEW k \in DOMAIN (before \o <<a, b>>)
               PROVE  \/ k \in DOMAIN before /\ (before \o <<a, b>>)[k] = before[k]
                      \/ k = Len(before) + 1 /\ (before \o <<a, b>>)[k] = a
                      \/ k = Len(before) + 2 /\ (before \o <<a, b>>)[k] = b
    OBVIOUS
  <2>1. k \in 1 .. Len(before) + 2 /\ Len(before) \in Nat
    BY <1>3
  <2>2. CASE k <= Len(before)
    BY <1>3, <2>1, <2>2
  <2>3. CASE k = Len(before) + 1
    BY <1>3, <2>1, <2>3
  <2>4. CASE k = Len(before) + 2
    BY <1>3, <2>1, <2>4
  <2> QED BY <2>1, <2>2, <2>3, <2>4
<1> QED BY <1>3, <1>4 DEF a, b

\* The bubbles a send or an edit starts from, those that stand before the new two.
LEMMA AskedFrom ==
  ASSUME TabShape, NEW before, NEW k, AskFor(before, k),
         before \in Seq(LooseBubbles)
  PROVE  \E t \in Turns :
            /\ NextTurn(t)
            /\ phase' = [phase EXCEPT ![t] = "posted"]
            /\ mine' = mine \cup {t}
            /\ shown' \in Seq(LooseBubbles)
            /\ \A i \in DOMAIN shown' :
                  \/ i \in DOMAIN before /\ shown'[i] = before[i]
                  \/ i = Len(before) + 1 /\ shown'[i] = Bubble("user", t, 0, FALSE, 0)
                  \/ i = Len(before) + 2 /\ shown'[i] = Bubble("reply", t, t, FALSE, 0)
            /\ held' = t /\ streaming' = TRUE
            /\ posts' = posts \cup {[key |-> t, turn |-> t]}
            /\ stale' = (stale \/ reload.stage = "taken")
<1>1. PICK t \in Turns :
         /\ NextTurn(t)
         /\ phase' = [phase EXCEPT ![t] = "posted"]
         /\ mine' = mine \cup {t}
         /\ shown' = before \o <<Bubble("user", t, 0, FALSE, 0), Bubble("reply", t, t, FALSE, 0)>>
         /\ held' = t /\ streaming' = TRUE
         /\ posts' = posts \cup {[key |-> t, turn |-> t]}
         /\ stale' = (stale \/ reload.stage = "taken")
  BY DEF AskFor
<1>2. /\ shown' \in Seq(LooseBubbles)
      /\ \A i \in DOMAIN shown' :
            \/ i \in DOMAIN before /\ shown'[i] = before[i]
            \/ i = Len(before) + 1 /\ shown'[i] = Bubble("user", t, 0, FALSE, 0)
            \/ i = Len(before) + 2 /\ shown'[i] = Bubble("reply", t, t, FALSE, 0)
  BY <1>1, AskedBubbles
<1> QED BY <1>1, <1>2

\* Sending and editing, as far as the tab goes: what comes before is what is
\* shown, or the start of it.
LEMMA Asking ==
  ASSUME Shape, Send \/ EditMessage
  PROVE  \E t \in Turns, n \in Nat :
            /\ NextTurn(t)
            /\ phase' = [phase EXCEPT ![t] = "posted"]
            /\ mine' = mine \cup {t}
            /\ shown' \in Seq(LooseBubbles)
            /\ \A i \in DOMAIN shown' :
                  \/ i <= n /\ i \in DOMAIN shown /\ shown'[i] = shown[i]
                  \/ i = n + 1 /\ shown'[i] = Bubble("user", t, 0, FALSE, 0)
                  \/ i = n + 2 /\ shown'[i] = Bubble("reply", t, t, FALSE, 0)
            /\ held' = t /\ streaming' = TRUE
            /\ posts' = posts \cup {[key |-> t, turn |-> t]}
            /\ stale' = (stale \/ reload.stage = "taken")
            /\ page = "mounted"
            /\ UNCHANGED <<page, streams, resume, attach, reloads, lost, wire, timers>>
<1>1. shown \in Seq(LooseBubbles) /\ TabShape
  BY DEF Shape, TabShape
<1>2. page = "mounted" /\ UNCHANGED <<page, streams, resume, attach, reloads, lost, wire, timers>>
  BY DEF Send, EditMessage, feed
<1>3. \E before \in Seq(LooseBubbles), k \in 0..MaxTurns \cup Turns :
         /\ AskFor(before, k)
         /\ \A j \in DOMAIN before : j \in DOMAIN shown /\ before[j] = shown[j]
  <2>1. CASE Send
    <3>1. AskFor(shown, 0) /\ 0 \in 0..MaxTurns
      BY <2>1, TurnsAndKeys DEF Send
    <3> QED BY <1>1, <3>1
  <2>2. CASE EditMessage
    <3>1. PICK m \in DOMAIN shown : AskFor(SubSeq(shown, 1, m - 1), shown[m].turn)
      BY <2>2 DEF EditMessage
    <3>2. shown[m] \in LooseBubbles
      BY <1>1
    <3>3. shown[m].turn \in Turns
      BY <3>2 DEF LooseBubbles
    <3> DEFINE before == SubSeq(shown, 1, m - 1)
    <3>4. /\ before \in Seq(LooseBubbles)
          /\ \A j \in DOMAIN before : j \in DOMAIN shown /\ before[j] = shown[j]
      BY <1>1, Prefix
    <3>5. AskFor(before, shown[m].turn)
      BY <3>1
    <3> HIDE DEF before
    <3> QED BY <3>3, <3>4, <3>5
  <2> QED BY <2>1, <2>2
<1>4. PICK before \in Seq(LooseBubbles), k \in 0..MaxTurns \cup Turns :
         /\ AskFor(before, k)
         /\ \A j \in DOMAIN before : j \in DOMAIN shown /\ before[j] = shown[j]
  BY <1>3
<1> DEFINE n == Len(before)
<1>5. n \in Nat /\ \A j \in DOMAIN before : j <= n
  OBVIOUS
<1>6. PICK t \in Turns :
            /\ NextTurn(t)
            /\ phase' = [phase EXCEPT ![t] = "posted"]
            /\ mine' = mine \cup {t}
            /\ shown' \in Seq(LooseBubbles)
            /\ \A i \in DOMAIN shown' :
                  \/ i \in DOMAIN before /\ shown'[i] = before[i]
                  \/ i = n + 1 /\ shown'[i] = Bubble("user", t, 0, FALSE, 0)
                  \/ i = n + 2 /\ shown'[i] = Bubble("reply", t, t, FALSE, 0)
            /\ held' = t /\ streaming' = TRUE
            /\ posts' = posts \cup {[key |-> t, turn |-> t]}
            /\ stale' = (stale \/ reload.stage = "taken")
  BY <1>1, <1>4, AskedFrom
<1> HIDE DEF n
<1>7. \A i \in DOMAIN shown' :
         \/ i <= n /\ i \in DOMAIN shown /\ shown'[i] = shown[i]
         \/ i = n + 1 /\ shown'[i] = Bubble("user", t, 0, FALSE, 0)
         \/ i = n + 2 /\ shown'[i] = Bubble("reply", t, t, FALSE, 0)
  BY <1>4, <1>5, <1>6
<1> QED BY <1>2, <1>5, <1>6, <1>7

\* ... of the tab.
LEMMA TabStep ==
  ASSUME Shape, Next
  PROVE  TabShape'
<1> USE TurnsAndKeys
<1>1. TabShape /\ ServerShape /\ FeedShape
  BY DEF Shape
<1>2. Resumable \in Turns \cup {0}
  BY <1>1 DEF Resumable, ServerShape, Turns
<1>3. CASE LoadPage
  BY <1>1, <1>3, LoadedBubbles DEF LoadPage, TabShape
<1>4. CASE Mount
  BY <1>1, <1>4 DEF Mount, TabShape
<1>5. ASSUME NEW t \in Turns, Register(t)
      PROVE  TabShape'
  <2>1. posts' \subseteq posts
    BY <1>5 DEF Register
  <2>2. streams' \subseteq Stream
    BY <1>1, <1>5 DEF Register, TabShape, Stream, Post
  <2> QED BY <1>1, <1>5, <2>1, <2>2 DEF Register, TabShape
<1>6. CASE Restart
  BY <1>1, <1>6 DEF Restart, TabShape
<1>7. CASE Send \/ EditMessage
  <2>1. PICK t \in Turns :
           /\ shown' \in Seq(LooseBubbles) /\ held' = t /\ streaming' = TRUE
           /\ posts' = posts \cup {[key |-> t, turn |-> t]}
           /\ UNCHANGED <<page, streams, resume, attach, reloads, lost>>
    BY <1>7, Asking
  <2>2. [key |-> t, turn |-> t] \in Post
    BY DEF Post
  <2> QED BY <1>1, <2>1, <2>2 DEF TabShape
<1>8. CASE \E p \in posts : Refused(p)
  <2>1. PICK p \in posts : Refused(p)
    BY <1>8
  <2>2. shown' \in Seq(LooseBubbles)
    BY <1>1, <2>1, ReleasedBubbles DEF Refused
  <2> QED BY <1>1, <2>1, <2>2 DEF Refused, TabShape
<1>9. ASSUME NEW t \in Turns, NEW k \in Keys, Follow(t, k)
      PROVE  shown' \in Seq(LooseBubbles) /\ streams' \subseteq Stream /\ streaming' = TRUE
  <2>1. Bubble("reply", t, k, FALSE, 0) \in LooseBubbles
    BY DEF Bubble, LooseBubbles
  <2>2. shown' \in Seq(LooseBubbles)
    BY <1>1, <1>9, <2>1, BubbleAdded DEF Follow
  <2>3. [key |-> k, turn |-> t, pos |-> 0] \in Stream
    BY DEF Stream
  <2> QED BY <1>1, <1>9, <2>2, <2>3 DEF Follow, TabShape
<1>10. CASE AnswerResume
  <2>1. CASE Resumable = 0
    BY <1>1, <1>10, <2>1 DEF AnswerResume, TabShape
  <2>2. CASE Resumable # 0
    <3>1. Follow(Resumable, ResumeKey) /\ held' = ResumeKey
      BY <1>10, <2>2 DEF AnswerResume
    <3>2. shown' \in Seq(LooseBubbles) /\ streams' \subseteq Stream /\ streaming' = TRUE
      BY <1>2, <1>9, <2>2, <3>1
    <3> QED BY <1>1, <1>10, <3>1, <3>2 DEF AnswerResume, TabShape
  <2> QED BY <2>1, <2>2
<1>11. ASSUME NEW t \in Turns, AnswerAttach(t)
       PROVE  TabShape'
  <2>1. CASE Resumable = 0
    BY <1>1, <1>11, <2>1 DEF AnswerAttach, TabShape
  <2>2. CASE Resumable # 0
    <3>1. Follow(Resumable, t) /\ held' = held
      BY <1>11, <2>2 DEF AnswerAttach
    <3>2. shown' \in Seq(LooseBubbles) /\ streams' \subseteq Stream /\ streaming' = TRUE
      BY <1>2, <1>9, <2>2, <3>1
    <3> QED BY <1>1, <1>11, <3>1, <3>2 DEF AnswerAttach, TabShape
  <2> QED BY <2>1, <2>2
<1>12. ASSUME wire /= <<>>
       PROVE  Ev \in Told
  BY <1>1, <1>12 DEF Ev, FeedShape
<1>13. CASE OnMessage
  <2>1. Ev \in Told /\ Ev.type = "message"
    BY <1>12, <1>13 DEF OnMessage, Receive
  <2>2. Ev.turn \in Turns
    BY <2>1 DEF Told
  <2>3. Bubble("user", Ev.turn, 0, TRUE, 0) \in LooseBubbles
    BY <2>2 DEF Bubble, LooseBubbles
  <2>4. shown' \in Seq(LooseBubbles)
    <3>1. shown' = shown \/ shown' = Append(shown, Bubble("user", Ev.turn, 0, TRUE, 0))
      BY <1>13 DEF OnMessage, WithBubble
    <3> QED BY <1>1, <2>3, <3>1, BubbleAdded DEF TabShape
  <2> QED BY <1>1, <1>13, <2>4 DEF OnMessage, TabShape
<1>14. CASE OnTurnStarted
  <2>1. Ev \in Told /\ Ev.type = "turn_started"
    BY <1>12, <1>14 DEF OnTurnStarted, Receive
  <2>2. Ev.turn \in Turns
    BY <2>1 DEF Told
  <2> QED BY <1>1, <1>14, <2>2 DEF OnTurnStarted, TabShape
<1>15. CASE OnReload
  BY <1>1, <1>15 DEF OnReload, TabShape
<1>16. CASE OnRemoved
  BY <1>1, <1>16 DEF OnRemoved, TabShape
<1>17. CASE TakeThread
  <2>1. Loaded(rows) \in Seq(LooseBubbles) /\ <<>> \in Seq(LooseBubbles)
    BY <1>1, LoadedBubbles
  <2>2. reload' \in Answer
    BY <1>17, <2>1, TakenIs DEF Answer
  <2>3. earlier' \in Seq(Answer) /\ \A i \in DOMAIN earlier' : earlier'[i].stage /= "none"
    <3>1. CASE reload = NoReload
      BY <1>1, <1>17, <3>1 DEF TakeThread, TabShape
    <3>2. CASE reload # NoReload
      <4>1. earlier' = Append(earlier, reload) /\ reload.stage /= "none"
        BY <1>1, <1>17, <3>2 DEF TakeThread, TabShape
      <4>2. \A i \in DOMAIN earlier' : \/ i \in DOMAIN earlier /\ earlier'[i] = earlier[i]
                                       \/ earlier'[i] = reload
        BY <1>1, <4>1 DEF TabShape
      <4> QED BY <1>1, <4>1, <4>2 DEF TabShape
    <3> QED BY <3>1, <3>2
  <2>4. asked' \in Nat
    BY <1>1, <1>17 DEF TakeThread, TabShape
  <2>5. reload'.stage /= "none"
    BY <1>17, TakenIs
  <2>6. UNCHANGED <<page, shown, held, streaming, streams, posts, resume, attach, lost>>
    BY <1>17 DEF TakeThread
  <2> QED BY <1>1, <2>2, <2>3, <2>4, <2>5, <2>6 DEF TabShape
<1>18. CASE Shows
  <2>1. \A a \in Answered : a.snap \o Live \in Seq(LooseBubbles)
    <3>1. \A a \in Answered : a \in Answer
      BY <1>1 DEF Answered, TabShape
    <3>2. \A a \in Answered : a.snap \in Seq(LooseBubbles)
      BY <3>1 DEF Answer
    <3> QED BY <1>1, <3>2, LiveBubbles, ConcatProperties
  <2>2. shown' \in Seq(LooseBubbles) /\ lost' \in BOOLEAN
    BY <1>1, <1>18, <2>1, ShowsIs DEF TabShape
  <2>3. reload' \in Answer /\ (reload'.stage = "none" => reload' = NoReload)
    <3>1. NoReload \in Answer
      BY DEF NoReload, Answer
    <3> QED BY <1>1, <1>18, <3>1 DEF Shows, ShowThread, ShowEarlier, TabShape
  <2>4. earlier' \in Seq(Answer) /\ \A i \in DOMAIN earlier' : earlier'[i].stage /= "none"
    <3>1. earlier' = earlier \/ \E i \in DOMAIN earlier : earlier' = RemoveAt(earlier, i)
      BY <1>18 DEF Shows, ShowThread, ShowEarlier
    <3>2. earlier \in Seq(Answer) /\ \A i \in DOMAIN earlier : earlier[i].stage /= "none"
      BY <1>1 DEF TabShape
    <3>3. ASSUME NEW i \in DOMAIN earlier, earlier' = RemoveAt(earlier, i)
          PROVE  earlier' \in Seq(Answer) /\ \A j \in DOMAIN earlier' : earlier'[j].stage /= "none"
      <4>1. /\ RemoveAt(earlier, i) \in Seq(Answer)
            /\ \A j \in DOMAIN RemoveAt(earlier, i) :
                  \E k \in DOMAIN earlier : RemoveAt(earlier, i)[j] = earlier[k]
        BY <3>2, Without
      <4> QED BY <3>2, <3>3, <4>1
    <3> QED BY <3>1, <3>2, <3>3
  <2>5. UNCHANGED <<page, held, streaming, streams, posts, resume, attach, asked>>
    BY <1>18, ShowsIs
  <2> QED BY <1>1, <2>2, <2>3, <2>4, <2>5 DEF TabShape
<1>19. ASSUME NEW s \in streams, ReadEvent(s)
       PROVE  TabShape'
  <2>1. s \in Stream
    BY <1>1 DEF TabShape
  <2>2. shown' \in Seq(LooseBubbles)
    BY <1>1, <1>19, <2>1, EventBubbles DEF ReadEvent
  <2>3. [s EXCEPT !.pos = @ + 1] \in Stream
    <3>1. s.pos \in 0..(Deltas + 2) /\ s.pos < Published(s.turn) /\ Published(s.turn) <= Deltas + 2
      BY <1>19, <2>1 DEF ReadEvent, Published, Stream
    <3>2. s.pos + 1 \in 0..(Deltas + 2)
      BY <3>1 DEF Published
    <3> QED BY <2>1, <3>2 DEF Stream
  <2>4. streams' \subseteq Stream
    BY <1>1, <1>19, <2>3 DEF ReadEvent, TabShape
  <2> QED BY <1>1, <1>19, <2>2, <2>4 DEF ReadEvent, TabShape
<1>20. ASSUME NEW s \in streams, ReadEnd(s) \/ ReadBroken(s)
       PROVE  TabShape'
  <2>1. StopReading(s)
    BY <1>20 DEF ReadEnd, ReadBroken
  <2>2. shown' \in Seq(LooseBubbles)
    BY <1>1, <2>1, ReleasedBubbles DEF StopReading
  <2> QED BY <1>1, <2>1, <2>2 DEF StopReading, HoldAfter, TabShape
<1>21. CASE UNCHANGED tab
  BY <1>1, <1>21 DEF TabShape, tab
<1>22. ASSUME \/ StartElsewhere \/ CheckAccess \/ Subscribe \/ CutFeed \/ RemoveMember \/ Detach
              \/ Reconnect \/ Ignore
              \/ \E t \in Turns : Start(t) \/ SaveReply(t) \/ EndTurn(t) \/ GraceExpires(t)
       PROVE  UNCHANGED tab
  BY <1>22 DEF StartElsewhere, CheckAccess, Subscribe, CutFeed, RemoveMember, Detach, Reconnect,
       Ignore, Start, SaveReply, EndTurn, GraceExpires
<1> QED
  BY <1>3, <1>4, <1>5, <1>6, <1>7, <1>8, <1>10, <1>11, <1>13, <1>14, <1>15, <1>16, <1>17, <1>18,
     <1>19, <1>20, <1>21, <1>22
  DEF Next, Server, Answers, AttachAnswered, Faults, Person, Browser, Shows, OnEvent

-----------------------------------------------------------------------------
(* The registry, the cut-off and the hold                                   *)

\* Only ended turns have a timer.
EndedTimers == \A t \in timers : phase[t] = "ended"

\* Only an idle registry takes a turn, and only an ended one leaves it.
LEMMA RegistryStep ==
  ASSUME ServerShape, EndedTimers, RunningIsRegistered, Next
  PROVE  EndedTimers' /\ RunningIsRegistered'
<1> USE TurnsAndKeys
<1> DEFINE Goal == EndedTimers' /\ RunningIsRegistered'
<1>1. ASSUME NEW t \in Turns, Start(t) PROVE Goal
  BY <1>1 DEF Start, ServerShape, EndedTimers, RunningIsRegistered
<1>2. ASSUME StartElsewhere PROVE Goal
  <2>1. PICK t \in Turns : NextTurn(t) /\ phase' = [phase EXCEPT ![t] = "starting"]
    BY <1>2 DEF StartElsewhere
  <2>2. phase[t] = "none" /\ UNCHANGED <<timers, reg>>
    BY <1>2, <2>1 DEF StartElsewhere, NextTurn, Unused
  <2>3. Goal
    BY <2>1, <2>2 DEF ServerShape, EndedTimers, RunningIsRegistered
  <2> QED BY <2>3
<1>3. ASSUME NEW t \in Turns, Register(t) PROVE Goal
  <2>1. phase[t] = "starting" /\ UNCHANGED timers
    BY <1>3 DEF Register
  <2>2. CASE Active
    BY <1>3, <2>1, <2>2 DEF Register, ServerShape, EndedTimers, RunningIsRegistered
  <2>3. CASE ~Active
    <3>1. \A u \in Turns : phase[u] \notin {"running", "saved"}
      BY <2>3 DEF Active, RunningIsRegistered
    <3>2. phase' = [phase EXCEPT ![t] = "running"] /\ reg' = t
      BY <1>3, <2>3 DEF Register
    <3> QED BY <2>1, <3>1, <3>2 DEF ServerShape, EndedTimers, RunningIsRegistered
  <2> QED BY <2>2, <2>3
<1>4. ASSUME NEW t \in Turns, SaveReply(t) PROVE Goal
  BY <1>4 DEF SaveReply, ServerShape, EndedTimers, RunningIsRegistered
<1>5. ASSUME NEW t \in Turns, EndTurn(t) PROVE Goal
  BY <1>5 DEF EndTurn, ServerShape, EndedTimers, RunningIsRegistered
<1>6. ASSUME NEW t \in Turns, GraceExpires(t) PROVE Goal
  BY <1>6 DEF GraceExpires, AfterGrace, ServerShape, EndedTimers, RunningIsRegistered
<1>7. ASSUME Restart PROVE Goal
  BY <1>7 DEF Restart, ServerShape, EndedTimers, RunningIsRegistered
<1>8. ASSUME Send \/ EditMessage PROVE Goal
  <2>1. PICK t \in Turns : NextTurn(t) /\ phase' = [phase EXCEPT ![t] = "posted"]
    BY <1>8 DEF Send, EditMessage, AskFor
  <2>2. phase[t] = "none" /\ UNCHANGED <<timers, reg>>
    BY <1>8, <2>1 DEF Send, EditMessage, NextTurn, Unused
  <2>3. Goal
    BY <2>1, <2>2 DEF ServerShape, EndedTimers, RunningIsRegistered
  <2> QED BY <2>3
<1>9. ASSUME UNCHANGED server PROVE Goal
  BY <1>9 DEF server, EndedTimers, RunningIsRegistered
<1>10. ASSUME Answers \/ CutFeed \/ RemoveMember \/ Detach \/ LoadPage \/ Mount \/ Browser
       PROVE  UNCHANGED server
  BY <1>10 DEF Answers, AttachAnswered, AnswerResume, AnswerAttach, CheckAccess, Subscribe,
       TakeThread, CutFeed, RemoveMember, Detach, LoadPage, Mount, Browser, Shows, Reconnect,
       ShowThread, ShowEarlier, Show, OnEvent, Ignore, OnMessage, OnTurnStarted, OnReload,
       OnRemoved, Refused, ReadEvent, ReadEnd, ReadBroken, StopReading
<1> HIDE DEF Goal
<1>11. Goal
  BY <1>1, <1>2, <1>3, <1>4, <1>5, <1>6, <1>7, <1>8, <1>9, <1>10
  DEF Next, Server, Faults, Person
<1> QED BY <1>11 DEF Goal

\* A connection views the chat with a check made while the person was in, or
\* one that is known to have slipped through.
LEMMA CutOffStep ==
  ASSUME FlagShape, RemovedHearNothing, Next
  PROVE  RemovedHearNothing'
<1>1. CASE Restart
  BY <1>1 DEF Restart, access, RemovedHearNothing
<1>2. CASE Detach
  BY <1>2 DEF Detach, DetachViewer, RemovedHearNothing
<1>3. CASE CheckAccess \/ Reconnect \/ Mount
  BY <1>3 DEF CheckAccess, Reconnect, Mount, access, RemovedHearNothing
<1>4. CASE Subscribe
  BY <1>4 DEF Subscribe, access, RemovedHearNothing, FlagShape
<1>5. CASE CutFeed
  BY <1>5 DEF CutFeed, access, RemovedHearNothing
<1>6. CASE UNCHANGED <<sub, detached, slipped>>
  BY <1>6 DEF RemovedHearNothing
<1>7. ASSUME \/ StartElsewhere \/ AnswerResume \/ AttachAnswered \/ TakeThread \/ RemoveMember
             \/ LoadPage \/ Send \/ EditMessage \/ Shows \/ OnEvent
             \/ \E t \in Turns : \/ Start(t) \/ SaveReply(t) \/ EndTurn(t) \/ GraceExpires(t)
                                 \/ Register(t)
             \/ \E p \in posts : Refused(p)
             \/ \E s \in streams : ReadEvent(s) \/ ReadEnd(s) \/ ReadBroken(s)
      PROVE  UNCHANGED <<sub, detached, slipped>>
  BY <1>7 DEF StartElsewhere, AnswerResume, AttachAnswered, AnswerAttach, TakeThread,
       RemoveMember, LoadPage, Send, EditMessage, Shows, ShowThread, ShowEarlier, Show, OnEvent,
       Ignore, OnMessage, OnTurnStarted, OnReload, OnRemoved, Start, SaveReply, EndTurn,
       GraceExpires, Register, Refused, ReadEvent, ReadEnd, ReadBroken, StopReading, access,
       feed, history
<1> QED
  BY <1>1, <1>2, <1>3, <1>4, <1>5, <1>6, <1>7 DEF Next, Server, Answers, AttachAnswered, Faults,
       Person, Browser, Shows

\* A hold passes from a request to its stream, and is let go when that ends.
LEMMA HoldStep ==
  ASSUME Shape, HoldIsBacked, Next
  PROVE  HoldIsBacked'
<1> USE TurnsAndKeys
<1>1. TabShape
  BY DEF Shape
<1>2. ASSUME NEW t \in Turns, Register(t)
      PROVE  HoldIsBacked'
  <2>1. UNCHANGED <<held, attach>>
    BY <1>2 DEF Register
  <2>2. CASE Active
    BY <1>2, <2>1, <2>2 DEF Register, HoldIsBacked
  <2>3. CASE ~Active
    <3>1. /\ posts' = {p \in posts : p.turn /= t}
          /\ streams' = streams \cup {[key |-> p.key, turn |-> t, pos |-> 0] :
                                         p \in {q \in posts : q.turn = t}}
      BY <1>2, <2>3 DEF Register
    <3>2. ASSUME NEW p \in posts, p.key = held
          PROVE  (\E s \in streams' : s.key = held) \/ (\E q \in posts' : q.key = held)
      <4>1. CASE p.turn = t
        <5>1. [key |-> p.key, turn |-> t, pos |-> 0] \in streams'
          BY <3>1, <4>1
        <5> QED BY <3>2, <5>1
      <4>2. CASE p.turn # t
        BY <3>1, <3>2, <4>2
      <4> QED BY <4>1, <4>2
    <3>3. streams \subseteq streams'
      BY <3>1
    <3> QED BY <2>1, <3>2, <3>3 DEF HoldIsBacked
  <2> QED BY <2>2, <2>3
<1>3. CASE Restart
  <2>1. /\ held' = IF held \in attach THEN 0 ELSE held
        /\ UNCHANGED <<streams, posts>>
    BY <1>3 DEF Restart
  <2> QED BY <2>1 DEF HoldIsBacked
<1>4. CASE Send \/ EditMessage
  <2>1. PICK t \in Turns : held' = t /\ posts' = posts \cup {[key |-> t, turn |-> t]}
    BY <1>4, Asking
  <2>2. [key |-> t, turn |-> t] \in posts'
    BY <2>1
  <2> QED BY <2>1, <2>2 DEF HoldIsBacked
<1>5. CASE (\E p \in posts : Refused(p)) \/ OnRemoved
           \/ (\E s \in streams : ReadEnd(s) \/ ReadBroken(s))
  BY <1>5 DEF Refused, OnRemoved, ReadEnd, ReadBroken, StopReading, HoldAfter, HoldIsBacked
<1>6. CASE AnswerResume
  <2>1. CASE Resumable = 0
    BY <1>6, <2>1 DEF AnswerResume, HoldIsBacked
  <2>2. CASE Resumable # 0
    <3>1. [key |-> ResumeKey, turn |-> Resumable, pos |-> 0] \in streams' /\ held' = ResumeKey
      BY <1>6, <2>2 DEF AnswerResume, Follow
    <3> QED BY <3>1 DEF HoldIsBacked
  <2> QED BY <2>1, <2>2
<1>7. ASSUME NEW t \in Turns, AnswerAttach(t)
      PROVE  HoldIsBacked'
  <2>1. CASE Resumable = 0
    BY <1>7, <2>1 DEF AnswerAttach, HoldIsBacked
  <2>2. CASE Resumable # 0
    <3>1. /\ [key |-> t, turn |-> Resumable, pos |-> 0] \in streams' /\ held' = held
          /\ streams \subseteq streams' /\ posts' = posts /\ attach' = attach \ {t}
      BY <1>7, <2>2 DEF AnswerAttach, Follow
    <3> QED BY <3>1 DEF HoldIsBacked
  <2> QED BY <2>1, <2>2
<1>8. CASE OnTurnStarted
  BY <1>8 DEF OnTurnStarted, HoldIsBacked
<1>9. ASSUME NEW s \in streams, ReadEvent(s)
      PROVE  HoldIsBacked'
  <2>1. /\ streams' = (streams \ {s}) \cup {[s EXCEPT !.pos = @ + 1]}
        /\ UNCHANGED <<held, posts, attach>>
    BY <1>9 DEF ReadEvent
  <2>2. [s EXCEPT !.pos = @ + 1].key = s.key
    BY <1>1 DEF TabShape, Stream
  <2>3. \A r \in streams : \E q \in streams' : q.key = r.key
    BY <2>1, <2>2
  <2> QED BY <2>1, <2>3 DEF HoldIsBacked
<1>10. CASE UNCHANGED <<held, streams, posts, attach>>
  BY <1>10 DEF HoldIsBacked
<1>11. ASSUME \/ StartElsewhere \/ CheckAccess \/ Subscribe \/ CutFeed \/ RemoveMember \/ Detach
              \/ Reconnect \/ Ignore \/ LoadPage \/ Mount \/ TakeThread \/ Shows
              \/ OnMessage \/ OnReload
              \/ \E t \in Turns : Start(t) \/ SaveReply(t) \/ EndTurn(t) \/ GraceExpires(t)
       PROVE  UNCHANGED <<held, streams, posts, attach>>
  BY <1>11 DEF StartElsewhere, CheckAccess, Subscribe, CutFeed, RemoveMember, Detach, Reconnect,
       Ignore, LoadPage, Mount, TakeThread, Shows, ShowThread, ShowEarlier, Show, OnMessage,
       OnReload, Start, SaveReply, EndTurn, GraceExpires, tab
<1> QED
  BY <1>2, <1>3, <1>4, <1>5, <1>6, <1>7, <1>8, <1>9, <1>10, <1>11
  DEF Next, Server, Answers, AttachAnswered, Faults, Person, Browser, Shows, OnEvent

-----------------------------------------------------------------------------
(* Keys: a turn's key is used by one request, then by one stream            *)

\* The turn has been in the registry, or was turned away from it.
Registered(t) == phase[t] \notin {"none", "posted", "starting"}

KeysInUse == {s.key : s \in streams} \cup {p.key : p \in posts} \cup attach
             \cup {shown[i].key : i \in DOMAIN shown}

\* The tab uses the key of a turn it asked for, or was told of.
KnownKeys == \A t \in Turns : t \in KeysInUse => t \in mine \/ Registered(t)

AskedOnce == \A t \in mine : phase[t] /= "none"

\* A turn is announced to this tab once, and only when it is somebody else's.
Announcements ==
    \A i \in DOMAIN wire : wire[i].type = "turn_started" =>
        /\ wire[i].turn \notin mine /\ Registered(wire[i].turn)
        /\ wire[i].turn \notin KeysInUse
        /\ \A j \in DOMAIN wire :
              wire[j].type = "turn_started" /\ wire[j].turn = wire[i].turn => i = j

\* The page resumes once.
ResumeFree ==
    /\ page /= "mounted" \/ resume = "asked" => ResumeKey \notin KeysInUse
    /\ resume = "asked" => page = "mounted"

OwnPosts == \A p \in posts : p.key = p.turn /\ p.turn \in mine

AttachApart ==
    \A t \in attach :
        /\ t \notin mine
        /\ \A s \in streams : s.key /= t
        /\ \A i \in DOMAIN shown : shown[i].key /= t

StreamsApart ==
    /\ \A s, r \in streams : s.key = r.key => s = r
    /\ \A p \in posts, s \in streams : p.key /= s.key

SnapFree == \A a \in Answered : \A i \in DOMAIN a.snap : a.snap[i].key = 0

KeyInv == KnownKeys /\ AskedOnce /\ Announcements /\ ResumeFree /\ OwnPosts /\ AttachApart
          /\ StreamsApart /\ SnapFree

\* A step takes no turn back, and the tab asks for new ones only.
LEMMA Progress ==
  ASSUME Shape, AskedOnce, Next
  PROVE  /\ mine \subseteq mine' /\ AskedOnce'
         /\ \A t \in Turns : Registered(t) => Registered(t)'
         /\ \A t \in Turns : phase[t] # "none" => phase'[t] # "none"
         /\ \A t \in Turns : t \in mine' \ mine => ~Registered(t)
<1> DEFINE Goal == /\ mine \subseteq mine' /\ AskedOnce'
                   /\ \A t \in Turns : Registered(t) => Registered(t)'
                   /\ \A t \in Turns : phase[t] # "none" => phase'[t] # "none"
                   /\ \A t \in Turns : t \in mine' \ mine => ~Registered(t)
<1>0. ServerShape
  BY DEF Shape
<1>1. ASSUME NEW t \in Turns, phase[t] \in {"posted", "starting", "running", "saved"},
             NEW s \in {"starting", "refused", "running", "saved", "ended"},
             phase' = [phase EXCEPT ![t] = s], UNCHANGED mine,
             s = "starting" => phase[t] = "posted"
      PROVE  Goal
  BY <1>0, <1>1 DEF ServerShape, AskedOnce, Registered
<1>2. ASSUME NEW t \in Turns, \/ Start(t) \/ Register(t) \/ SaveReply(t) \/ EndTurn(t)
      PROVE  Goal
  <2>1. phase[t] \in {"posted", "starting", "running", "saved"} /\ UNCHANGED mine
    BY <1>2 DEF Start, Register, SaveReply, EndTurn
  <2>2. \E s \in {"starting", "refused", "running", "saved", "ended"} :
           phase' = [phase EXCEPT ![t] = s] /\ (s = "starting" => phase[t] = "posted")
    BY <1>2 DEF Start, Register, SaveReply, EndTurn
  <2> HIDE DEF Goal
  <2> QED BY <1>1, <2>1, <2>2
<1>3. ASSUME StartElsewhere
      PROVE  Goal
  <2>1. PICK t \in Turns : NextTurn(t) /\ phase' = [phase EXCEPT ![t] = "starting"]
    BY <1>3 DEF StartElsewhere
  <2>2. phase[t] = "none" /\ UNCHANGED mine
    BY <1>3, <2>1 DEF StartElsewhere, NextTurn, Unused
  <2> QED BY <1>0, <2>1, <2>2 DEF ServerShape, AskedOnce, Registered
<1>4. ASSUME Restart
      PROVE  Goal
  BY <1>0, <1>4 DEF Restart, ServerShape, AskedOnce, Registered
<1>5. ASSUME Send \/ EditMessage
      PROVE  Goal
  <2>1. PICK t \in Turns : /\ NextTurn(t) /\ phase' = [phase EXCEPT ![t] = "posted"]
                           /\ mine' = mine \cup {t}
    BY <1>5 DEF Send, EditMessage, AskFor
  <2>2. phase[t] = "none"
    BY <2>1 DEF NextTurn, Unused
  <2> QED BY <1>0, <2>1, <2>2 DEF ServerShape, AskedOnce, Registered
<1>6. ASSUME UNCHANGED <<phase, mine>>
      PROVE  Goal
  BY <1>6 DEF AskedOnce, Registered
<1>7. ASSUME \/ Answers \/ CutFeed \/ RemoveMember \/ Detach \/ LoadPage \/ Mount \/ Browser
             \/ \E t \in Turns : GraceExpires(t)
      PROVE  UNCHANGED <<phase, mine>>
  BY <1>7 DEF Answers, AttachAnswered, AnswerResume, AnswerAttach, CheckAccess, Subscribe,
       TakeThread, CutFeed, RemoveMember, Detach, LoadPage, Mount, Browser, Shows, Reconnect,
       ShowThread, ShowEarlier, Show, OnEvent, Ignore, OnMessage, OnTurnStarted, OnReload,
       OnRemoved, Refused, ReadEvent, ReadEnd, ReadBroken, StopReading, GraceExpires, server
<1> HIDE DEF Goal
<1>8. Goal
  BY <1>2, <1>3, <1>4, <1>5, <1>6, <1>7 DEF Next, Server, Faults, Person
<1> QED BY <1>8 DEF Goal

\* What is on its way to the tab moves up, is lost, or gains no announcement;
\* except when a turn registers.
FeedCarries ==
    \E d \in {0, 1} : \A i \in DOMAIN wire' :
        wire'[i].type = "turn_started" => i + d \in DOMAIN wire /\ wire'[i] = wire[i + d]

\* A feed that is left alone carries what it did.
LEMMA SameFeed ==
  ASSUME FeedShape, wire' = wire
  PROVE  FeedCarries
<1>1. \A i \in DOMAIN wire : i \in Nat /\ i + 0 = i
  BY DEF FeedShape
<1> QED BY <1>1 DEF FeedCarries

\* Only a registration announces a turn.
LEMMA NothingAnnounced ==
  ASSUME Shape, Next, ~\E t \in Turns : Register(t)
  PROVE  FeedCarries
<1>1. wire \in Seq(Told) /\ \A i \in DOMAIN wire : i \in Nat /\ i + 0 = i
  BY DEF Shape, FeedShape
<1>2. CASE wire' = wire
  BY <1>2, SameFeed DEF Shape
<1>3. CASE wire' = <<>>
  BY <1>3 DEF FeedCarries
<1>4. CASE wire /= <<>> /\ wire' = Tail(wire)
  <2>1. \A i \in DOMAIN wire' : i + 1 \in DOMAIN wire /\ wire'[i] = wire[i + 1]
    BY <1>1, <1>4
  <2> QED BY <2>1 DEF FeedCarries
<1>5. CASE wire' = <<Event("resync", 0)>>
  <2>1. \A i \in DOMAIN wire' : wire'[i].type = "resync"
    BY <1>5 DEF Event
  <2> QED BY <2>1 DEF FeedCarries
<1>6. CASE wire' = Append(wire, Event("chat_removed", 0))
  <2>1. \A i \in DOMAIN wire' : (i \in DOMAIN wire /\ wire'[i] = wire[i + 0])
                                \/ wire'[i] = Event("chat_removed", 0)
    BY <1>1, <1>6
  <2>2. Event("chat_removed", 0).type = "chat_removed"
    BY DEF Event
  <2>3. \A i \in DOMAIN wire' :
           wire'[i].type = "turn_started" => i + 0 \in DOMAIN wire /\ wire'[i] = wire[i + 0]
    BY <1>1, <2>1, <2>2
  <2> QED BY <2>3 DEF FeedCarries
<1>7. CASE Restart \/ CutFeed \/ Detach \/ Subscribe \/ OnEvent
  BY <1>2, <1>3, <1>4, <1>5, <1>6, <1>7 DEF Restart, CutFeed, Detach, Subscribe, OnEvent, Ignore,
     OnMessage, OnTurnStarted, OnReload, OnRemoved, Receive
<1>8. ASSUME \/ StartElsewhere \/ AnswerResume \/ AttachAnswered \/ TakeThread \/ RemoveMember
             \/ LoadPage \/ Send \/ EditMessage \/ Shows \/ CheckAccess \/ Reconnect \/ Mount
             \/ \E t \in Turns : Start(t) \/ SaveReply(t) \/ EndTurn(t) \/ GraceExpires(t)
             \/ \E p \in posts : Refused(p)
             \/ \E s \in streams : ReadEvent(s) \/ ReadEnd(s) \/ ReadBroken(s)
      PROVE  wire' = wire
  BY <1>8 DEF StartElsewhere, AnswerResume, AttachAnswered, AnswerAttach, TakeThread,
       RemoveMember, LoadPage, Send, EditMessage, Shows, ShowThread, ShowEarlier, Show,
       CheckAccess, Reconnect, Mount, Start, SaveReply, EndTurn, GraceExpires, Refused,
       ReadEvent, ReadEnd, ReadBroken, StopReading, feed
<1> QED BY <1>2, <1>7, <1>8 DEF Next, Server, Answers, AttachAnswered, Faults, Person, Browser,
     Shows

\* Unless the tab is told of a turn: keys come into use only with the turns it
\* asks for and the page's own request, and announcements stay as they were.
LEMMA KeysCarry ==
  ASSUME Shape, KeyInv, Next, FeedCarries,
         KeysInUse' \subseteq KeysInUse \cup mine' \cup {0, ResumeKey}
  PROVE  KnownKeys' /\ AskedOnce' /\ Announcements'
<1> USE TurnsAndKeys
<1>1. /\ mine \subseteq mine' /\ AskedOnce'
      /\ \A t \in Turns : Registered(t) => Registered(t)'
      /\ \A t \in Turns : t \in mine' \ mine => ~Registered(t)
  BY Progress DEF KeyInv
<1>2. KnownKeys'
  BY <1>1 DEF KeyInv, KnownKeys
<1>3. PICK d \in {0, 1} : \A i \in DOMAIN wire' :
         wire'[i].type = "turn_started" => i + d \in DOMAIN wire /\ wire'[i] = wire[i + d]
  BY DEF FeedCarries
<1>4. wire \in Seq(Told) /\ wire' \in Seq(Told)
  BY FeedStep DEF Shape, FeedShape
<1>5. \A i \in DOMAIN wire : wire[i].type = "turn_started" => wire[i].turn \in Turns
  <2>1. \A i \in DOMAIN wire : wire[i] \in Told
    BY <1>4
  <2> QED BY <2>1 DEF Told
<1>6. \A t \in Turns :
         t \notin mine /\ Registered(t) /\ t \notin KeysInUse
         => /\ t \notin mine' /\ t \notin KeysInUse'
            /\ phase'[t] \notin {"none", "posted", "starting"}
  BY <1>1 DEF Registered
<1>7. Announcements'
  <2> SUFFICES ASSUME NEW i \in DOMAIN wire', wire'[i].type = "turn_started"
               PROVE  /\ wire'[i].turn \notin mine'
                      /\ phase'[wire'[i].turn] \notin {"none", "posted", "starting"}
                      /\ wire'[i].turn \notin KeysInUse'
                      /\ \A j \in DOMAIN wire' :
                            wire'[j].type = "turn_started" /\ wire'[j].turn = wire'[i].turn
                            => i = j
    BY DEF Announcements, Registered
  <2> DEFINE t == wire'[i].turn
  <2>1. i + d \in DOMAIN wire /\ wire[i + d].type = "turn_started" /\ wire[i + d].turn = t
    BY <1>3
  <2>2. t \in Turns
    BY <1>5, <2>1
  <2>3. /\ t \notin mine /\ Registered(t) /\ t \notin KeysInUse
        /\ \A j \in DOMAIN wire : wire[j].type = "turn_started" /\ wire[j].turn = t => i + d = j
    BY <2>1 DEF KeyInv, Announcements
  <2>4. /\ t \notin mine' /\ t \notin KeysInUse'
        /\ phase'[t] \notin {"none", "posted", "starting"}
    BY <1>6, <2>2, <2>3
  <2>5. ASSUME NEW j \in DOMAIN wire', wire'[j].type = "turn_started", wire'[j].turn = t
        PROVE  i = j
    <3>1. j + d \in DOMAIN wire /\ wire[j + d].type = "turn_started" /\ wire[j + d].turn = t
      BY <1>3, <2>5
    <3>2. i + d = j + d
      BY <2>3, <3>1
    <3>3. i \in Nat /\ j \in Nat
      BY <1>4
    <3> QED BY <3>2, <3>3
  <2> QED BY <2>4, <2>5
<1> QED BY <1>1, <1>2, <1>7

\* The tab's own half of KeyInv.
TabKeys == ResumeFree /\ OwnPosts /\ AttachApart /\ StreamsApart /\ SnapFree

\* What is loaded has no key.
LEMMA SnapKeys ==
  ASSUME Shape, SnapFree, Next
  PROVE  SnapFree'
<1>1. TabShape /\ ServerShape
  BY DEF Shape
<1> SUFFICES ASSUME NEW a \in Answered'
             PROVE  \A i \in DOMAIN a.snap : a.snap[i].key = 0
  BY DEF SnapFree
<1>2. CASE a \in Answered
  BY <1>2 DEF SnapFree
<1>3. CASE a = NoReload
  BY <1>3 DEF NoReload
<1>4. CASE TakeThread /\ a = reload'
  <2>1. a.snap = Loaded(rows) \/ a.snap = <<>>
    BY <1>4, TakenIs
  <2> QED BY <1>1, <2>1, LoadedBubbles
<1> QED BY <1>1, <1>2, <1>3, <1>4, AnsweredStep

\* Requests and streams that end, bubbles that change nothing of their keys.
LEMMA FewerKeys ==
  ASSUME TabShape, TabKeys, mine' = mine, streams' \subseteq streams, posts' \subseteq posts,
         attach' \subseteq attach, SnapFree',
         \A i \in DOMAIN shown' : \/ shown'[i].key = 0
                                  \/ \E j \in DOMAIN shown : shown'[i].key = shown[j].key,
         \/ page' = page /\ resume' \in {resume, "none"}
         \/ page' = "loaded" /\ resume' = resume /\ page = "closed"
         \/ page = "loaded" /\ page' = "mounted" /\ resume' = "asked"
  PROVE  TabKeys' /\ KeysInUse' \subseteq KeysInUse \cup {0}
<1> USE TurnsAndKeys
<1>1. KeysInUse' \subseteq KeysInUse \cup {0}
  BY DEF KeysInUse
<1>2. ResumeFree'
  BY <1>1 DEF TabKeys, ResumeFree
<1>3. OwnPosts' /\ StreamsApart'
  BY DEF TabKeys, OwnPosts, StreamsApart
<1>4. AttachApart'
  <2>1. \A t \in attach : t # 0
    BY DEF TabShape
  <2> QED BY <2>1 DEF TabKeys, AttachApart
<1> QED BY <1>1, <1>2, <1>3, <1>4 DEF TabKeys

\* An entry of two sequences joined is an entry of one of them.
LEMMA JoinedEntries ==
  ASSUME NEW T, NEW p \in Seq(T), NEW q \in Seq(T)
  PROVE  \A i \in DOMAIN (p \o q) :
            \/ i \in DOMAIN p /\ (p \o q)[i] = p[i]
            \/ i - Len(p) \in DOMAIN q /\ (p \o q)[i] = q[i - Len(p)]
<1>1. /\ Len(p) \in Nat /\ Len(q) \in Nat
      /\ p \o q \in Seq(T) /\ Len(p \o q) = Len(p) + Len(q)
      /\ \A i \in 1 .. Len(p) + Len(q) :
            (p \o q)[i] = IF i <= Len(p) THEN p[i] ELSE q[i - Len(p)]
  BY ConcatProperties
<1>2. SUFFICES ASSUME NEW i \in 1 .. Len(p) + Len(q)
               PROVE  \/ i \in DOMAIN p /\ (p \o q)[i] = p[i]
                      \/ i - Len(p) \in DOMAIN q /\ (p \o q)[i] = q[i - Len(p)]
  BY <1>1
<1>3. CASE i <= Len(p)
  BY <1>1, <1>3
<1>4. CASE i > Len(p)
  <2>1. i - Len(p) \in DOMAIN q /\ (p \o q)[i] = q[i - Len(p)]
    BY <1>1, <1>4
  <2> QED BY <2>1
<1> QED BY <1>1, <1>3, <1>4

\* The steps that bring no key into use.
LEMMA QuietKeys ==
  ASSUME Shape, KeyInv, Next,
         ~\E t \in Turns : Register(t), ~(Send \/ EditMessage), ~OnTurnStarted,
         ~(AnswerResume /\ Resumable # 0), ~(AttachAnswered /\ Resumable # 0),
         ~\E s \in streams : ReadEvent(s)
  PROVE  TabKeys' /\ KeysInUse' \subseteq KeysInUse \cup {0}
<1> DEFINE Goal == TabKeys' /\ KeysInUse' \subseteq KeysInUse \cup {0}
<1> DEFINE Bubbling == \A i \in DOMAIN shown' : \/ shown'[i].key = 0
                                  \/ \E j \in DOMAIN shown : shown'[i].key = shown[j].key
           Paging == \/ page' = page /\ resume' \in {resume, "none"}
                     \/ page' = "loaded" /\ resume' = resume /\ page = "closed"
                     \/ page = "loaded" /\ page' = "mounted" /\ resume' = "asked"
           Rest == /\ mine' = mine /\ streams' \subseteq streams /\ posts' \subseteq posts
                   /\ attach' \subseteq attach
<1>1. TabShape /\ ServerShape /\ TabKeys /\ SnapFree /\ SnapFree'
  BY SnapKeys DEF Shape, KeyInv, TabKeys
<1>2. ASSUME Bubbling, Paging, Rest
      PROVE  Goal
  BY <1>1, <1>2, FewerKeys
<1>3. ASSUME UNCHANGED shown PROVE Bubbling
  BY <1>3
<1>5. ASSUME \/ LoadPage \/ Mount \/ Restart \/ OnRemoved \/ TakeThread \/ Shows \/ OnMessage
             \/ OnReload \/ AnswerResume \/ AttachAnswered
             \/ \E p \in posts : Refused(p)
             \/ \E s \in streams : ReadEnd(s) \/ ReadBroken(s)
      PROVE  Paging /\ Rest
  <2>1. CASE LoadPage \/ Mount \/ Restart
    BY <2>1 DEF LoadPage, Mount, Restart, server
  <2>2. CASE OnRemoved \/ TakeThread \/ Shows \/ OnMessage \/ OnReload
    BY <2>2 DEF OnRemoved, TakeThread, Shows, ShowThread, ShowEarlier, Show, OnMessage, OnReload,
         server
  <2>3. CASE AnswerResume \/ AttachAnswered
    BY <2>3 DEF AnswerResume, AttachAnswered, AnswerAttach, server
  <2>4. CASE (\E p \in posts : Refused(p)) \/ (\E s \in streams : ReadEnd(s) \/ ReadBroken(s))
    BY <2>4 DEF Refused, ReadEnd, ReadBroken, StopReading, server
  <2> QED BY <1>5, <2>1, <2>2, <2>3, <2>4
<1>6. ASSUME LoadPage
      PROVE  Bubbling
  <2>1. shown' = Loaded(rows)
    BY <1>6 DEF LoadPage
  <2>2. \A i \in DOMAIN shown' : shown'[i].key = 0
    BY <1>1, <2>1, LoadedBubbles
  <2> QED BY <2>2
<1>7. ASSUME \/ Mount \/ Restart \/ OnRemoved \/ OnReload \/ TakeThread
             \/ (AnswerResume \/ AttachAnswered) /\ Resumable = 0
      PROVE  Bubbling
  <2>1. UNCHANGED shown
    BY <1>7 DEF Mount, Restart, OnRemoved, OnReload, TakeThread, AnswerResume, AttachAnswered,
         AnswerAttach
  <2> HIDE DEF Bubbling
  <2> QED BY <1>3, <2>1
<1>9. ASSUME Shows
      PROVE  Bubbling
  <2>1. PICK a \in Answered : shown' = shown \/ shown' = a.snap \o Live
    BY <1>9, ShowsIs
  <2>2. CASE shown' = a.snap \o Live
    <3>1. a \in Answer
      BY <1>1 DEF Answered, TabShape
    <3>2. a.snap \in Seq(LooseBubbles) /\ Live \in Seq(LooseBubbles)
      BY <1>1, <3>1, LiveBubbles DEF Answer
    <3>3. \A i \in DOMAIN shown' : \/ \E k \in DOMAIN a.snap : shown'[i] = a.snap[k]
                                   \/ \E k \in DOMAIN Live : shown'[i] = Live[k]
      BY <2>2, <3>2, JoinedEntries
    <3>4. \A k \in DOMAIN a.snap : a.snap[k].key = 0
      BY <1>1 DEF SnapFree
    <3> QED BY <1>1, <3>3, <3>4, LiveFrom
  <2>3. CASE shown' = shown
    BY <1>3, <2>3
  <2> QED BY <2>1, <2>2, <2>3
<1>10. ASSUME OnMessage
       PROVE  Bubbling
  <2>2. shown' = shown \/ shown' = Append(shown, Bubble("user", Ev.turn, 0, TRUE, 0))
    BY <1>10 DEF OnMessage, WithBubble
  <2> DEFINE b == Bubble("user", Ev.turn, 0, TRUE, 0)
  <2>3. b.key = 0 /\ shown \in Seq(LooseBubbles)
    BY <1>1 DEF Bubble, TabShape
  <2> HIDE DEF b
  <2>4. \A i \in DOMAIN Append(shown, b) :
           (i \in DOMAIN shown /\ Append(shown, b)[i] = shown[i]) \/ Append(shown, b)[i] = b
    BY <2>3
  <2>5. shown' = shown \/ shown' = Append(shown, b)
    BY <2>2 DEF b
  <2> QED BY <2>3, <2>4, <2>5
<1>11. ASSUME NEW k, shown' = [i \in DOMAIN shown |->
                      IF shown[i].key = k THEN [shown[i] EXCEPT !.key = 0] ELSE shown[i]]
       PROVE  Bubbling
  <2>1. \A i \in DOMAIN shown : shown[i] \in LooseBubbles
    BY <1>1 DEF TabShape
  <2> QED BY <1>11, <2>1 DEF LooseBubbles
<1>12. ASSUME \/ \E p \in posts : Refused(p)
              \/ \E s \in streams : ReadEnd(s) \/ ReadBroken(s)
       PROVE  Bubbling
  <2>2. \E k \in Nat \cup Keys : shown' = [i \in DOMAIN shown |->
                      IF shown[i].key = k THEN [shown[i] EXCEPT !.key = 0] ELSE shown[i]]
    <3>1. CASE \E p \in posts : Refused(p)
      BY <1>1, <3>1 DEF Refused, TabShape, Post
    <3>2. CASE \E s \in streams : ReadEnd(s) \/ ReadBroken(s)
      BY <1>1, <3>2 DEF ReadEnd, ReadBroken, StopReading, TabShape, Stream
    <3> QED BY <1>12, <3>1, <3>2
  <2> HIDE DEF Bubbling
  <2> QED BY <1>11, <2>2
<1>13. ASSUME UNCHANGED tab, UNCHANGED mine
       PROVE  Goal
  <2>1. Paging /\ Rest /\ UNCHANGED shown
    BY <1>13 DEF tab
  <2> QED BY <1>2, <1>3, <2>1
<1>14. ASSUME \/ StartElsewhere \/ CheckAccess \/ Subscribe \/ CutFeed \/ RemoveMember \/ Detach
              \/ Reconnect \/ Ignore
              \/ \E t \in Turns : Start(t) \/ SaveReply(t) \/ EndTurn(t) \/ GraceExpires(t)
       PROVE  UNCHANGED tab /\ UNCHANGED mine
  BY <1>14 DEF StartElsewhere, CheckAccess, Subscribe, CutFeed, RemoveMember, Detach, Reconnect,
       Ignore, Start, SaveReply, EndTurn, GraceExpires, server
<1> HIDE DEF Goal, Bubbling, Paging, Rest
<1>15. Goal
  BY <1>2, <1>5, <1>6, <1>7, <1>9, <1>10, <1>12, <1>13, <1>14
  DEF Next, Server, Answers, AttachAnswered, Faults, Person, Browser, Shows, OnEvent
<1> QED BY <1>15 DEF Goal

\* A turn that registers: the tab's request becomes its stream, or the tab is told.
LEMMA RegisterKeys ==
  ASSUME Shape, KeyInv, Next, NEW t \in Turns, Register(t)
  PROVE  KeyInv'
<1> USE TurnsAndKeys
<1>1. TabShape /\ ServerShape /\ FeedShape
  BY DEF Shape
<1>2. /\ phase[t] = "starting"
      /\ UNCHANGED <<mine, page, shown, resume, attach>>
  BY DEF Register
<1>3. KeysInUse' \subseteq KeysInUse /\ OwnPosts' /\ StreamsApart'
  <2>1. CASE Active
    BY <1>2, <2>1 DEF Register, KeysInUse, KeyInv, OwnPosts, StreamsApart
  <2>2. CASE ~Active
    <3>1. /\ posts' = {p \in posts : p.turn /= t}
          /\ streams' = streams \cup {[key |-> p.key, turn |-> t, pos |-> 0] :
                                         p \in {q \in posts : q.turn = t}}
      BY <2>2 DEF Register
    <3>2. ASSUME NEW s \in streams', s \notin streams
          PROVE  s.key = t /\ s.pos = 0 /\ s.turn = t /\ \E p \in posts : p.key = t
      BY <3>1, <3>2 DEF KeyInv, OwnPosts
    <3>3. \A s \in streams' : s \in streams \/ s = [key |-> t, turn |-> t, pos |-> 0]
      BY <3>1 DEF KeyInv, OwnPosts
    <3>4. KeysInUse' \subseteq KeysInUse
      BY <1>2, <3>1, <3>2 DEF KeysInUse
    <3>5. OwnPosts' /\ \A p \in posts' : p.key /= t
      BY <1>2, <3>1 DEF KeyInv, OwnPosts
    <3>6. StreamsApart'
      BY <3>1, <3>2, <3>3, <3>5 DEF KeyInv, StreamsApart
    <3> QED BY <3>4, <3>5, <3>6
  <2> QED BY <2>1, <2>2
<1>4. ResumeFree' /\ SnapFree'
  BY <1>2, <1>3, SnapKeys DEF KeyInv, ResumeFree
<1>5. AttachApart'
  <2>1. \A s \in streams' : s \in streams \/ s.key \in mine
    BY <1>2 DEF Register, KeyInv, OwnPosts
  <2> QED BY <1>2, <2>1 DEF KeyInv, AttachApart
<1>6. /\ AskedOnce'
      /\ \A u \in Turns : Registered(u) => Registered(u)'
  BY Progress DEF KeyInv
<1>7. KnownKeys'
  BY <1>2, <1>3, <1>6 DEF KeyInv, KnownKeys
<1>8. Announcements'
  <2> DEFINE m == Event(IF target[t] = 0 THEN "message" ELSE "thread_changed", t)
             s == Event("turn_started", t)
  <2>1. \A i \in DOMAIN wire : wire[i].type = "turn_started" => wire[i].turn \in Turns
    <3>1. \A i \in DOMAIN wire : wire[i] \in Told
      BY <1>1 DEF FeedShape
    <3> QED BY <3>1 DEF Told
  <2>2. \A u \in Turns : u \notin mine /\ Registered(u) /\ u \notin KeysInUse
           => /\ u \notin mine' /\ u \notin KeysInUse'
              /\ phase'[u] \notin {"none", "posted", "starting"}
    BY <1>2, <1>3, <1>6 DEF Registered
  <2>3. CASE wire' = wire
    BY <2>1, <2>2, <2>3 DEF KeyInv, Announcements, Registered
  <2>4. CASE wire' # wire
    <3>1. t \notin mine /\ ~Active /\ wire' = wire \o <<m, s>>
      BY <2>4 DEF Register, PublishToChat
    <3>2. phase'[t] = "running"
      BY <1>1, <3>1 DEF Register, ServerShape
    <3>3. t \notin KeysInUse /\ ~Registered(t)
      BY <1>2, <3>1 DEF KeyInv, KnownKeys, Registered
    <3>4. m \in Told /\ s \in Told /\ m.type # "turn_started" /\ s.type = "turn_started"
          /\ s.turn = t
      BY DEF Event, Told
    <3> HIDE DEF m, s
    <3>5. wire \in Seq(Told) /\ <<m, s>> \in Seq(Told)
      BY <1>1, <3>4 DEF FeedShape
    <3>6. Len(wire') = Len(wire) + 2 /\ DOMAIN wire' = 1..Len(wire')
      BY <3>1, <3>5, ConcatProperties
    <3>7. \A i \in 1..(Len(wire) + 2) :
             wire'[i] = IF i <= Len(wire) THEN wire[i] ELSE <<m, s>>[i - Len(wire)]
      BY <3>1, <3>5, ConcatProperties
    <3>8. /\ wire'[Len(wire) + 1] = m
          /\ wire'[Len(wire) + 2] = s
          /\ Len(wire) \in Nat /\ DOMAIN wire = 1..Len(wire)
      BY <3>5, <3>7
    <3>9. \A i \in DOMAIN wire' : wire'[i].type = "turn_started" =>
             \/ i \in DOMAIN wire /\ wire'[i] = wire[i] /\ wire'[i].turn # t
             \/ i = Len(wire) + 2 /\ wire'[i].turn = t
      <4> SUFFICES ASSUME NEW i \in DOMAIN wire', wire'[i].type = "turn_started"
                   PROVE  \/ i \in DOMAIN wire /\ wire'[i] = wire[i] /\ wire'[i].turn # t
                          \/ i = Len(wire) + 2 /\ wire'[i].turn = t
        OBVIOUS
      <4>1. CASE i <= Len(wire)
        <5>1. i \in DOMAIN wire /\ wire'[i] = wire[i]
          BY <3>6, <3>7, <3>8, <4>1
        <5>2. Registered(wire[i].turn)
          BY <5>1 DEF KeyInv, Announcements
        <5> QED BY <3>3, <5>1, <5>2
      <4>2. CASE i > Len(wire)
        BY <3>4, <3>6, <3>8, <4>2
      <4> QED BY <3>6, <3>8, <4>1, <4>2
    <3>10. t \notin mine' /\ t \notin KeysInUse'
      BY <1>2, <1>3, <3>1, <3>3
    <3> QED BY <2>1, <2>2, <3>2, <3>9, <3>10 DEF KeyInv, Announcements, Registered
  <2> QED BY <2>3, <2>4
<1> QED BY <1>3, <1>4, <1>5, <1>6, <1>7, <1>8 DEF KeyInv

\* A turn the tab asks for brings its own, unused key.
LEMMA AskKeys ==
  ASSUME Shape, KeyInv, Next, Send \/ EditMessage
  PROVE  KeyInv'
<1> USE TurnsAndKeys
<1>1. TabShape
  BY DEF Shape
<1>2. PICK t \in Turns :
         /\ NextTurn(t) /\ mine' = mine \cup {t}
         /\ \A i \in DOMAIN shown' : \/ i \in DOMAIN shown /\ shown'[i] = shown[i]
                                     \/ shown'[i] = Bubble("user", t, 0, FALSE, 0)
                                     \/ shown'[i] = Bubble("reply", t, t, FALSE, 0)
         /\ posts' = posts \cup {[key |-> t, turn |-> t]}
         /\ page = "mounted"
         /\ UNCHANGED <<page, streams, resume, attach>>
  BY Asking
<1>3. t \notin KeysInUse
  BY <1>2 DEF NextTurn, Unused, KeyInv, KnownKeys, AskedOnce, Registered
<1>4. \A i \in DOMAIN shown' : \/ i \in DOMAIN shown /\ shown'[i] = shown[i]
                               \/ shown'[i].key = 0
                               \/ shown'[i].key = t
  BY <1>2 DEF Bubble
<1>5. KeysInUse' \subseteq KeysInUse \cup {0, t}
  BY <1>2, <1>4 DEF KeysInUse
<1>6. FeedCarries
  BY SameFeed DEF Shape, Send, EditMessage, feed
<1>7. KnownKeys' /\ AskedOnce' /\ Announcements'
  BY <1>2, <1>5, <1>6, KeysCarry
<1>8. ResumeFree' /\ SnapFree'
  BY <1>2, <1>5, SnapKeys DEF KeyInv, ResumeFree
<1>9. OwnPosts'
  BY <1>2 DEF KeyInv, OwnPosts
<1>10. AttachApart'
  <2>1. \A u \in attach : u \in Turns /\ u # t
    BY <1>1, <1>3 DEF TabShape, KeysInUse
  <2> QED BY <1>2, <1>4, <2>1 DEF KeyInv, AttachApart
<1>11. StreamsApart'
  <2>1. \A s \in streams : s.key # t
    BY <1>3 DEF KeysInUse
  <2> QED BY <1>2, <2>1 DEF KeyInv, StreamsApart
<1> QED BY <1>7, <1>8, <1>9, <1>10, <1>11 DEF KeyInv

\* A stream takes over a key that no stream, request or bubble uses.
LEMMA FollowKeys ==
  ASSUME Shape, KeyInv, NEW t \in Turns, NEW k \in Keys, Follow(t, k),
         \A s \in streams : s.key # k, \A p \in posts : p.key # k, UNCHANGED posts
  PROVE  /\ StreamsApart'
         /\ \A s \in streams' : s \in streams \/ s.key = k
         /\ \A i \in DOMAIN shown' : (i \in DOMAIN shown /\ shown'[i] = shown[i])
                                     \/ shown'[i].key = k
<1> DEFINE b == Bubble("reply", t, k, FALSE, 0)
<1>1. shown' = Append(shown, b) /\ streams' = streams \cup {[key |-> k, turn |-> t, pos |-> 0]}
  BY DEF Follow
<1>2. b \in LooseBubbles /\ b.key = k
  BY TurnsAndKeys DEF Bubble, LooseBubbles
<1> HIDE DEF b
<1>3. \A i \in DOMAIN shown' : (i \in DOMAIN shown /\ shown'[i] = shown[i]) \/ shown'[i].key = k
  BY <1>1, <1>2, BubbleAdded DEF Shape
<1>4. StreamsApart'
  BY <1>1 DEF KeyInv, StreamsApart
<1> QED BY <1>1, <1>3, <1>4

\* The page's own request to resume becomes a stream with the page's key.
LEMMA ResumeKeys ==
  ASSUME Shape, KeyInv, Next, AnswerResume, Resumable # 0
  PROVE  KeyInv'
<1> USE TurnsAndKeys
<1>1. TabShape /\ Resumable \in Turns
  BY DEF Shape, Resumable, ServerShape, Turns
<1>2. /\ Follow(Resumable, ResumeKey) /\ resume = "asked" /\ resume' = "none"
      /\ UNCHANGED <<mine, page, posts, attach>>
  BY DEF AnswerResume, server
<1>3. ResumeKey \notin KeysInUse /\ page = "mounted"
  BY <1>2 DEF KeyInv, ResumeFree
<1>4. /\ StreamsApart'
      /\ \A s \in streams' : s \in streams \/ s.key = ResumeKey
      /\ \A i \in DOMAIN shown' : (i \in DOMAIN shown /\ shown'[i] = shown[i])
                                  \/ shown'[i].key = ResumeKey
  <2>1. (\A s \in streams : s.key # ResumeKey) /\ (\A p \in posts : p.key # ResumeKey)
    BY <1>3 DEF KeysInUse
  <2> QED BY <1>1, <1>2, <2>1, FollowKeys
<1>5. KeysInUse' \subseteq KeysInUse \cup {ResumeKey}
  BY <1>2, <1>4 DEF KeysInUse
<1>6. FeedCarries
  BY SameFeed DEF Shape, AnswerResume, feed
<1>7. KnownKeys' /\ AskedOnce' /\ Announcements'
  BY <1>5, <1>6, KeysCarry
<1>8. ResumeFree' /\ SnapFree' /\ OwnPosts'
  BY <1>2, <1>3, SnapKeys DEF KeyInv, ResumeFree, OwnPosts
<1>9. AttachApart'
  <2>1. ResumeKey \notin attach
    BY <1>3 DEF KeysInUse
  <2> QED BY <1>2, <1>4, <2>1 DEF KeyInv, AttachApart
<1> QED BY <1>4, <1>7, <1>8, <1>9 DEF KeyInv

\* A request to attach becomes a stream with the request's key.
LEMMA AttachKeys ==
  ASSUME Shape, KeyInv, Next, NEW t \in Turns, AnswerAttach(t), Resumable # 0
  PROVE  KeyInv'
<1> USE TurnsAndKeys
<1>1. TabShape /\ Resumable \in Turns
  BY DEF Shape, Resumable, ServerShape, Turns
<1>2. /\ Follow(Resumable, t) /\ t \in attach /\ attach' = attach \ {t}
      /\ UNCHANGED <<mine, page, posts, resume>>
  BY DEF AnswerAttach, server
<1>3. t \in Keys /\ t \in KeysInUse
  BY <1>1, <1>2 DEF KeysInUse
<1>4. /\ StreamsApart'
      /\ \A s \in streams' : s \in streams \/ s.key = t
      /\ \A i \in DOMAIN shown' : (i \in DOMAIN shown /\ shown'[i] = shown[i])
                                  \/ shown'[i].key = t
  <2>1. (\A s \in streams : s.key # t) /\ (\A p \in posts : p.key # t)
    BY <1>2, <1>3 DEF KeyInv, AttachApart, OwnPosts
  <2> QED BY <1>1, <1>2, <1>3, <2>1, FollowKeys
<1>5. KeysInUse' \subseteq KeysInUse
  BY <1>2, <1>3, <1>4 DEF KeysInUse
<1>6. FeedCarries
  BY SameFeed DEF Shape, AnswerAttach, feed
<1>7. KnownKeys' /\ AskedOnce' /\ Announcements'
  BY <1>5, <1>6, KeysCarry
<1>8. ResumeFree' /\ SnapFree' /\ OwnPosts'
  BY <1>2, <1>5, SnapKeys DEF KeyInv, ResumeFree, OwnPosts
<1>9. AttachApart'
  BY <1>2, <1>4 DEF KeyInv, AttachApart
<1> QED BY <1>4, <1>7, <1>8, <1>9 DEF KeyInv

\* Reading moves a stream on and leaves it its key.
LEMMA ReadKeys ==
  ASSUME Shape, KeyInv, Next, NEW s \in streams, ReadEvent(s)
  PROVE  KeyInv'
<1> USE TurnsAndKeys
<1> DEFINE n == [s EXCEPT !.pos = @ + 1]
<1>1. TabShape /\ s \in Stream
  BY DEF Shape, TabShape
<1>2. /\ streams' = (streams \ {s}) \cup {n}
      /\ UNCHANGED <<mine, page, posts, resume, attach, wire>>
  BY DEF ReadEvent, server, feed
<1>3. n.key = s.key
  BY <1>1 DEF Stream
<1>4. \A k \in DOMAIN shown' : \E i \in DOMAIN shown : shown'[k].key = shown[i].key
  <2>1. shown' = AfterEvent(s)
    BY DEF ReadEvent
  <2>2. \A i \in DOMAIN shown : shown[i] \in LooseBubbles
    BY <1>1 DEF TabShape
  <2> SUFFICES ASSUME NEW k \in DOMAIN shown'
               PROVE  \E i \in DOMAIN shown : shown'[k].key = shown[i].key
    OBVIOUS
  <2>3. PICK i \in DOMAIN shown : \/ shown'[k] = shown[i]
                                  \/ shown'[k] = [shown[i] EXCEPT !.known = TRUE]
                                  \/ shown'[k] = [shown[i] EXCEPT !.text = @ + 1]
    BY <1>1, <2>1, EventFrom
  <2> QED BY <2>2, <2>3 DEF LooseBubbles
<1> HIDE DEF n
<1>5. KeysInUse' \subseteq KeysInUse
  BY <1>2, <1>3, <1>4 DEF KeysInUse
<1>6. FeedCarries
  BY <1>2, SameFeed DEF Shape
<1>7. KnownKeys' /\ AskedOnce' /\ Announcements'
  BY <1>5, <1>6, KeysCarry
<1>8. ResumeFree' /\ SnapFree' /\ OwnPosts'
  BY <1>2, <1>5, SnapKeys DEF KeyInv, ResumeFree, OwnPosts
<1>9. AttachApart'
  BY <1>2, <1>3, <1>4 DEF KeyInv, AttachApart
<1>10. StreamsApart'
  BY <1>2, <1>3 DEF KeyInv, StreamsApart
<1> QED BY <1>7, <1>8, <1>9, <1>10 DEF KeyInv

\* The tab attaches to the turn it is told of, unless it holds another reply.
LEMMA ToldKeys ==
  ASSUME Shape, KeyInv, Next, OnTurnStarted
  PROVE  KeyInv'
<1> USE TurnsAndKeys
<1> DEFINE t == Ev.turn
<1>1. TabShape /\ wire \in Seq(Told)
  BY DEF Shape, FeedShape
<1>2. /\ wire /= <<>> /\ wire[1].type = "turn_started" /\ wire[1].turn = t /\ 1 \in DOMAIN wire
      /\ wire' = Tail(wire)
      /\ UNCHANGED <<mine, phase, page, shown, streams, posts, resume>>
  BY <1>1 DEF OnTurnStarted, Receive, Ev, server
<1>3. t \in Turns /\ t \notin mine /\ Registered(t) /\ t \notin KeysInUse
  <2>1. wire[1] \in Told
    BY <1>1, <1>2
  <2>2. wire[1].turn \in Turns
    BY <1>2, <2>1 DEF Told
  <2> QED BY <1>2, <2>2 DEF KeyInv, Announcements
<1>4. \/ attach' = attach
      \/ attach' = attach \cup {t}
  BY DEF OnTurnStarted
<1> HIDE DEF t
<1>5. KeysInUse' \subseteq KeysInUse \cup {t}
  BY <1>2, <1>4 DEF KeysInUse
<1>6. \A u \in Turns : Registered(u)' <=> Registered(u)
  BY <1>2 DEF Registered
<1>7. KnownKeys' /\ AskedOnce'
  BY <1>2, <1>3, <1>5, <1>6 DEF KeyInv, KnownKeys, AskedOnce
<1>8. ResumeFree' /\ OwnPosts' /\ StreamsApart' /\ SnapFree'
  BY <1>2, <1>3, <1>5, SnapKeys DEF KeyInv, ResumeFree, OwnPosts, StreamsApart
<1>9. AttachApart'
  <2>1. CASE attach' = attach
    BY <1>2, <2>1 DEF KeyInv, AttachApart
  <2>2. CASE attach' = attach \cup {t}
    <3>1. (\A s \in streams : s.key # t) /\ (\A i \in DOMAIN shown : shown[i].key # t)
      BY <1>3 DEF KeysInUse
    <3> QED BY <1>2, <1>3, <2>2, <3>1 DEF KeyInv, AttachApart
  <2> QED BY <1>4, <2>1, <2>2
<1>10. Announcements'
  <2>1. \A i \in DOMAIN wire' : i + 1 \in DOMAIN wire /\ i + 1 # 1 /\ i \in Nat
                                /\ wire'[i] = wire[i + 1]
    BY <1>1, <1>2
  <2>2. \A i \in DOMAIN wire : wire[i].type = "turn_started" =>
           /\ wire[i].turn \in Turns /\ wire[i].turn \notin mine /\ Registered(wire[i].turn)
           /\ wire[i].turn \notin KeysInUse
           /\ wire[i].turn = t => i = 1
           /\ \A j \in DOMAIN wire :
                 wire[j].type = "turn_started" /\ wire[j].turn = wire[i].turn => i = j
    <3>1. \A i \in DOMAIN wire : wire[i] \in Told
      BY <1>1
    <3> QED BY <1>2, <3>1 DEF KeyInv, Announcements, Told
  <2>3. \A i \in DOMAIN wire' : wire'[i].type = "turn_started" =>
           /\ wire'[i].turn \in Turns \ KeysInUse /\ wire'[i].turn # t
           /\ wire'[i].turn \notin mine /\ Registered(wire[i + 1].turn)
           /\ \A j \in DOMAIN wire' :
                 wire'[j].type = "turn_started" /\ wire'[j].turn = wire'[i].turn
                 => i + 1 = j + 1
    BY <2>1, <2>2
  <2>4. \A i \in DOMAIN wire' : wire'[i].type = "turn_started" =>
           /\ wire'[i].turn \notin mine' /\ wire'[i].turn \notin KeysInUse'
           /\ phase'[wire'[i].turn] \notin {"none", "posted", "starting"}
           /\ \A j \in DOMAIN wire' :
                 wire'[j].type = "turn_started" /\ wire'[j].turn = wire'[i].turn => i = j
    BY <1>2, <1>5, <2>1, <2>3 DEF Registered
  <2> QED BY <2>4 DEF Announcements, Registered
<1> QED BY <1>7, <1>8, <1>9, <1>10 DEF KeyInv

\* The keys stay apart.
LEMMA KeyStep ==
  ASSUME Shape, KeyInv, Next
  PROVE  KeyInv'
<1>1. CASE \E t \in Turns : Register(t)
  BY <1>1, RegisterKeys
<1>2. CASE Send \/ EditMessage
  BY <1>2, AskKeys
<1>3. CASE OnTurnStarted
  BY <1>3, ToldKeys
<1>4. CASE AnswerResume /\ Resumable # 0
  BY <1>4, ResumeKeys
<1>5. CASE AttachAnswered /\ Resumable # 0
  BY <1>5, AttachKeys DEF AttachAnswered
<1>6. CASE \E s \in streams : ReadEvent(s)
  BY <1>6, ReadKeys
<1>7. CASE /\ ~\E t \in Turns : Register(t)
           /\ ~(Send \/ EditMessage) /\ ~OnTurnStarted
           /\ ~(AnswerResume /\ Resumable # 0) /\ ~(AttachAnswered /\ Resumable # 0)
           /\ ~\E s \in streams : ReadEvent(s)
  <2>1. TabKeys' /\ KeysInUse' \subseteq KeysInUse \cup {0}
    BY <1>7, QuietKeys
  <2>2. FeedCarries
    BY <1>7, NothingAnnounced
  <2>3. KnownKeys' /\ AskedOnce' /\ Announcements'
    BY <2>1, <2>2, KeysCarry
  <2> QED BY <2>1, <2>3 DEF KeyInv, TabKeys
<1> QED BY <1>1, <1>2, <1>3, <1>4, <1>5, <1>6, <1>7

-----------------------------------------------------------------------------
(* Text: what a bubble holds of the reply its stream is reading             *)

\* The text read of a reply after n of its events.
TextAt(n) == IF n = 0 THEN 0 ELSE IF n <= Deltas + 1 THEN n - 1 ELSE Deltas

StreamedText ==
    \A i \in DOMAIN shown, s \in streams : shown[i].key = s.key =>
        /\ shown[i].who = "reply" /\ shown[i].text = TextAt(s.pos)
        /\ shown[i].known => s.pos = Deltas + 2

AskedText ==
    \A i \in DOMAIN shown, p \in posts : shown[i].key = p.key =>
        shown[i].who = "reply" /\ shown[i].text = 0 /\ ~shown[i].known

PlainBubbles ==
    \A i \in DOMAIN shown :
        /\ shown[i].text <= Deltas
        /\ shown[i].who = "user" => shown[i].key = 0

SnapText ==
    \A a \in Answered : \A i \in DOMAIN a.snap :
        /\ a.snap[i].known /\ a.snap[i].text <= Deltas
        /\ a.snap[i].who = "reply" => a.snap[i].text = Deltas

TextInv == StreamedText /\ AskedText /\ PlainBubbles /\ SnapText /\ WholeReplies

\* A bubble that nothing writes any more, or yet.
Plain(b) == /\ b.key = 0 /\ b.text <= Deltas
            /\ b.who = "reply" /\ b.known => b.text = Deltas

\* What is loaded is whole.
LEMMA SnapTexts ==
  ASSUME Shape, SnapText, Next
  PROVE  SnapText'
<1>1. TabShape /\ ServerShape
  BY DEF Shape
<1> SUFFICES ASSUME NEW a \in Answered', NEW i \in DOMAIN a.snap
             PROVE  /\ a.snap[i].known /\ a.snap[i].text <= Deltas
                    /\ a.snap[i].who = "reply" => a.snap[i].text = Deltas
  BY DEF SnapText
<1>2. CASE a \in Answered
  BY <1>2 DEF SnapText
<1>3. CASE a = NoReload
  BY <1>3 DEF NoReload
<1>4. CASE TakeThread /\ a = reload'
  <2>1. a.snap = Loaded(rows)
    BY <1>4, TakenIs
  <2> QED BY <1>1, <2>1, LoadedBubbles, TurnsAndKeys
<1> QED BY <1>1, <1>2, <1>3, <1>4, AnsweredStep

\* Bubbles that are let go of or rewritten in a plain form, beside streams and
\* requests that may end.
LEMMA FewerBubbles ==
  ASSUME TabShape, TextInv, streams' \subseteq streams, posts' \subseteq posts,
         \A i \in DOMAIN shown' :
            (\E j \in DOMAIN shown : shown'[i] = shown[j]) \/ Plain(shown'[i]),
         SnapText'
  PROVE  TextInv'
<1> USE TurnsAndKeys
<1>1. (\A s \in streams : s.key # 0) /\ (\A p \in posts : p.key # 0)
  BY DEF TabShape, Stream, Post
<1>2. StreamedText'
  BY <1>1 DEF TextInv, StreamedText, Plain
<1>3. AskedText'
  BY <1>1 DEF TextInv, AskedText, Plain
<1>4. PlainBubbles'
  BY DEF TextInv, PlainBubbles, Plain
<1>5. WholeReplies'
  BY DEF TextInv, WholeReplies, Plain
<1> QED BY <1>2, <1>3, <1>4, <1>5 DEF TextInv

\* The steps in which no stream starts and none is read.
LEMMA QuietText ==
  ASSUME Shape, KeyInv, TextInv, Next,
         ~\E t \in Turns : Register(t), ~(Send \/ EditMessage),
         ~(AnswerResume /\ Resumable # 0), ~(AttachAnswered /\ Resumable # 0),
         ~\E s \in streams : ReadEvent(s)
  PROVE  TextInv'
<1> USE TurnsAndKeys
<1> DEFINE Bubbling == \A i \in DOMAIN shown' :
                          (\E j \in DOMAIN shown : shown'[i] = shown[j]) \/ Plain(shown'[i])
           Rest == streams' \subseteq streams /\ posts' \subseteq posts
           Goal == TextInv'
<1>1. /\ TabShape /\ ServerShape /\ SnapText /\ SnapText'
      /\ \A i \in DOMAIN shown : shown[i] \in LooseBubbles
  BY SnapTexts DEF Shape, TextInv, TabShape
<1>2. ASSUME Bubbling, Rest
      PROVE  Goal
  BY <1>1, <1>2, FewerBubbles
<1>3. ASSUME UNCHANGED shown PROVE Bubbling
  BY <1>3
<1>5. ASSUME \/ LoadPage \/ Mount \/ Restart \/ OnRemoved \/ TakeThread \/ Shows \/ OnMessage
             \/ OnTurnStarted \/ OnReload
             \/ (AnswerResume \/ AttachAnswered) /\ Resumable = 0
             \/ \E p \in posts : Refused(p)
             \/ \E s \in streams : ReadEnd(s) \/ ReadBroken(s)
      PROVE  Rest
  <2>1. CASE LoadPage \/ Mount \/ Restart \/ OnTurnStarted
    BY <2>1 DEF LoadPage, Mount, Restart, OnTurnStarted
  <2>2. CASE OnRemoved \/ TakeThread \/ Shows \/ OnMessage \/ OnReload
    BY <2>2 DEF OnRemoved, TakeThread, Shows, ShowThread, ShowEarlier, Show, OnMessage, OnReload
  <2>3. CASE (AnswerResume \/ AttachAnswered) /\ Resumable = 0
    BY <2>3 DEF AnswerResume, AttachAnswered, AnswerAttach
  <2>4. CASE (\E p \in posts : Refused(p)) \/ (\E s \in streams : ReadEnd(s) \/ ReadBroken(s))
    BY <2>4 DEF Refused, ReadEnd, ReadBroken, StopReading
  <2> QED BY <1>5, <2>1, <2>2, <2>3, <2>4
<1>6. ASSUME LoadPage
      PROVE  Bubbling
  <2>1. shown' = Loaded(rows)
    BY <1>6 DEF LoadPage
  <2>2. \A i \in DOMAIN shown' : Plain(shown'[i])
    BY <1>1, <2>1, LoadedBubbles DEF Plain
  <2> QED BY <2>2
<1>7. ASSUME \/ Mount \/ Restart \/ OnRemoved \/ OnReload \/ OnTurnStarted \/ TakeThread
             \/ (AnswerResume \/ AttachAnswered) /\ Resumable = 0
      PROVE  Bubbling
  <2>1. UNCHANGED shown
    BY <1>7 DEF Mount, Restart, OnRemoved, OnReload, OnTurnStarted, TakeThread, AnswerResume,
         AttachAnswered, AnswerAttach
  <2> HIDE DEF Bubbling
  <2> QED BY <1>3, <2>1
<1>9. ASSUME Shows
      PROVE  Bubbling
  <2>1. PICK a \in Answered : shown' = shown \/ shown' = a.snap \o Live
    BY <1>9, ShowsIs
  <2>2. CASE shown' = a.snap \o Live
    <3>1. a \in Answer
      BY <1>1 DEF Answered, TabShape
    <3>2. a.snap \in Seq(LooseBubbles) /\ Live \in Seq(LooseBubbles)
      BY <1>1, <3>1, LiveBubbles DEF Answer
    <3>3. \A i \in DOMAIN shown' : \/ i \in DOMAIN a.snap /\ shown'[i] = a.snap[i]
                                   \/ \E k \in DOMAIN Live : shown'[i] = Live[k]
      BY <2>2, <3>2, JoinedEntries
    <3>4. \A k \in DOMAIN a.snap : Plain(a.snap[k])
      BY <1>1 DEF SnapText, KeyInv, SnapFree, Plain
    <3> QED BY <1>1, <3>3, <3>4, LiveFrom
  <2>3. CASE shown' = shown
    BY <1>3, <2>3
  <2> QED BY <2>1, <2>2, <2>3
<1>10. ASSUME OnMessage
       PROVE  Bubbling
  <2> DEFINE b == Bubble("user", Ev.turn, 0, TRUE, 0)
  <2>2. shown' = shown \/ shown' = Append(shown, b)
    BY <1>10 DEF OnMessage, WithBubble
  <2>3. Plain(b) /\ shown \in Seq(LooseBubbles)
    BY <1>1 DEF Bubble, TabShape, Plain
  <2> HIDE DEF b
  <2>4. \A i \in DOMAIN Append(shown, b) :
           (i \in DOMAIN shown /\ Append(shown, b)[i] = shown[i]) \/ Append(shown, b)[i] = b
    BY <2>3
  <2> QED BY <2>2, <2>3, <2>4
<1>11. ASSUME NEW k, shown' = [i \in DOMAIN shown |->
                      IF shown[i].key = k THEN [shown[i] EXCEPT !.key = 0] ELSE shown[i]]
       PROVE  Bubbling
  <2>1. \A i \in DOMAIN shown : Plain([shown[i] EXCEPT !.key = 0])
    BY <1>1 DEF LooseBubbles, Plain, TextInv, PlainBubbles, WholeReplies
  <2> QED BY <1>11, <2>1
<1>12. ASSUME \/ \E p \in posts : Refused(p)
              \/ \E s \in streams : ReadEnd(s) \/ ReadBroken(s)
       PROVE  Bubbling
  <2>1. (\A p \in posts : p.key \in Keys) /\ (\A s \in streams : s.key \in Keys)
    BY <1>1 DEF TabShape, Post, Stream
  <2>2. \E k \in Nat \cup Keys : shown' = [i \in DOMAIN shown |->
                      IF shown[i].key = k THEN [shown[i] EXCEPT !.key = 0] ELSE shown[i]]
    <3>1. CASE \E p \in posts : Refused(p)
      BY <2>1, <3>1 DEF Refused
    <3>2. CASE \E s \in streams : ReadEnd(s) \/ ReadBroken(s)
      BY <2>1, <3>2 DEF ReadEnd, ReadBroken, StopReading
    <3> QED BY <1>12, <3>1, <3>2
  <2> HIDE DEF Bubbling
  <2> QED BY <1>11, <2>2
<1>13. ASSUME UNCHANGED tab
       PROVE  Goal
  <2>1. Rest /\ UNCHANGED shown
    BY <1>13 DEF tab
  <2> QED BY <1>2, <1>3, <2>1
<1>14. ASSUME \/ StartElsewhere \/ CheckAccess \/ Subscribe \/ CutFeed \/ RemoveMember \/ Detach
              \/ Reconnect \/ Ignore
              \/ \E t \in Turns : Start(t) \/ SaveReply(t) \/ EndTurn(t) \/ GraceExpires(t)
       PROVE  UNCHANGED tab
  BY <1>14 DEF StartElsewhere, CheckAccess, Subscribe, CutFeed, RemoveMember, Detach, Reconnect,
       Ignore, Start, SaveReply, EndTurn, GraceExpires
<1> HIDE DEF Goal, Bubbling, Rest
<1>15. Goal
  BY <1>2, <1>5, <1>6, <1>7, <1>9, <1>10, <1>12, <1>13, <1>14
  DEF Next, Server, Answers, AttachAnswered, Faults, Person, Browser, Shows, OnEvent
<1> QED BY <1>15 DEF Goal

\* A request's placeholder is empty, and so is what a stream of no events wrote.
LEMMA RegisterText ==
  ASSUME Shape, KeyInv, TextInv, NEW t \in Turns, Register(t)
  PROVE  TextInv'
<1> USE TurnsAndKeys
<1>1. UNCHANGED <<shown, reloads>> /\ posts' \subseteq posts
  BY DEF Register
<1>2. \A s \in streams' : s \in streams \/ (s.pos = 0 /\ \E p \in posts : p.key = s.key)
  BY DEF Register
<1>3. StreamedText'
  BY <1>1, <1>2 DEF TextInv, StreamedText, AskedText, TextAt
<1>4. AskedText' /\ PlainBubbles' /\ SnapText' /\ WholeReplies'
  BY <1>1 DEF TextInv, AskedText, PlainBubbles, SnapText, Answered, WholeReplies
<1> QED BY <1>3, <1>4 DEF TextInv

\* The bubbles of a new turn start empty.
LEMMA AskText ==
  ASSUME Shape, KeyInv, TextInv, Send \/ EditMessage
  PROVE  TextInv'
<1> USE TurnsAndKeys
<1>1. TabShape
  BY DEF Shape
<1>2. PICK t \in Turns :
         /\ NextTurn(t)
         /\ \A i \in DOMAIN shown' : \/ i \in DOMAIN shown /\ shown'[i] = shown[i]
                                     \/ shown'[i] = Bubble("user", t, 0, FALSE, 0)
                                     \/ shown'[i] = Bubble("reply", t, t, FALSE, 0)
         /\ posts' = posts \cup {[key |-> t, turn |-> t]}
         /\ UNCHANGED <<streams, reloads>>
  BY Asking
<1>3. t \notin KeysInUse
  BY <1>2 DEF NextTurn, Unused, KeyInv, KnownKeys, AskedOnce, Registered
<1>4. \A i \in DOMAIN shown' :
         \/ /\ i \in DOMAIN shown /\ shown'[i] = shown[i] /\ shown[i].key # t
         \/ /\ shown'[i].key = 0 /\ shown'[i].who = "user" /\ shown'[i].text = 0
         \/ /\ shown'[i].key = t /\ shown'[i].who = "reply" /\ shown'[i].text = 0
            /\ ~shown'[i].known
  BY <1>2, <1>3 DEF Bubble, KeysInUse
<1>5. StreamedText'
  <2>1. \A s \in streams : s.key # t /\ s.key # 0
    BY <1>1, <1>3 DEF KeysInUse, TabShape, Stream
  <2> QED BY <1>2, <1>4, <2>1 DEF TextInv, StreamedText
<1>6. AskedText'
  <2>1. \A p \in posts : p.key # 0
    BY <1>1 DEF TabShape, Post
  <2>2. \A p \in posts' : p \in posts \/ p.key = t
    BY <1>2
  <2>3. \A p \in posts : p.key # t
    BY <1>3 DEF KeysInUse
  <2> QED BY <1>4, <2>1, <2>2, <2>3 DEF TextInv, AskedText
<1>7. PlainBubbles' /\ WholeReplies'
  BY <1>4 DEF TextInv, PlainBubbles, WholeReplies
<1>8. SnapText'
  BY <1>2 DEF TextInv, SnapText, Answered
<1> QED BY <1>5, <1>6, <1>7, <1>8 DEF TextInv

\* A stream that starts with a placeholder of its own.
LEMMA FollowText ==
  ASSUME Shape, KeyInv, TextInv, NEW t \in Turns, NEW k \in Keys, Follow(t, k),
         \A s \in streams : s.key # k, \A p \in posts : p.key # k,
         \A i \in DOMAIN shown : shown[i].key # k, UNCHANGED <<posts, reloads>>
  PROVE  TextInv'
<1> USE TurnsAndKeys
<1> DEFINE b == Bubble("reply", t, k, FALSE, 0)
<1>1. shown' = Append(shown, b) /\ streams' = streams \cup {[key |-> k, turn |-> t, pos |-> 0]}
  BY DEF Follow
<1>2. b \in LooseBubbles /\ b.key = k /\ b.who = "reply" /\ b.text = 0 /\ ~b.known
  BY DEF Bubble, LooseBubbles
<1> HIDE DEF b
<1>3. \A i \in DOMAIN shown' : (i \in DOMAIN shown /\ shown'[i] = shown[i]) \/ shown'[i] = b
  BY <1>1, <1>2, BubbleAdded DEF Shape
<1>4. \A s \in streams' : s \in streams \/ (s.key = k /\ s.pos = 0)
  BY <1>1
<1>5. StreamedText'
  BY <1>2, <1>3, <1>4 DEF TextInv, StreamedText, TextAt
<1>6. AskedText'
  BY <1>2, <1>3 DEF TextInv, AskedText
<1>7. PlainBubbles' /\ WholeReplies'
  BY <1>2, <1>3 DEF TextInv, PlainBubbles, WholeReplies
<1>8. SnapText'
  BY DEF TextInv, SnapText, Answered
<1> QED BY <1>5, <1>6, <1>7, <1>8 DEF TextInv

\* One more piece of a reply is in the one bubble its stream writes, and the last
\* event comes after all of them.
LEMMA ReadText ==
  ASSUME Shape, KeyInv, TextInv, NEW s \in streams, ReadEvent(s)
  PROVE  TextInv'
<1> USE TurnsAndKeys
<1> DEFINE n == [s EXCEPT !.pos = @ + 1]
<1>1. /\ TabShape /\ s \in Stream
      /\ \A i \in DOMAIN shown : shown[i] \in LooseBubbles
  BY DEF Shape, TabShape
<1>2. /\ streams' = (streams \ {s}) \cup {n} /\ shown' = AfterEvent(s)
      /\ UNCHANGED <<posts, reloads>>
  BY DEF ReadEvent
<1>3. n.key = s.key /\ n.pos = s.pos + 1 /\ s.key # 0
  BY <1>1 DEF Stream
<1>4. s.pos \in Nat /\ s.pos < Deltas + 2
  BY <1>1 DEF ReadEvent, Published, Stream
<1> HIDE DEF n
<1>5. (\A r \in streams \ {s} : r.key # s.key) /\ (\A p \in posts : p.key # s.key)
  BY DEF KeyInv, StreamsApart
<1>6. ASSUME NEW i \in DOMAIN shown'
      PROVE  \E j \in DOMAIN shown :
                /\ shown'[i].key = shown[j].key /\ shown'[i].who = shown[j].who
                /\ shown[j].key # s.key =>
                      /\ shown'[i].text = shown[j].text
                      /\ shown'[i].known = shown[j].known \/ shown[j].who = "user"
                /\ shown[j].key = s.key =>
                      /\ shown'[i].text = TextAt(s.pos + 1)
                      /\ shown'[i].known => s.pos = Deltas + 1
  <2>1. PICK j \in DOMAIN shown :
           \/ /\ shown'[i] = shown[j]
              /\ shown[j].key = s.key => s.pos = 0 \/ s.pos > Deltas
           \/ /\ s.pos = 0 /\ shown[j].who = "user"
              /\ shown'[i] = [shown[j] EXCEPT !.known = TRUE]
           \/ /\ s.pos \in 1..Deltas /\ shown[j].key = s.key
              /\ shown'[i] = [shown[j] EXCEPT !.text = @ + 1]
           \/ /\ s.pos > Deltas /\ shown[j].key = s.key
              /\ shown'[i] = [shown[j] EXCEPT !.known = TRUE]
    BY <1>1, <1>2, EventFrom
  <2>2. shown[j] \in LooseBubbles
    BY <1>1
  <2>3. shown[j].key = s.key => /\ shown[j].who = "reply" /\ shown[j].text = TextAt(s.pos)
                                /\ shown[j].known => s.pos = Deltas + 2
    BY DEF TextInv, StreamedText
  <2>4. /\ s.pos = 0 => TextAt(s.pos) = TextAt(s.pos + 1)
        /\ s.pos > Deltas => TextAt(s.pos) = TextAt(s.pos + 1)
        /\ s.pos \in 1..Deltas => TextAt(s.pos + 1) = TextAt(s.pos) + 1
    BY <1>4 DEF TextAt
  <2>5. CASE /\ shown'[i] = shown[j]
             /\ shown[j].key = s.key => s.pos = 0 \/ s.pos > Deltas
    BY <1>4, <2>3, <2>4, <2>5
  <2>6. CASE /\ s.pos = 0 /\ shown[j].who = "user"
             /\ shown'[i] = [shown[j] EXCEPT !.known = TRUE]
    <3>1. shown[j].key # s.key
      BY <2>3, <2>6
    <3> QED BY <2>2, <2>6, <3>1 DEF LooseBubbles
  <2>7. CASE /\ s.pos \in 1..Deltas /\ shown[j].key = s.key
             /\ shown'[i] = [shown[j] EXCEPT !.text = @ + 1]
    <3>1. /\ shown'[i].key = shown[j].key /\ shown'[i].who = shown[j].who
          /\ shown'[i].text = shown[j].text + 1 /\ shown'[i].known = shown[j].known
      BY <2>2, <2>7 DEF LooseBubbles
    <3> QED BY <1>4, <2>3, <2>4, <2>7, <3>1
  <2>8. CASE /\ s.pos > Deltas /\ shown[j].key = s.key
             /\ shown'[i] = [shown[j] EXCEPT !.known = TRUE]
    <3>1. /\ shown'[i].key = shown[j].key /\ shown'[i].who = shown[j].who
          /\ shown'[i].text = shown[j].text
      BY <2>2, <2>8 DEF LooseBubbles
    <3>2. s.pos = Deltas + 1
      BY <1>4, <2>8
    <3> QED BY <2>3, <2>4, <2>8, <3>1, <3>2
  <2> QED BY <2>1, <2>5, <2>6, <2>7, <2>8
<1>7. StreamedText'
  <2> SUFFICES ASSUME NEW i \in DOMAIN shown', NEW r \in streams', shown'[i].key = r.key
               PROVE  /\ shown'[i].who = "reply" /\ shown'[i].text = TextAt(r.pos)
                      /\ shown'[i].known => r.pos = Deltas + 2
    BY DEF StreamedText
  <2>1. PICK j \in DOMAIN shown :
                /\ shown'[i].key = shown[j].key /\ shown'[i].who = shown[j].who
                /\ shown[j].key # s.key =>
                      /\ shown'[i].text = shown[j].text
                      /\ shown'[i].known = shown[j].known \/ shown[j].who = "user"
                /\ shown[j].key = s.key =>
                      /\ shown'[i].text = TextAt(s.pos + 1)
                      /\ shown'[i].known => s.pos = Deltas + 1
    BY <1>6
  <2>2. CASE r = n
    <3>1. shown[j].key = s.key /\ shown[j].who = "reply"
      BY <1>3, <2>1, <2>2 DEF TextInv, StreamedText
    <3> QED BY <1>3, <1>4, <2>1, <2>2, <3>1
  <2>3. CASE r \in streams \ {s}
    <3>1. shown[j].key = r.key /\ shown[j].key # s.key
      BY <1>5, <2>1, <2>3
    <3>2. /\ shown[j].who = "reply" /\ shown[j].text = TextAt(r.pos)
          /\ shown[j].known => r.pos = Deltas + 2
      BY <2>3, <3>1 DEF TextInv, StreamedText
    <3> QED BY <2>1, <3>1, <3>2
  <2> QED BY <1>2, <2>2, <2>3
<1>8. AskedText'
  <2> SUFFICES ASSUME NEW i \in DOMAIN shown', NEW p \in posts, shown'[i].key = p.key
               PROVE  shown'[i].who = "reply" /\ shown'[i].text = 0 /\ ~shown'[i].known
    BY <1>2 DEF AskedText
  <2>1. PICK j \in DOMAIN shown :
                /\ shown'[i].key = shown[j].key /\ shown'[i].who = shown[j].who
                /\ shown[j].key # s.key =>
                      /\ shown'[i].text = shown[j].text
                      /\ shown'[i].known = shown[j].known \/ shown[j].who = "user"
    BY <1>6
  <2>2. shown[j].who = "reply" /\ shown[j].text = 0 /\ ~shown[j].known
    BY <2>1 DEF TextInv, AskedText
  <2> QED BY <1>5, <2>1, <2>2
<1>9. PlainBubbles' /\ WholeReplies'
  <2>1. TextAt(s.pos + 1) <= Deltas /\ (s.pos = Deltas + 1 => TextAt(s.pos + 1) = Deltas)
    BY <1>4 DEF TextAt
  <2>2. ASSUME NEW i \in DOMAIN shown'
        PROVE  /\ shown'[i].text <= Deltas
               /\ shown'[i].who = "user" => shown'[i].key = 0
               /\ shown'[i].who = "reply" /\ shown'[i].known => shown'[i].text = Deltas
    <3>1. PICK j \in DOMAIN shown :
                /\ shown'[i].key = shown[j].key /\ shown'[i].who = shown[j].who
                /\ shown[j].key # s.key =>
                      /\ shown'[i].text = shown[j].text
                      /\ shown'[i].known = shown[j].known \/ shown[j].who = "user"
                /\ shown[j].key = s.key =>
                      /\ shown'[i].text = TextAt(s.pos + 1)
                      /\ shown'[i].known => s.pos = Deltas + 1
      BY <1>6
    <3>2. /\ shown[j].text <= Deltas
          /\ shown[j].who = "user" => shown[j].key = 0
          /\ shown[j].who = "reply" /\ shown[j].known => shown[j].text = Deltas
      BY DEF TextInv, PlainBubbles, WholeReplies
    <3>3. CASE shown[j].key = s.key
      BY <2>1, <3>1, <3>2, <3>3
    <3>4. CASE shown[j].key # s.key
      BY <3>1, <3>2, <3>4
    <3> QED BY <3>3, <3>4
  <2> QED BY <2>2 DEF PlainBubbles, WholeReplies
<1>10. SnapText'
  BY <1>2 DEF TextInv, SnapText, Answered
<1> QED BY <1>7, <1>8, <1>9, <1>10 DEF TextInv

\* Every bubble keeps the text its stream has read.
LEMMA TextStep ==
  ASSUME Shape, KeyInv, TextInv, Next
  PROVE  TextInv'
<1> USE TurnsAndKeys
<1>1. TabShape /\ ServerShape
  BY DEF Shape
<1>2. CASE \E t \in Turns : Register(t)
  BY <1>2, RegisterText
<1>3. CASE Send \/ EditMessage
  BY <1>3, AskText
<1>4. CASE AnswerResume /\ Resumable # 0
  <2>1. Follow(Resumable, ResumeKey) /\ resume = "asked" /\ UNCHANGED <<posts, reloads>>
    BY <1>4 DEF AnswerResume
  <2>2. Resumable \in Turns /\ ResumeKey \notin KeysInUse
    BY <1>1, <1>4, <2>1 DEF Resumable, ServerShape, Turns, KeyInv, ResumeFree
  <2> QED BY <2>1, <2>2, FollowText DEF KeysInUse
<1>5. ASSUME NEW t \in Turns, AnswerAttach(t), Resumable # 0
      PROVE  TextInv'
  <2>1. Follow(Resumable, t) /\ t \in attach /\ UNCHANGED <<posts, reloads>>
    BY <1>5 DEF AnswerAttach
  <2>2. Resumable \in Turns
    BY <1>1, <1>5 DEF Resumable, ServerShape, Turns
  <2>4. /\ \A s \in streams : s.key # t
        /\ \A p \in posts : p.key # t
        /\ \A i \in DOMAIN shown : shown[i].key # t
    BY <2>1 DEF KeyInv, AttachApart, OwnPosts
  <2> QED BY <2>1, <2>2, <2>4, FollowText
<1>6. CASE \E s \in streams : ReadEvent(s)
  BY <1>6, ReadText
<1>7. CASE /\ ~\E t \in Turns : Register(t)
           /\ ~(Send \/ EditMessage)
           /\ ~(AnswerResume /\ Resumable # 0) /\ ~(AttachAnswered /\ Resumable # 0)
           /\ ~\E s \in streams : ReadEvent(s)
  BY <1>7, QuietText
<1> QED BY <1>2, <1>3, <1>4, <1>5, <1>6, <1>7 DEF AttachAnswered

-----------------------------------------------------------------------------
(* Once: rows, and bubbles, of a turn                                       *)

\* A turn's message has a row once it is admitted, its reply once it is saved,
\* and neither has two.
RowInv ==
    /\ \A i, j \in DOMAIN rows : rows[i] = rows[j] => i = j
    /\ \A i \in DOMAIN rows :
          /\ rows[i].who = "user" => phase[rows[i].turn] \notin {"none", "posted"}
          /\ rows[i].who = "reply" => phase[rows[i].turn] \in {"saved", "ended", "lost"}

\* The rows after a message is admitted are rows that were there, and its own.
LEMMA WithMessageRows ==
  ASSUME ServerShape, NEW t \in Turns, NEW k, k = 0 \/ Editable(k)
  PROVE  \E n \in Nat : \A i \in DOMAIN WithMessage(t, k) :
            \/ i <= n /\ i \in DOMAIN rows /\ WithMessage(t, k)[i] = rows[i]
            \/ i = n + 1 /\ WithMessage(t, k)[i] = Row("user", t)
<1>1. rows \in Seq(Rows) /\ Row("user", t) \in Rows
  BY DEF ServerShape, Row, Rows
<1>2. \E q \in Seq(Rows) : /\ WithMessage(t, k) = q \o <<Row("user", t)>>
                           /\ \A i \in DOMAIN q : i \in DOMAIN rows /\ q[i] = rows[i]
  <2>1. CASE k = 0
    BY <1>1, <2>1 DEF WithMessage
  <2>2. CASE k # 0
    <3> DEFINE n == CHOOSE i \in DOMAIN rows : rows[i] = Row("user", k)
    <3>1. n \in DOMAIN rows
      BY <2>2 DEF Editable
    <3>2. CutAt(k) = SubSeq(rows, 1, n - 1)
      BY DEF CutAt
    <3> HIDE DEF n
    <3>3. CutAt(k) \in Seq(Rows) /\ \A i \in DOMAIN CutAt(k) : i \in DOMAIN rows /\ CutAt(k)[i] = rows[i]
      BY <1>1, <3>1, <3>2, Prefix
    <3>4. WithMessage(t, k) = CutAt(k) \o <<Row("user", t)>>
      BY <2>2 DEF WithMessage
    <3> QED BY <3>3, <3>4
  <2> QED BY <2>1, <2>2
<1>3. PICK q \in Seq(Rows) : /\ WithMessage(t, k) = q \o <<Row("user", t)>>
                             /\ \A i \in DOMAIN q : i \in DOMAIN rows /\ q[i] = rows[i]
  BY <1>2
<1> DEFINE r == Row("user", t)
           W == WithMessage(t, k)
<1>4. /\ W \in Seq(Rows) /\ Len(W) = Len(q) + 1 /\ Len(q) \in Nat
      /\ \A i \in 1 .. Len(q) + 1 : W[i] = IF i <= Len(q) THEN q[i] ELSE <<r>>[i - Len(q)]
  BY <1>1, <1>3, ConcatProperties
<1> HIDE DEF r, W
<1>5. \A i \in DOMAIN W : \/ i <= Len(q) /\ i \in DOMAIN rows /\ W[i] = rows[i]
                          \/ i = Len(q) + 1 /\ W[i] = r
  <2> SUFFICES ASSUME NEW i \in DOMAIN W
               PROVE  \/ i <= Len(q) /\ i \in DOMAIN rows /\ W[i] = rows[i]
                      \/ i = Len(q) + 1 /\ W[i] = r
    OBVIOUS
  <2>1. i \in 1..(Len(q) + 1)
    BY <1>4
  <2>2. CASE i <= Len(q)
    BY <1>3, <1>4, <2>1, <2>2
  <2>3. CASE i = Len(q) + 1
    BY <1>4, <2>1, <2>3
  <2> QED BY <1>4, <2>1, <2>2, <2>3
<1> QED BY <1>4, <1>5 DEF r, W

\* A message takes its row when it is admitted: it has none before.
LEMMA AdmitRows ==
  ASSUME ServerShape, RowInv, NEW t \in Turns, phase[t] \in {"none", "posted"},
         NEW k, k = 0 \/ Editable(k),
         phase' = [phase EXCEPT ![t] = "starting"], rows' = WithMessage(t, k)
  PROVE  RowInv'
<1>1. PICK n \in Nat : \A i \in DOMAIN rows' :
         \/ i <= n /\ i \in DOMAIN rows /\ rows'[i] = rows[i]
         \/ i = n + 1 /\ rows'[i] = Row("user", t)
  BY WithMessageRows
<1>2. \A i \in DOMAIN rows : /\ rows[i] \in Rows /\ rows[i] # Row("user", t)
                             /\ rows[i].turn # t
  <2>1. \A i \in DOMAIN rows : rows[i] \in Rows
    BY DEF ServerShape
  <2>2. \A i \in DOMAIN rows : rows[i].who \in {"user", "reply"}
    BY <2>1 DEF Rows
  <2>3. \A i \in DOMAIN rows : rows[i].turn # t
    BY <2>2 DEF RowInv
  <2>4. Row("user", t).turn = t
    BY DEF Row
  <2> QED BY <2>1, <2>3, <2>4
<1>3. Row("user", t).turn = t /\ Row("user", t).who = "user"
  BY DEF Row
<1>4. \A i, j \in DOMAIN rows' : rows'[i] = rows'[j] => i = j
  BY <1>1, <1>2 DEF RowInv
<1>5. phase'[t] = "starting" /\ \A u \in Turns \ {t} : phase'[u] = phase[u]
  BY DEF ServerShape
<1>6. \A i \in DOMAIN rows : rows[i].turn \in Turns \ {t}
  BY <1>2 DEF Rows
<1>7. \A i \in DOMAIN rows' :
          /\ rows'[i].who = "user" => phase'[rows'[i].turn] \notin {"none", "posted"}
          /\ rows'[i].who = "reply" => phase'[rows'[i].turn] \in {"saved", "ended", "lost"}
  BY <1>1, <1>3, <1>5, <1>6 DEF RowInv
<1> QED BY <1>4, <1>7 DEF RowInv

\* No step gives a message or a reply a second row.
LEMMA RowStep ==
  ASSUME ServerShape, RowInv, Next
  PROVE  RowInv'
<1> USE TurnsAndKeys
<1>1. \A i \in DOMAIN rows : rows[i] \in Rows /\ rows[i].who \in {"user", "reply"}
                             /\ rows[i].turn \in Turns
  <2>1. \A i \in DOMAIN rows : rows[i] \in Rows
    BY DEF ServerShape
  <2> QED BY <2>1 DEF Rows
<1>2. ASSUME UNCHANGED rows,
             \A t \in Turns : /\ phase[t] \notin {"none", "posted"} => phase'[t] \notin {"none", "posted"}
                              /\ phase[t] \in {"saved", "ended", "lost"} => phase'[t] \in {"saved", "ended", "lost"}
      PROVE  RowInv'
  BY <1>1, <1>2 DEF RowInv
<1>3. ASSUME NEW t \in Turns, Start(t)
      PROVE  RowInv'
  <2>1. phase[t] = "posted"
    BY <1>3 DEF Start
  <2>2. CASE phase' = [phase EXCEPT ![t] = "refused"] /\ rows' = rows
    BY <1>2, <2>1, <2>2 DEF ServerShape
  <2>3. CASE phase' = [phase EXCEPT ![t] = "starting"] /\ rows' = WithMessage(t, target[t])
             /\ (target[t] = 0 \/ Editable(target[t]))
    BY <2>1, <2>3, AdmitRows
  <2> QED BY <1>3, <2>2, <2>3 DEF Start
<1>4. ASSUME StartElsewhere
      PROVE  RowInv'
  <2>1. PICK t \in Turns, k \in {0} \cup {j \in Turns \ mine : Editable(j)} :
               /\ NextTurn(t)
               /\ phase' = [phase EXCEPT ![t] = "starting"]
               /\ rows' = WithMessage(t, k)
    BY <1>4 DEF StartElsewhere
  <2>2. phase[t] = "none" /\ (k = 0 \/ Editable(k))
    BY <2>1 DEF NextTurn, Unused
  <2> QED BY <2>1, <2>2, AdmitRows
<1>5. ASSUME NEW t \in Turns, SaveReply(t)
      PROVE  RowInv'
  <2>1. phase[t] = "running" /\ phase' = [phase EXCEPT ![t] = "saved"]
    BY <1>5 DEF SaveReply
  <2>2. phase'[t] = "saved" /\ \A u \in Turns \ {t} : phase'[u] = phase[u]
    BY <2>1 DEF ServerShape
  <2>3. CASE rows' = rows
    BY <1>2, <2>1, <2>2, <2>3
  <2>4. CASE rows' = Append(rows, Row("reply", t))
    <3> DEFINE r == Row("reply", t)
    <3>1. r.who = "reply" /\ r.turn = t /\ r \in Rows
      BY DEF Row, Rows
    <3>2. \A i \in DOMAIN rows : rows[i] # r
      BY <2>1, <3>1 DEF RowInv
    <3> HIDE DEF r
    <3>3. rows \in Seq(Rows) /\ rows' = Append(rows, r)
      BY <2>4 DEF ServerShape, r
    <3>4. \A i \in DOMAIN rows' : \/ i \in DOMAIN rows /\ rows'[i] = rows[i]
                                  \/ i = Len(rows) + 1 /\ rows'[i] = r
      BY <3>1, <3>3
    <3>5. \A i, j \in DOMAIN rows' : rows'[i] = rows'[j] => i = j
      BY <3>2, <3>4 DEF RowInv
    <3>6. \A i \in DOMAIN rows' :
            /\ rows'[i].who = "user" => phase'[rows'[i].turn] \notin {"none", "posted"}
            /\ rows'[i].who = "reply" => phase'[rows'[i].turn] \in {"saved", "ended", "lost"}
      BY <1>1, <2>1, <2>2, <3>1, <3>4 DEF RowInv
    <3> QED BY <3>5, <3>6 DEF RowInv
  <2> QED BY <1>5, <2>3, <2>4 DEF SaveReply
<1>6. ASSUME Restart \/ (\E t \in Turns : Register(t) \/ EndTurn(t) \/ GraceExpires(t))
      PROVE  RowInv'
  <2>1. CASE Restart
    BY <1>2, <2>1 DEF Restart, ServerShape
  <2>2. CASE \E t \in Turns : Register(t) \/ EndTurn(t) \/ GraceExpires(t)
    BY <1>2, <2>2 DEF Register, EndTurn, GraceExpires, ServerShape
  <2> QED BY <1>6, <2>1, <2>2
<1>7. ASSUME Send \/ EditMessage
      PROVE  RowInv'
  <2>1. PICK t \in Turns : NextTurn(t) /\ phase' = [phase EXCEPT ![t] = "posted"]
    BY <1>7 DEF Send, EditMessage, AskFor
  <2>2. phase[t] = "none" /\ UNCHANGED rows
    BY <1>7, <2>1 DEF Send, EditMessage, NextTurn, Unused
  <2> QED BY <1>2, <2>1, <2>2 DEF ServerShape
<1>8. CASE UNCHANGED server
  BY <1>8 DEF server, RowInv
<1>9. ASSUME Answers \/ CutFeed \/ RemoveMember \/ Detach \/ LoadPage \/ Mount \/ Browser
      PROVE  UNCHANGED server
  BY <1>9 DEF Answers, AttachAnswered, AnswerResume, AnswerAttach, CheckAccess, Subscribe,
       TakeThread, CutFeed, RemoveMember, Detach, LoadPage, Mount, Browser, Shows, Reconnect,
       ShowThread, ShowEarlier, Show, OnEvent, Ignore, OnMessage, OnTurnStarted, OnReload,
       OnRemoved, Refused, ReadEvent, ReadEnd, ReadBroken, StopReading
<1> QED
  BY <1>3, <1>4, <1>5, <1>6, <1>7, <1>8, <1>9 DEF Next, Server, Faults, Person

\* The screen and the feed speak of turns somebody asked for.
AskedTurns ==
    /\ \A i \in DOMAIN shown : shown[i].who = "user" => phase[shown[i].turn] /= "none"
    /\ \A i \in DOMAIN wire : wire[i].turn \in Turns => phase[wire[i].turn] /= "none"

\* So do reloads, of each row once.
SnapOnce ==
    \A a \in Answered :
        /\ \A i \in DOMAIN a.snap : phase[a.snap[i].turn] /= "none"
        /\ \A i, j \in DOMAIN a.snap :
              a.snap[i].who = a.snap[j].who /\ a.snap[i].turn = a.snap[j].turn => i = j

\* A message has one bubble, a reply one with its row's id, and a request or a
\* stream one that it writes, of its turn.
UsersOnce ==
    \A i, j \in DOMAIN shown :
        shown[i].who = "user" /\ shown[j].who = "user" /\ shown[i].turn = shown[j].turn => i = j

KnownOnce ==
    \A i, j \in DOMAIN shown :
        /\ shown[i].who = "reply" /\ shown[j].who = "reply"
        /\ shown[i].known /\ shown[j].known /\ shown[i].turn = shown[j].turn
        => i = j

KeysOnce ==
    \A i, j \in DOMAIN shown : shown[i].key = shown[j].key /\ shown[i].key /= 0 => i = j

SameTurn ==
    \A i \in DOMAIN shown :
        /\ \A s \in streams : shown[i].key = s.key => shown[i].turn = s.turn
        /\ \A p \in posts : shown[i].key = p.key => shown[i].turn = p.turn

OnceInv == AskedTurns /\ SnapOnce /\ UsersOnce /\ KnownOnce /\ KeysOnce /\ SameTurn

\* Rows that are loaded are somebody's, and there once.
LEMMA LoadedOnce ==
  ASSUME ServerShape, RowInv
  PROVE  /\ \A i, j \in DOMAIN Loaded(rows) :
               Loaded(rows)[i].who = Loaded(rows)[j].who /\ Loaded(rows)[i].turn = Loaded(rows)[j].turn
               => i = j
         /\ \A i \in DOMAIN Loaded(rows) : phase[Loaded(rows)[i].turn] /= "none"
<1>1. \A i \in DOMAIN rows : rows[i] \in Rows
  BY DEF ServerShape
<1>2. DOMAIN Loaded(rows) = DOMAIN rows
      /\ \A i \in DOMAIN rows : Loaded(rows)[i].who = rows[i].who /\ Loaded(rows)[i].turn = rows[i].turn
  BY DEF Loaded, Bubble
<1>3. \A i, j \in DOMAIN rows : rows[i].who = rows[j].who /\ rows[i].turn = rows[j].turn => i = j
  <2>1. \A i, j \in DOMAIN rows : rows[i].who = rows[j].who /\ rows[i].turn = rows[j].turn
                                  => rows[i] = rows[j]
    BY <1>1 DEF Rows
  <2> QED BY <2>1 DEF RowInv
<1>4. \A i \in DOMAIN rows : phase[rows[i].turn] /= "none"
  <2>1. \A i \in DOMAIN rows : rows[i].who \in {"user", "reply"}
    BY <1>1 DEF Rows
  <2> QED BY <2>1 DEF RowInv
<1> QED BY <1>2, <1>3, <1>4

\* Bubbles that stand apart still do when each comes from another place.
LEMMA PlacesCarry ==
  ASSUME UsersOnce, KnownOnce, KeysOnce,
         NEW f \in Injection(DOMAIN shown', DOMAIN shown),
         \A k \in DOMAIN shown' :
            /\ shown'[k].who = shown[f[k]].who /\ shown'[k].turn = shown[f[k]].turn
            /\ shown'[k].key \in {0, shown[f[k]].key},
         NEW u,
         \A k \in DOMAIN shown' :
            \/ shown'[k].known = shown[f[k]].known
            \/ shown'[k].who = "user"
            \/ /\ f[k] = u
               /\ \A i \in DOMAIN shown \ {u} :
                     ~(shown[i].known /\ shown[i].who = "reply" /\ shown[i].turn = shown[u].turn)
  PROVE  UsersOnce' /\ KnownOnce' /\ KeysOnce'
<1>1. /\ \A k \in DOMAIN shown' : f[k] \in DOMAIN shown
      /\ \A k, l \in DOMAIN shown' : f[k] = f[l] => k = l
  BY DEF Injection, IsInjective
<1>2. UsersOnce'
  BY <1>1 DEF UsersOnce
<1>3. KeysOnce'
  BY <1>1 DEF KeysOnce
<1>4. KnownOnce'
  <2> SUFFICES ASSUME NEW k \in DOMAIN shown', NEW l \in DOMAIN shown',
                      shown'[k].who = "reply", shown'[l].who = "reply",
                      shown'[k].known, shown'[l].known, shown'[k].turn = shown'[l].turn
               PROVE  k = l
    BY DEF KnownOnce
  <2>1. /\ shown[f[k]].who = "reply" /\ shown[f[l]].who = "reply"
        /\ shown[f[k]].turn = shown[f[l]].turn
    BY <1>1
  <2>2. CASE f[k] = u /\ f[l] # u
    <3>1. shown[f[l]].known
      BY <2>2, <2>1
    <3> QED BY <1>1, <2>1, <2>2, <3>1 DEF KnownOnce
  <2>3. CASE f[l] = u /\ f[k] # u
    <3>1. shown[f[k]].known
      BY <2>3, <2>1
    <3> QED BY <1>1, <2>1, <2>3, <3>1 DEF KnownOnce
  <2>4. CASE f[k] # u /\ f[l] # u
    <3>1. shown[f[k]].known /\ shown[f[l]].known
      BY <2>4, <2>1
    <3> QED BY <1>1, <2>1, <3>1 DEF KnownOnce
  <2>5. CASE f[k] = u /\ f[l] = u
    BY <1>1, <2>5
  <2> QED BY <2>2, <2>3, <2>4, <2>5
<1> QED BY <1>2, <1>3, <1>4

\* What is on its way to the tab was on its way before, announces a turn of
\* somebody else's that registers now, or names none.
LEMMA WireFrom ==
  ASSUME Shape, Next
  PROVE  \A i \in DOMAIN wire' :
            \/ \E j \in DOMAIN wire : wire'[i] = wire[j]
            \/ wire'[i].type \in {"resync", "chat_removed"} /\ wire'[i].turn = 0
            \/ \E t \in Turns : /\ Register(t) /\ t \notin mine /\ wire'[i].turn = t
                                /\ phase' = [phase EXCEPT ![t] = "running"]
<1> DEFINE Goal == \A i \in DOMAIN wire' :
                      \/ \E j \in DOMAIN wire : wire'[i] = wire[j]
                      \/ wire'[i].type \in {"resync", "chat_removed"} /\ wire'[i].turn = 0
                      \/ \E t \in Turns : /\ Register(t) /\ t \notin mine /\ wire'[i].turn = t
                                          /\ phase' = [phase EXCEPT ![t] = "running"]
<1>1. wire \in Seq(Told)
  BY DEF Shape, FeedShape
<1>2. ASSUME NEW t \in Turns, Register(t)
      PROVE  Goal
  <2> DEFINE m == Event(IF target[t] = 0 THEN "message" ELSE "thread_changed", t)
             s == Event("turn_started", t)
  <2>1. m.turn = t /\ s.turn = t /\ m \in Told /\ s \in Told
    BY DEF Event, Told
  <2>2. \/ wire' = wire
        \/ /\ wire' = wire \o <<m, s>>
           /\ t \notin mine /\ phase' = [phase EXCEPT ![t] = "running"]
    BY <1>2 DEF Register, PublishToChat
  <2> HIDE DEF m, s
  <2>3. <<m, s>> \in Seq(Told) /\ \A i \in DOMAIN <<m, s>> : <<m, s>>[i].turn = t
    BY <2>1
  <2>4. \A i \in DOMAIN (wire \o <<m, s>>) :
           \/ i \in DOMAIN wire /\ (wire \o <<m, s>>)[i] = wire[i]
           \/ (wire \o <<m, s>>)[i].turn = t
    BY <1>1, <2>3, JoinedEntries
  <2> QED BY <1>2, <2>2, <2>4
<1>3. ASSUME wire' = wire \/ wire' = <<>>
      PROVE  Goal
  BY <1>3
<1>4. ASSUME wire /= <<>> /\ wire' = Tail(wire)
      PROVE  Goal
  <2>1. \A i \in DOMAIN wire' : i + 1 \in DOMAIN wire /\ wire'[i] = wire[i + 1]
    BY <1>1, <1>4
  <2> QED BY <2>1
<1>5. ASSUME wire' = <<Event("resync", 0)>>
      PROVE  Goal
  <2>1. \A i \in DOMAIN wire' : wire'[i].turn = 0 /\ wire'[i].type = "resync"
    BY <1>5 DEF Event
  <2> QED BY <2>1
<1>6. ASSUME wire' = Append(wire, Event("chat_removed", 0))
      PROVE  Goal
  <2>1. \A i \in DOMAIN wire' : (i \in DOMAIN wire /\ wire'[i] = wire[i])
                                \/ wire'[i] = Event("chat_removed", 0)
    BY <1>1, <1>6
  <2>2. Event("chat_removed", 0).turn = 0 /\ Event("chat_removed", 0).type = "chat_removed"
    BY DEF Event
  <2> QED BY <2>1, <2>2
<1>7. CASE Restart \/ CutFeed \/ Detach \/ Subscribe \/ OnEvent
  <2>1. \/ wire' = wire \/ wire' = <<>> \/ (wire /= <<>> /\ wire' = Tail(wire))
        \/ wire' = <<Event("resync", 0)>> \/ wire' = Append(wire, Event("chat_removed", 0))
    BY <1>7 DEF Restart, CutFeed, Detach, Subscribe, OnEvent, Ignore,
       OnMessage, OnTurnStarted, OnReload, OnRemoved, Receive
  <2> HIDE DEF Goal
  <2>2. Goal
    BY <1>3, <1>4, <1>5, <1>6, <2>1
  <2> QED BY <2>2 DEF Goal
<1>8. ASSUME \/ StartElsewhere \/ AnswerResume \/ AttachAnswered \/ TakeThread \/ RemoveMember
             \/ LoadPage \/ Send \/ EditMessage \/ Shows \/ CheckAccess \/ Reconnect \/ Mount
             \/ \E t \in Turns : Start(t) \/ SaveReply(t) \/ EndTurn(t) \/ GraceExpires(t)
             \/ \E p \in posts : Refused(p)
             \/ \E s \in streams : ReadEvent(s) \/ ReadEnd(s) \/ ReadBroken(s)
      PROVE  wire' = wire
  BY <1>8 DEF StartElsewhere, AnswerResume, AttachAnswered, AnswerAttach, TakeThread,
       RemoveMember, LoadPage, Send, EditMessage, Shows, ShowThread, ShowEarlier, Show,
       CheckAccess, Reconnect, Mount, Start, SaveReply, EndTurn, GraceExpires, Refused,
       ReadEvent, ReadEnd, ReadBroken, StopReading, feed
<1> HIDE DEF Goal
<1>9. Goal
  <2>1. CASE Restart \/ CutFeed \/ Detach \/ Subscribe \/ OnEvent
    BY <1>7, <2>1 DEF Goal
  <2>2. CASE ~(Restart \/ CutFeed \/ Detach \/ Subscribe \/ OnEvent)
    BY <1>2, <1>3, <1>8, <2>2 DEF Next, Server, Answers, AttachAnswered, Faults, Person, Browser,
         Shows
  <2> QED BY <2>1, <2>2
<1> QED BY <1>9 DEF Goal

\* The feed brings a screen no turn that nobody asked for.
LEMMA WireAsked ==
  ASSUME Shape, AskedOnce, AskedTurns, Next
  PROVE  \A i \in DOMAIN wire' : wire'[i].turn \in Turns => phase'[wire'[i].turn] /= "none"
<1> USE TurnsAndKeys
<1>1. \A i \in DOMAIN wire : wire[i].turn \in Turns => phase'[wire[i].turn] /= "none"
  BY Progress DEF AskedTurns
<1>2. SUFFICES ASSUME NEW i \in DOMAIN wire', wire'[i].turn \in Turns
               PROVE  phase'[wire'[i].turn] /= "none"
  OBVIOUS
<1>3. CASE \E j \in DOMAIN wire : wire'[i] = wire[j]
  BY <1>1, <1>2, <1>3
<1>4. ASSUME NEW t \in Turns, wire'[i].turn = t, phase' = [phase EXCEPT ![t] = "running"]
      PROVE  phase'[wire'[i].turn] /= "none"
  BY <1>4 DEF Shape, ServerShape
<1> QED BY <1>2, <1>3, <1>4, WireFrom

\* What is loaded are rows, which are there once.
LEMMA SnapsOnce ==
  ASSUME Shape, AskedOnce, RowInv, SnapOnce, Next
  PROVE  SnapOnce'
<1>1. TabShape /\ ServerShape
  BY DEF Shape
<1>2. \A t \in Turns : phase[t] # "none" => phase'[t] # "none"
  BY Progress
<1> SUFFICES ASSUME NEW a \in Answered'
             PROVE  /\ \A i \in DOMAIN a.snap : phase'[a.snap[i].turn] /= "none"
                    /\ \A i, j \in DOMAIN a.snap :
                          a.snap[i].who = a.snap[j].who /\ a.snap[i].turn = a.snap[j].turn => i = j
  BY DEF SnapOnce
<1>3. CASE a \in Answered
  <2>1. a \in Answer
    BY <1>1, <1>3 DEF Answered, TabShape
  <2>2. \A i \in DOMAIN a.snap : a.snap[i] \in LooseBubbles
    BY <2>1 DEF Answer
  <2>3. \A i \in DOMAIN a.snap : a.snap[i].turn \in Turns
    BY <2>2 DEF LooseBubbles
  <2> QED BY <1>2, <1>3, <2>3 DEF SnapOnce
<1>4. CASE a = NoReload
  BY <1>4 DEF NoReload
<1>5. CASE TakeThread /\ a = reload'
  <2>1. a.snap = Loaded(rows) \/ a.snap = <<>>
    BY <1>5, TakenIs
  <2>2. phase' = phase
    BY <1>5 DEF TakeThread, server
  <2> QED BY <1>1, <2>1, <2>2, LoadedOnce
<1> QED BY <1>1, <1>3, <1>4, <1>5, AnsweredStep

\* A step after which the screen speaks of the same turns, or of turns somebody
\* has asked for.
LEMMA AskedCarry ==
  ASSUME Shape, AskedOnce, AskedTurns, Next,
         \A k \in DOMAIN shown' : shown'[k].who = "user" =>
            \/ \E i \in DOMAIN shown : shown[i].who = "user" /\ shown'[k].turn = shown[i].turn
            \/ phase'[shown'[k].turn] /= "none"
  PROVE  AskedTurns'
<1>1. \A i \in DOMAIN shown : shown[i].turn \in Turns
  <2>1. \A i \in DOMAIN shown : shown[i] \in LooseBubbles
    BY DEF Shape, TabShape
  <2> QED BY <2>1 DEF LooseBubbles
<1>3. \A t \in Turns : phase[t] # "none" => phase'[t] # "none"
  BY Progress
<1>4. \A i \in DOMAIN wire' : wire'[i].turn \in Turns => phase'[wire'[i].turn] /= "none"
  BY WireAsked
<1>5. \A k \in DOMAIN shown' : shown'[k].who = "user" => phase'[shown'[k].turn] /= "none"
  BY <1>1, <1>3 DEF AskedTurns
<1> QED BY <1>4, <1>5 DEF AskedTurns

\* A turn the tab asks for has no bubble before it is asked for.
LEMMA AskOnce ==
  ASSUME Shape, KeyInv, OnceInv, SnapOnce', Next, Send \/ EditMessage
  PROVE  OnceInv'
<1> USE TurnsAndKeys
<1>1. TabShape /\ ServerShape
  BY DEF Shape
<1>2. PICK t \in Turns, n \in Nat :
         /\ NextTurn(t) /\ phase' = [phase EXCEPT ![t] = "posted"]
         /\ \A i \in DOMAIN shown' :
                  \/ i <= n /\ i \in DOMAIN shown /\ shown'[i] = shown[i]
                  \/ i = n + 1 /\ shown'[i] = Bubble("user", t, 0, FALSE, 0)
                  \/ i = n + 2 /\ shown'[i] = Bubble("reply", t, t, FALSE, 0)
         /\ posts' = posts \cup {[key |-> t, turn |-> t]}
         /\ UNCHANGED streams
  BY Asking
<1>3. phase[t] = "none" /\ phase'[t] = "posted" /\ t \notin KeysInUse /\ t # 0
  BY <1>1, <1>2 DEF NextTurn, Unused, KeyInv, KnownKeys, AskedOnce, Registered, ServerShape
<1>4. \A i \in DOMAIN shown' :
         \/ i <= n /\ i \in DOMAIN shown /\ shown'[i] = shown[i]
         \/ /\ i = n + 1 /\ shown'[i].who = "user" /\ shown'[i].turn = t
            /\ shown'[i].key = 0 /\ ~shown'[i].known
         \/ /\ i = n + 2 /\ shown'[i].who = "reply" /\ shown'[i].turn = t
            /\ shown'[i].key = t /\ ~shown'[i].known
  BY <1>2 DEF Bubble
<1>5. \A i \in DOMAIN shown : /\ shown[i].key # t
                              /\ shown[i].who = "user" => shown[i].turn # t
  BY <1>3 DEF KeysInUse, OnceInv, AskedTurns
<1>6. AskedTurns'
  BY <1>2, <1>3, <1>4, AskedCarry DEF KeyInv, OnceInv
<1>8. UsersOnce'
  BY <1>4, <1>5 DEF OnceInv, UsersOnce
<1>9. KnownOnce'
  BY <1>4 DEF OnceInv, KnownOnce
<1>10. KeysOnce'
  BY <1>3, <1>4, <1>5 DEF OnceInv, KeysOnce
<1>11. SameTurn'
  <2>1. (\A s \in streams : s.key # t /\ s.key # 0) /\ (\A p \in posts : p.key # t /\ p.key # 0)
    BY <1>1, <1>3 DEF KeysInUse, TabShape, Stream, Post
  <2>2. \A i \in DOMAIN shown', s \in streams : shown'[i].key = s.key => shown'[i].turn = s.turn
    BY <1>4, <2>1 DEF OnceInv, SameTurn
  <2>3. \A i \in DOMAIN shown', p \in posts' : shown'[i].key = p.key => shown'[i].turn = p.turn
    <3>1. \A p \in posts' : p \in posts \/ (p.key = t /\ p.turn = t)
      BY <1>2
    <3> QED BY <1>3, <1>4, <1>5, <2>1, <3>1 DEF OnceInv, SameTurn
  <2> QED BY <1>2, <2>2, <2>3 DEF SameTurn
<1> QED BY <1>6, <1>8, <1>9, <1>10, <1>11 DEF OnceInv

\* A reply the tab begins to follow gets one more bubble, with a key of its own.
LEMMA FollowOnce ==
  ASSUME Shape, KeyInv, OnceInv, SnapOnce', Next, NEW t \in Turns, NEW k \in Keys, Follow(t, k),
         \A s \in streams : s.key # k, \A p \in posts : p.key # k,
         \A i \in DOMAIN shown : shown[i].key # k,
         UNCHANGED posts
  PROVE  OnceInv'
<1> USE TurnsAndKeys
<1> DEFINE b == Bubble("reply", t, k, FALSE, 0)
<1>1. shown' = Append(shown, b) /\ streams' = streams \cup {[key |-> k, turn |-> t, pos |-> 0]}
  BY DEF Follow
<1>2. b \in LooseBubbles /\ b.key = k /\ ~b.known /\ b.who = "reply" /\ b.turn = t /\ k # 0
  BY DEF Bubble, LooseBubbles
<1> HIDE DEF b
<1>3. \A i \in DOMAIN shown' : \/ i \in DOMAIN shown /\ shown'[i] = shown[i]
                               \/ i = Len(shown) + 1 /\ shown'[i] = b
  BY <1>1, <1>2, BubbleAdded DEF Shape
<1>4. AskedTurns'
  BY <1>2, <1>3, AskedCarry DEF KeyInv, OnceInv
<1>6. UsersOnce' /\ KnownOnce' /\ KeysOnce'
  BY <1>2, <1>3 DEF OnceInv, UsersOnce, KnownOnce, KeysOnce
<1>7. SameTurn'
  BY <1>1, <1>2, <1>3 DEF OnceInv, SameTurn
<1> QED BY <1>4, <1>6, <1>7 DEF OnceInv

\* A stream is of the turn its request was for.
LEMMA RegisterOnce ==
  ASSUME Shape, KeyInv, OnceInv, SnapOnce', Next, NEW t \in Turns, Register(t)
  PROVE  OnceInv'
<1>1. UNCHANGED shown
  BY DEF Register
<1>2. AskedTurns'
  BY <1>1, AskedCarry DEF KeyInv, OnceInv
<1>3. SameTurn'
  <2>1. CASE Active
    BY <1>1, <2>1 DEF Register, OnceInv, SameTurn
  <2>2. CASE ~Active
    <3>1. /\ posts' \subseteq posts
          /\ \A s \in streams' : s \in streams \/ \E p \in posts : p.turn = t /\ s.key = p.key /\ s.turn = t
      BY <2>2 DEF Register
    <3> QED BY <1>1, <3>1 DEF OnceInv, SameTurn
  <2> QED BY <2>1, <2>2
<1> QED BY <1>1, <1>2, <1>3 DEF OnceInv, UsersOnce, KnownOnce, KeysOnce

\* Requests and streams that end, and bubbles that stay or are let go of.
LEMMA FewerOnce ==
  ASSUME Shape, KeyInv, OnceInv, SnapOnce', Next, streams' \subseteq streams,
         posts' \subseteq posts, DOMAIN shown' = DOMAIN shown,
         \A i \in DOMAIN shown : /\ shown'[i].who = shown[i].who /\ shown'[i].turn = shown[i].turn
                                 /\ shown'[i].known = shown[i].known
                                 /\ shown'[i].key \in {0, shown[i].key}
  PROVE  OnceInv'
<1> USE TurnsAndKeys
<1>1. (\A s \in streams : s.key # 0) /\ (\A p \in posts : p.key # 0)
  BY DEF Shape, TabShape, Stream, Post
<1>2. AskedTurns'
  BY AskedCarry DEF KeyInv, OnceInv
<1>3. SameTurn'
  BY <1>1 DEF OnceInv, SameTurn
<1> QED BY <1>2, <1>3 DEF OnceInv, UsersOnce, KnownOnce, KeysOnce

\* Letting go of a bubble changes nothing of whose it is.
LEMMA ReleaseOnce ==
  ASSUME Shape, KeyInv, OnceInv, SnapOnce', Next,
         \/ \E p \in posts : Refused(p)
         \/ \E s \in streams : ReadEnd(s) \/ ReadBroken(s)
  PROVE  OnceInv'
<1>1. \E k \in Nat \cup Keys : shown' = [i \in DOMAIN shown |->
                IF shown[i].key = k THEN [shown[i] EXCEPT !.key = 0] ELSE shown[i]]
  <2>1. CASE \E p \in posts : Refused(p)
    BY <2>1 DEF Refused, Shape, TabShape, Post
  <2>2. CASE \E s \in streams : ReadEnd(s) \/ ReadBroken(s)
    BY <2>2 DEF ReadEnd, ReadBroken, StopReading, Shape, TabShape, Stream
  <2> QED BY <2>1, <2>2
<1>2. streams' \subseteq streams /\ posts' \subseteq posts
  BY DEF Refused, ReadEnd, ReadBroken, StopReading
<1>3. \A i \in DOMAIN shown : shown[i] \in LooseBubbles
  BY DEF Shape, TabShape
<1>4. /\ DOMAIN shown' = DOMAIN shown
      /\ \A i \in DOMAIN shown : shown'[i] = shown[i] \/ shown'[i] = [shown[i] EXCEPT !.key = 0]
  BY <1>1, ReleasedBubbles DEF Shape
<1>5. \A i \in DOMAIN shown : /\ shown'[i].who = shown[i].who /\ shown'[i].turn = shown[i].turn
                              /\ shown'[i].known = shown[i].known
                              /\ shown'[i].key \in {0, shown[i].key}
  BY <1>3, <1>4 DEF LooseBubbles
<1> QED BY <1>2, <1>4, <1>5, FewerOnce

\* A page that is loaded shows each row once.
LEMMA LoadOnce ==
  ASSUME Shape, KeyInv, RowInv, OnceInv, SnapOnce', Next, LoadPage
  PROVE  OnceInv'
<1> USE TurnsAndKeys
<1>1. shown' = Loaded(rows) /\ UNCHANGED <<streams, posts, phase>>
  BY DEF LoadPage, server
<1>2. /\ \A i, j \in DOMAIN shown' :
               shown'[i].who = shown'[j].who /\ shown'[i].turn = shown'[j].turn => i = j
      /\ \A i \in DOMAIN shown' : phase[shown'[i].turn] /= "none"
  BY <1>1, LoadedOnce DEF Shape
<1>3. \A i \in DOMAIN shown' : shown'[i].key = 0
  BY <1>1, LoadedBubbles DEF Shape
<1>4. (\A s \in streams : s.key # 0) /\ (\A p \in posts : p.key # 0)
  BY DEF Shape, TabShape, Stream, Post
<1>5. AskedTurns'
  BY <1>1, <1>2, AskedCarry DEF KeyInv, OnceInv
<1>6. UsersOnce' /\ KnownOnce' /\ KeysOnce'
  BY <1>2, <1>3 DEF UsersOnce, KnownOnce, KeysOnce
<1>7. SameTurn'
  BY <1>1, <1>3, <1>4 DEF SameTurn
<1> QED BY <1>5, <1>6, <1>7 DEF OnceInv

\* A reply that is done takes its row's id in one bubble: a copy that was loaded
\* meanwhile has it already.
LEMMA ReadOnce ==
  ASSUME Shape, KeyInv, OnceInv, SnapOnce', Next, NEW s \in streams, ReadEvent(s)
  PROVE  OnceInv'
<1> USE TurnsAndKeys
<1> DEFINE n == [s EXCEPT !.pos = @ + 1]
           u == CHOOSE i \in DOMAIN shown : shown[i].key = s.key
<1>1. TabShape /\ s \in Stream /\ \A i \in DOMAIN shown : shown[i] \in LooseBubbles
  BY DEF Shape, TabShape
<1>2. /\ streams' = (streams \ {s}) \cup {n} /\ shown' = AfterEvent(s)
      /\ UNCHANGED posts
  BY DEF ReadEvent
<1>3. n.key = s.key /\ n.turn = s.turn /\ s.key # 0
  BY <1>1 DEF Stream
<1>4. \A i \in DOMAIN shown : shown[i].key = s.key => u = i /\ shown[i].turn = s.turn
  BY <1>3 DEF OnceInv, KeysOnce, SameTurn
<1> HIDE DEF n, u
<1>5. PICK f \in Injection(DOMAIN shown', DOMAIN shown) :
         \A k \in DOMAIN shown' :
            \/ shown'[k] = shown[f[k]]
            \/ /\ shown[f[k]].who = "user"
               /\ shown'[k] = [shown[f[k]] EXCEPT !.known = TRUE]
            \/ shown'[k] = [shown[f[k]] EXCEPT !.text = @ + 1]
            \/ /\ shown[f[k]].key = s.key /\ ~LoadedElsewhere(s)
               /\ shown'[k] = [shown[f[k]] EXCEPT !.known = TRUE]
  BY <1>1, <1>2, EventBubbles
<1>6. \A k \in DOMAIN shown' : f[k] \in DOMAIN shown /\ shown[f[k]] \in LooseBubbles
  BY <1>1 DEF Injection
<1>7. \A k \in DOMAIN shown' :
         /\ shown'[k].who = shown[f[k]].who /\ shown'[k].turn = shown[f[k]].turn
         /\ shown'[k].key = shown[f[k]].key
  BY <1>5, <1>6 DEF LooseBubbles
<1>8. \A k \in DOMAIN shown' :
         \/ shown'[k].known = shown[f[k]].known
         \/ shown'[k].who = "user"
         \/ shown[f[k]].key = s.key /\ ~LoadedElsewhere(s)
  BY <1>5, <1>6 DEF LooseBubbles
<1>9. ASSUME ~LoadedElsewhere(s), NEW k \in DOMAIN shown', shown[f[k]].key = s.key
      PROVE  /\ f[k] = u
             /\ \A i \in DOMAIN shown \ {u} :
                   ~(shown[i].known /\ shown[i].who = "reply" /\ shown[i].turn = shown[u].turn)
  BY <1>4, <1>6, <1>9 DEF LoadedElsewhere
<1>10. UsersOnce' /\ KnownOnce' /\ KeysOnce'
  <2>1. \A k \in DOMAIN shown' :
            /\ shown'[k].who = shown[f[k]].who /\ shown'[k].turn = shown[f[k]].turn
            /\ shown'[k].key \in {0, shown[f[k]].key}
    BY <1>7
  <2>2. \A k \in DOMAIN shown' :
            \/ shown'[k].known = shown[f[k]].known
            \/ shown'[k].who = "user"
            \/ /\ f[k] = u
               /\ \A i \in DOMAIN shown \ {u} :
                     ~(shown[i].known /\ shown[i].who = "reply" /\ shown[i].turn = shown[u].turn)
    BY <1>8, <1>9
  <2> QED BY <2>1, <2>2, PlacesCarry DEF OnceInv
<1>11. AskedTurns'
  BY <1>2, <1>6, <1>7, AskedCarry DEF KeyInv, OnceInv
<1>12. SameTurn'
  BY <1>2, <1>3, <1>6, <1>7 DEF OnceInv, SameTurn
<1> QED BY <1>10, <1>11, <1>12 DEF OnceInv

\* A reload shows what it fetched, and after it what is being streamed in.
LEMMA ShowOnce ==
  ASSUME Shape, KeyInv, OnceInv, SnapOnce', Next, Shows
  PROVE  OnceInv'
<1> USE TurnsAndKeys
<1>1. TabShape
  BY DEF Shape
<1>2. PICK a \in Answered : shown' = shown \/ shown' = a.snap \o Live
  BY ShowsIs
<1>3. /\ a \in Answer /\ a.snap \in Seq(LooseBubbles)
      /\ \A i \in DOMAIN a.snap : a.snap[i].key = 0
      /\ UNCHANGED <<streams, posts, phase>>
  <2>1. a \in Answer
    BY <1>1 DEF Answered, TabShape
  <2> QED BY <2>1, ShowsIs DEF Answer, KeyInv, SnapFree, server
<1>4. CASE shown' = shown
  <2>1. AskedTurns'
    BY <1>4, AskedCarry DEF KeyInv, OnceInv
  <2> QED BY <1>3, <1>4, <2>1 DEF OnceInv, UsersOnce, KnownOnce, KeysOnce, SameTurn
<1>5. CASE shown' = a.snap \o Live
  <2> DEFINE m == Len(a.snap)
  <2>1. a.snap \in Seq(LooseBubbles) /\ Live \in Seq(LooseBubbles) /\ m \in Nat
    BY <1>1, <1>3, LiveBubbles
  <2>2. PICK f \in Injection(DOMAIN Live, DOMAIN shown) :
           \A k \in DOMAIN Live : /\ Live[k] = shown[f[k]] /\ shown[f[k]].who = "reply"
                                  /\ ~shown[f[k]].known
    BY <1>1, LiveBubbles
  <2>3. /\ \A k \in DOMAIN Live : f[k] \in DOMAIN shown
        /\ \A k, l \in DOMAIN Live : f[k] = f[l] => k = l
    BY DEF Injection, IsInjective
  <2>4. \A i \in DOMAIN shown' : /\ i \in Nat
                                 /\ \/ i \in DOMAIN a.snap /\ shown'[i] = a.snap[i]
                                    \/ i - m \in DOMAIN Live /\ shown'[i] = Live[i - m]
    <3>1. shown' \in Seq(LooseBubbles)
      BY <1>5, <2>1, ConcatProperties
    <3> QED BY <1>5, <2>1, <3>1, JoinedEntries
  <2> HIDE DEF m
  <2>5. \A i \in DOMAIN shown' :
           \/ i \in DOMAIN a.snap /\ shown'[i] = a.snap[i] /\ shown'[i].key = 0
           \/ /\ i - m \in DOMAIN Live /\ shown'[i] = shown[f[i - m]]
              /\ shown'[i].who = "reply" /\ ~shown'[i].known /\ f[i - m] \in DOMAIN shown
    BY <1>3, <2>2, <2>3, <2>4
  <2>6. \A i, j \in DOMAIN shown' : i - m \in DOMAIN Live /\ j - m \in DOMAIN Live
                                    /\ f[i - m] = f[j - m] => i = j
    <3>1. \A i, j \in DOMAIN shown' : i - m \in DOMAIN Live /\ j - m \in DOMAIN Live
                                    /\ f[i - m] = f[j - m] => i - m = j - m
      BY <2>3
    <3> QED BY <2>1, <2>4, <3>1 DEF m
  <2>7. AskedTurns'
    <3>1. \A i \in DOMAIN shown' : shown'[i].who = "user" => phase'[shown'[i].turn] /= "none"
      BY <1>3, <2>5 DEF OnceInv, SnapOnce
    <3> QED BY <3>1, AskedCarry DEF KeyInv, OnceInv
  <2>8. UsersOnce' /\ KnownOnce'
    BY <2>5 DEF OnceInv, SnapOnce, UsersOnce, KnownOnce
  <2>9. KeysOnce'
    <3> SUFFICES ASSUME NEW i \in DOMAIN shown', NEW j \in DOMAIN shown',
                        shown'[i].key = shown'[j].key, shown'[i].key /= 0
                 PROVE  i = j
      BY DEF KeysOnce
    <3>1. /\ i - m \in DOMAIN Live /\ shown'[i] = shown[f[i - m]] /\ f[i - m] \in DOMAIN shown
          /\ j - m \in DOMAIN Live /\ shown'[j] = shown[f[j - m]] /\ f[j - m] \in DOMAIN shown
      BY <2>5
    <3>2. f[i - m] = f[j - m]
      BY <3>1 DEF OnceInv, KeysOnce
    <3> QED BY <2>6, <3>1, <3>2
  <2>10. SameTurn'
    <3>1. (\A s \in streams : s.key # 0) /\ (\A p \in posts : p.key # 0)
      BY <1>1 DEF TabShape, Stream, Post
    <3> QED BY <1>3, <2>5, <3>1 DEF OnceInv, SameTurn
  <2> QED BY <2>7, <2>8, <2>9, <2>10 DEF OnceInv
<1> QED BY <1>2, <1>4, <1>5

\* A message that the screen has is not shown again when it is announced.
LEMMA MessageOnce ==
  ASSUME Shape, KeyInv, OnceInv, SnapOnce', Next, OnMessage
  PROVE  OnceInv'
<1> USE TurnsAndKeys
<1> DEFINE t == Ev.turn
           b == Bubble("user", t, 0, TRUE, 0)
<1>1. TabShape /\ wire \in Seq(Told)
  BY DEF Shape, FeedShape
<1>2. /\ wire /= <<>> /\ wire[1].turn = t /\ wire[1].type = "message" /\ 1 \in DOMAIN wire
      /\ UNCHANGED <<phase, streams, posts>>
  BY <1>1 DEF OnMessage, Receive, Ev, server
<1>3. t \in Turns /\ phase[t] /= "none"
  <2>1. wire[1] \in Told
    BY <1>1, <1>2
  <2>2. wire[1].turn \in Turns
    BY <1>2, <2>1 DEF Told
  <2> QED BY <1>2, <2>2 DEF OnceInv, AskedTurns
<1>4. \/ shown' = shown
      \/ shown' = Append(shown, b) /\ \A i \in DOMAIN shown : ~(shown[i].who = "user" /\ shown[i].turn = t)
  BY DEF OnMessage, WithBubble, HasUser
<1> HIDE DEF t
<1>5. b \in LooseBubbles /\ b.who = "user" /\ b.turn = t /\ b.key = 0
  BY <1>3 DEF Bubble, LooseBubbles
<1> HIDE DEF b
<1>6. (\A s \in streams : s.key # 0) /\ (\A p \in posts : p.key # 0)
  BY <1>1 DEF TabShape, Stream, Post
<1>7. CASE shown' = shown
  BY <1>2, <1>7, FewerOnce
<1>8. CASE shown' = Append(shown, b) /\ \A i \in DOMAIN shown : ~(shown[i].who = "user" /\ shown[i].turn = t)
  <2>1. \A i \in DOMAIN shown' : \/ i \in DOMAIN shown /\ shown'[i] = shown[i]
                                 \/ i = Len(shown) + 1 /\ shown'[i] = b
    BY <1>1, <1>5, <1>8, BubbleAdded
  <2>2. AskedTurns'
    BY <1>2, <1>3, <1>5, <2>1, AskedCarry DEF KeyInv, OnceInv
  <2>3. UsersOnce' /\ KnownOnce' /\ KeysOnce'
    BY <1>5, <1>8, <2>1 DEF OnceInv, UsersOnce, KnownOnce, KeysOnce
  <2>4. SameTurn'
    BY <1>2, <1>5, <1>6, <2>1 DEF OnceInv, SameTurn
  <2> QED BY <2>2, <2>3, <2>4 DEF OnceInv
<1> QED BY <1>4, <1>7, <1>8

\* A step puts no second bubble of a message, or of a saved reply, on the screen.
LEMMA OnceStep ==
  ASSUME Shape, KeyInv, RowInv, OnceInv, Next
  PROVE  OnceInv'
<1> USE TurnsAndKeys
<1>1. TabShape /\ ServerShape /\ SnapOnce'
  BY SnapsOnce DEF Shape, KeyInv, OnceInv
<1>2. CASE Send \/ EditMessage
  BY <1>1, <1>2, AskOnce
<1>3. CASE \E t \in Turns : Register(t)
  BY <1>1, <1>3, RegisterOnce
<1>4. CASE AnswerResume /\ Resumable # 0
  <2>1. Follow(Resumable, ResumeKey) /\ resume = "asked" /\ UNCHANGED posts
    BY <1>4 DEF AnswerResume
  <2>2. Resumable \in Turns /\ ResumeKey \notin KeysInUse
    BY <1>1, <1>4, <2>1 DEF Resumable, ServerShape, Turns, KeyInv, ResumeFree
  <2> QED BY <1>1, <2>1, <2>2, FollowOnce DEF KeysInUse
<1>5. ASSUME NEW t \in Turns, AnswerAttach(t), Resumable # 0
      PROVE  OnceInv'
  <2>1. Follow(Resumable, t) /\ t \in attach /\ UNCHANGED posts
    BY <1>5 DEF AnswerAttach
  <2>2. Resumable \in Turns
    BY <1>1, <1>5 DEF Resumable, ServerShape, Turns
  <2>4. /\ \A s \in streams : s.key # t
        /\ \A p \in posts : p.key # t
        /\ \A i \in DOMAIN shown : shown[i].key # t
    BY <2>1 DEF KeyInv, AttachApart, OwnPosts
  <2> QED BY <1>1, <2>1, <2>2, <2>4, FollowOnce
<1>6. CASE \E s \in streams : ReadEvent(s)
  BY <1>1, <1>6, ReadOnce
<1>7. CASE \/ \E p \in posts : Refused(p)
           \/ \E s \in streams : ReadEnd(s) \/ ReadBroken(s)
  BY <1>1, <1>7, ReleaseOnce
<1>8. CASE LoadPage
  BY <1>1, <1>8, LoadOnce
<1>10. CASE Shows
  BY <1>1, <1>10, ShowOnce
<1>11. CASE OnMessage
  BY <1>1, <1>11, MessageOnce
<1>12. CASE UNCHANGED shown /\ streams' \subseteq streams /\ posts' \subseteq posts
  <2>1. AskedTurns'
    BY <1>12, AskedCarry DEF KeyInv, OnceInv
  <2>2. SameTurn'
    BY <1>12 DEF OnceInv, SameTurn
  <2> QED BY <1>1, <1>12, <2>1, <2>2 DEF OnceInv, UsersOnce, KnownOnce, KeysOnce
<1>13. ASSUME \/ StartElsewhere \/ CheckAccess \/ Subscribe \/ Restart \/ CutFeed \/ RemoveMember
              \/ Detach \/ Mount \/ Reconnect \/ Ignore \/ OnTurnStarted \/ OnReload \/ OnRemoved
              \/ TakeThread
              \/ (AnswerResume \/ AttachAnswered) /\ Resumable = 0
              \/ \E t \in Turns : Start(t) \/ SaveReply(t) \/ EndTurn(t) \/ GraceExpires(t)
       PROVE  UNCHANGED shown /\ streams' \subseteq streams /\ posts' \subseteq posts
  <2>1. CASE Restart \/ OnReload \/ TakeThread
    BY <2>1 DEF Restart, OnReload, TakeThread
  <2>2. CASE \/ OnRemoved \/ Mount \/ OnTurnStarted
             \/ (AnswerResume \/ AttachAnswered) /\ Resumable = 0
    BY <2>2 DEF OnRemoved, Mount, OnTurnStarted, AnswerResume, AttachAnswered, AnswerAttach
  <2>3. CASE \/ StartElsewhere \/ CheckAccess \/ Subscribe \/ CutFeed \/ RemoveMember \/ Detach
             \/ Reconnect \/ Ignore
             \/ \E t \in Turns : Start(t) \/ SaveReply(t) \/ EndTurn(t) \/ GraceExpires(t)
    BY <2>3 DEF StartElsewhere, CheckAccess, Subscribe, CutFeed, RemoveMember, Detach, Reconnect,
       Ignore, Start, SaveReply, EndTurn, GraceExpires, tab
  <2> QED BY <1>13, <2>1, <2>2, <2>3
<1> QED
  BY <1>2, <1>3, <1>4, <1>5, <1>6, <1>7, <1>8, <1>10, <1>11, <1>12, <1>13
  DEF Next, Server, Answers, AttachAnswered, Faults, Person, Browser, Shows, OnEvent

-----------------------------------------------------------------------------
(* Done: a reply without its row's id is one that is being read, or has none *)

\* Only the last event of a turn takes a stream to its end.
EndRead == \A s \in streams : s.pos > Deltas + 1 => phase[s.turn] = "ended"

\* With it comes the id of the reply's row, if it was saved.
DoneKnown ==
    \A i \in DOMAIN shown, s \in streams :
        shown[i].key = s.key /\ s.pos > Deltas + 1 /\ s.turn \in kept => shown[i].known

Writers == {s.key : s \in streams} \cup {p.key : p \in posts}

Backed == ~lost => \A i \in DOMAIN shown : shown[i].key /= 0 => shown[i].key \in Writers

\* Nothing has passed this screen by, and no reload is about to replace it.
Calm == ~behind /\ ~lost /\ reload.stage = "none"

\* What no stream writes any more has its row's id, or will never have a row.
Orphans ==
    Calm => \A i \in DOMAIN shown :
        shown[i].who = "reply" /\ ~shown[i].known /\ shown[i].key = 0
        => shown[i].turn \notin kept /\ phase[shown[i].turn] = "ended"

DoneInv == EndRead /\ DoneKnown /\ Backed /\ Orphans

\* A turn that has ended has its reply saved by then or never.
LEMMA EndStays ==
  ASSUME ServerShape, Next
  PROVE  \A t \in Turns : phase[t] = "ended" => phase'[t] = "ended" /\ (t \in kept' => t \in kept)
<1> DEFINE Goal == \A t \in Turns : phase[t] = "ended" => phase'[t] = "ended" /\ (t \in kept' => t \in kept)
<1>1. ASSUME NEW t \in Turns, \/ Start(t) \/ Register(t) \/ EndTurn(t)
      PROVE  Goal
  BY <1>1 DEF Start, Register, EndTurn, ServerShape
<1>2. ASSUME NEW t \in Turns, SaveReply(t)
      PROVE  Goal
  BY <1>2 DEF SaveReply, ServerShape
<1>3. ASSUME Restart
      PROVE  Goal
  BY <1>3 DEF Restart, ServerShape
<1>4. ASSUME StartElsewhere
      PROVE  Goal
  BY <1>4 DEF StartElsewhere, NextTurn, Unused, ServerShape
<1>5. ASSUME Send \/ EditMessage
      PROVE  Goal
  <2>1. PICK t \in Turns : NextTurn(t) /\ phase' = [phase EXCEPT ![t] = "posted"]
    BY <1>5 DEF Send, EditMessage, AskFor
  <2>2. UNCHANGED kept
    BY <1>5 DEF Send, EditMessage
  <2> QED BY <2>1, <2>2 DEF NextTurn, Unused, ServerShape
<1>6. ASSUME UNCHANGED <<phase, kept>>
      PROVE  Goal
  BY <1>6
<1>7. ASSUME \/ Answers \/ CutFeed \/ RemoveMember \/ Detach \/ LoadPage \/ Mount \/ Browser
             \/ \E t \in Turns : GraceExpires(t)
      PROVE  UNCHANGED <<phase, kept>>
  BY <1>7 DEF Answers, AttachAnswered, AnswerResume, AnswerAttach, CheckAccess, Subscribe,
       TakeThread, CutFeed, RemoveMember, Detach, LoadPage, Mount, Browser, Shows, Reconnect,
       ShowThread, ShowEarlier, Show, OnEvent, Ignore, OnMessage, OnTurnStarted, OnReload,
       OnRemoved, Refused, ReadEvent, ReadEnd, ReadBroken, StopReading, GraceExpires, server
<1> HIDE DEF Goal
<1>8. Goal
  BY <1>1, <1>2, <1>3, <1>4, <1>5, <1>6, <1>7 DEF Next, Server, Faults, Person
<1> QED BY <1>8 DEF Goal

\* What has passed a screen by stays so until the thread is taken again, and
\* counts no more when that is shown.
LEMMA CalmCarries ==
  ASSUME Shape, Next, ~Shows
  PROVE  Calm' => Calm
<1>1. behind \in BOOLEAN /\ behind' \in BOOLEAN
  BY FlagStep DEF Shape, FlagShape
<1>2. CASE TakeThread
  BY <1>2, TakenIs DEF Calm
<1>3. CASE Restart \/ OnReload
  BY <1>1, <1>3 DEF Restart, OnReload, NoReload, history, Calm
<1>4. CASE \E t \in Turns : Register(t)
  BY <1>1, <1>4 DEF Register, Calm
<1>5. CASE OnMessage \/ OnTurnStarted \/ OnRemoved \/ Send \/ EditMessage \/ CutFeed
  BY <1>1, <1>5 DEF OnMessage, OnTurnStarted, OnRemoved, Send, EditMessage, CutFeed, history, tab, Calm
<1>6. CASE \/ \E p \in posts : Refused(p)
           \/ \E s \in streams : ReadEvent(s) \/ ReadEnd(s) \/ ReadBroken(s)
  BY <1>1, <1>6 DEF Refused, ReadEvent, ReadEnd, ReadBroken, StopReading, Calm
<1>7. CASE AnswerResume \/ AttachAnswered \/ LoadPage \/ Mount \/ Subscribe
  BY <1>1, <1>7 DEF AnswerResume, AttachAnswered, AnswerAttach, LoadPage, Mount, Subscribe,
       history, tab, Calm
<1>8. CASE UNCHANGED tab /\ UNCHANGED history
  BY <1>8 DEF tab, history, Calm
<1>9. ASSUME \/ StartElsewhere \/ CheckAccess \/ RemoveMember \/ Detach \/ Reconnect \/ Ignore
             \/ \E t \in Turns : Start(t) \/ SaveReply(t) \/ EndTurn(t) \/ GraceExpires(t)
      PROVE  UNCHANGED tab /\ UNCHANGED history
  BY <1>9 DEF StartElsewhere, CheckAccess, RemoveMember, Detach, Reconnect, Ignore, Start,
     SaveReply, EndTurn, GraceExpires
<1> QED
  BY <1>2, <1>3, <1>4, <1>5, <1>6, <1>7, <1>8, <1>9
  DEF Next, Server, Answers, AttachAnswered, Faults, Person, Browser, Shows, OnEvent

\* A step that ends no stream and reads none, whose new bubbles are somebody's
\* message, a loaded row, or written by a request or a stream of their own.
LEMMA DoneCarry ==
  ASSUME Shape, DoneInv, Next, ~Shows,
         \A s \in streams' : s \in streams \/ s.pos = 0,
         lost' \/ Writers \subseteq Writers',
         \A k \in DOMAIN shown' :
            \/ \E i \in DOMAIN shown : shown'[k] = shown[i]
            \/ shown'[k].key = 0 /\ (shown'[k].who = "user" \/ shown'[k].known)
            \/ /\ shown'[k].key /= 0 /\ shown'[k].key \in Writers'
               /\ \A s \in streams' : s.key = shown'[k].key => s.pos = 0
  PROVE  DoneInv'
<1> USE TurnsAndKeys
<1>1. /\ \A s \in streams : s \in Stream /\ s.turn \in Turns /\ s.pos \in Nat /\ s.key # 0
      /\ \A i \in DOMAIN shown : shown[i].turn \in Turns
  <2>1. \A s \in streams : s \in Stream
    BY DEF Shape, TabShape
  <2>2. \A i \in DOMAIN shown : shown[i] \in LooseBubbles
    BY DEF Shape, TabShape
  <2> QED BY <2>1, <2>2 DEF Stream, LooseBubbles
<1>2. \A t \in Turns : phase[t] = "ended" => phase'[t] = "ended" /\ (t \in kept' => t \in kept)
  BY EndStays DEF Shape
<1>3. \A s \in streams' : s.pos > Deltas + 1 => s \in streams
  OBVIOUS
<1>4. EndRead'
  BY <1>1, <1>2, <1>3 DEF DoneInv, EndRead
<1>5. DoneKnown'
  <2> SUFFICES ASSUME NEW k \in DOMAIN shown', NEW s \in streams',
                      shown'[k].key = s.key, s.pos > Deltas + 1, s.turn \in kept'
               PROVE  shown'[k].known
    BY DEF DoneKnown
  <2>1. s \in streams /\ s.key # 0 /\ s.pos # 0 /\ s.turn \in kept
    BY <1>1, <1>2, <1>3 DEF DoneInv, EndRead
  <2>2. PICK i \in DOMAIN shown : shown'[k] = shown[i]
    BY <2>1
  <2> QED BY <2>1, <2>2 DEF DoneInv, DoneKnown
<1>6. Backed'
  <2> SUFFICES ASSUME ~lost', NEW k \in DOMAIN shown', shown'[k].key /= 0
               PROVE  shown'[k].key \in Writers'
    BY DEF Backed
  <2>1. ~lost
    <3>1. lost' = lost \/ lost' = TRUE
      BY DEF Next, Server, Answers, AttachAnswered, Faults, Person, Browser, Shows, OnEvent,
           StartElsewhere, Start, Register, SaveReply, EndTurn, GraceExpires, AnswerResume,
           AnswerAttach, CheckAccess, Subscribe, TakeThread, Restart, CutFeed, RemoveMember,
           Detach, LoadPage, Mount, Send, EditMessage, Reconnect, Ignore, OnMessage,
           OnTurnStarted, OnReload, OnRemoved, Refused, ReadEvent, ReadEnd, ReadBroken,
           StopReading, tab
    <3> QED BY <3>1
  <2> QED BY <2>1 DEF DoneInv, Backed
<1>7. Orphans'
  <2> SUFFICES ASSUME Calm', NEW k \in DOMAIN shown', shown'[k].who = "reply",
                      ~shown'[k].known, shown'[k].key = 0
               PROVE  shown'[k].turn \notin kept' /\ phase'[shown'[k].turn] = "ended"
    BY DEF Orphans
  <2>1. Calm
    BY CalmCarries
  <2>2. PICK i \in DOMAIN shown : shown'[k] = shown[i]
    OBVIOUS
  <2>3. shown[i].turn \notin kept /\ phase[shown[i].turn] = "ended" /\ shown[i].turn \in Turns
    BY <1>1, <2>1, <2>2 DEF DoneInv, Orphans
  <2> QED BY <1>2, <2>2, <2>3
<1> QED BY <1>4, <1>5, <1>6, <1>7 DEF DoneInv

\* The bubble a stream lets go of has its id if it was read to its end, and
\* something has passed the screen by otherwise.
LEMMA ReleaseDone ==
  ASSUME Shape, KeyInv, OnceInv, DoneInv, Next,
         \/ \E p \in posts : Refused(p)
         \/ \E s \in streams : ReadEnd(s) \/ ReadBroken(s)
  PROVE  DoneInv'
<1> USE TurnsAndKeys
<1>1. /\ \A s \in streams : s \in Stream /\ s.turn \in Turns /\ s.pos \in Nat /\ s.key # 0
      /\ \A i \in DOMAIN shown : shown[i].turn \in Turns /\ shown[i] \in LooseBubbles
  <2>1. \A s \in streams : s \in Stream
    BY DEF Shape, TabShape
  <2>2. \A i \in DOMAIN shown : shown[i] \in LooseBubbles
    BY DEF Shape, TabShape
  <2> QED BY <2>1, <2>2 DEF Stream, LooseBubbles
<1>2. PICK k \in Nat \cup Keys :
         /\ shown' = [i \in DOMAIN shown |->
                        IF shown[i].key = k THEN [shown[i] EXCEPT !.key = 0] ELSE shown[i]]
         /\ Writers \ {k} \subseteq Writers'
         /\ \/ behind'
            \/ \E s \in streams : s.key = k /\ s.pos > Deltas + 1
  <2>1. CASE \E p \in posts : Refused(p)
    BY <2>1 DEF Refused, Shape, TabShape, Post, Writers
  <2>2. ASSUME NEW s \in streams, ReadEnd(s)
        PROVE  s.pos > Deltas + 1
    BY <1>1, <2>2 DEF ReadEnd, Published
  <2>3. CASE \E s \in streams : ReadEnd(s) \/ ReadBroken(s)
    <3>1. PICK s \in streams : ReadEnd(s) \/ ReadBroken(s)
      BY <2>3
    <3>2. /\ shown' = [i \in DOMAIN shown |->
                    IF shown[i].key = s.key THEN [shown[i] EXCEPT !.key = 0] ELSE shown[i]]
          /\ streams' = streams \ {s} /\ UNCHANGED posts
      BY <3>1 DEF ReadEnd, ReadBroken, StopReading
    <3>3. behind' \/ s.pos > Deltas + 1
      BY <2>2, <3>1 DEF ReadBroken
    <3>4. s.key \in Keys
      BY <1>1 DEF Stream
    <3>5. Writers \ {s.key} \subseteq Writers'
      BY <3>2 DEF Writers
    <3> QED BY <3>2, <3>3, <3>4, <3>5
  <2> QED BY <2>1, <2>3
<1>3. /\ streams' \subseteq streams /\ UNCHANGED <<phase, kept, lost>>
      /\ posts' # posts \/ streams' # streams
  BY DEF Refused, ReadEnd, ReadBroken, StopReading, server
<1>4. /\ DOMAIN shown' = DOMAIN shown
      /\ \A i \in DOMAIN shown :
            /\ shown'[i].who = shown[i].who /\ shown'[i].turn = shown[i].turn
            /\ shown'[i].known = shown[i].known
            /\ \/ shown'[i].key = shown[i].key /\ shown[i].key # k
               \/ shown'[i].key = 0 /\ shown[i].key = k
  BY <1>1, <1>2 DEF LooseBubbles
<1>5. EndRead' /\ DoneKnown'
  <2>1. \A i \in DOMAIN shown, s \in streams' : shown'[i].key = s.key => shown[i].key = s.key
    BY <1>1, <1>3, <1>4
  <2> QED BY <1>3, <1>4, <2>1 DEF DoneInv, EndRead, DoneKnown
<1>6. Backed'
  BY <1>2, <1>3, <1>4 DEF DoneInv, Backed
<1>7. Orphans'
  <2> SUFFICES ASSUME Calm', NEW i \in DOMAIN shown', shown'[i].who = "reply",
                      ~shown'[i].known, shown'[i].key = 0
               PROVE  shown'[i].turn \notin kept' /\ phase'[shown'[i].turn] = "ended"
    BY DEF Orphans
  <2>1. Calm /\ ~behind'
    <3>1. ~Shows
      BY <1>3, ShowsIs
    <3> QED BY <3>1, CalmCarries DEF Calm
  <2>2. CASE shown[i].key = 0
    BY <1>3, <1>4, <2>1, <2>2 DEF DoneInv, Orphans
  <2>3. CASE shown[i].key # 0
    <3>1. shown[i].key = k
      BY <1>4, <2>3
    <3>2. PICK s \in streams : s.key = k /\ s.pos > Deltas + 1
      BY <1>2, <2>1
    <3>3. shown[i].turn = s.turn
      BY <1>4, <3>1, <3>2 DEF OnceInv, SameTurn
    <3>4. phase[s.turn] = "ended" /\ s.turn \notin kept
      BY <1>4, <3>1, <3>2 DEF DoneInv, EndRead, DoneKnown
    <3> QED BY <1>3, <1>4, <3>3, <3>4
  <2> QED BY <2>2, <2>3
<1> QED BY <1>5, <1>6, <1>7 DEF DoneInv

\* The last event of a saved reply brings its id.
LEMMA ReadDone ==
  ASSUME Shape, KeyInv, OnceInv, DoneInv, Next, NEW s \in streams, ReadEvent(s)
  PROVE  DoneInv'
<1> USE TurnsAndKeys
<1> DEFINE n == [s EXCEPT !.pos = @ + 1]
<1>1. /\ TabShape
      /\ \A i \in DOMAIN shown : shown[i].turn \in Turns /\ shown[i] \in LooseBubbles
      /\ \A r \in streams : r \in Stream
  <2>1. \A i \in DOMAIN shown : shown[i] \in LooseBubbles
    BY DEF Shape, TabShape
  <2> QED BY <2>1 DEF Shape, TabShape, LooseBubbles
<1>2. s \in Stream /\ s.turn \in Turns /\ s.pos \in Nat /\ s.key # 0
  BY <1>1 DEF Stream
<1>3. /\ streams' = (streams \ {s}) \cup {n} /\ shown' = AfterEvent(s)
      /\ s.pos < Published(s.turn)
      /\ UNCHANGED <<phase, kept, posts, lost>>
  BY DEF ReadEvent, server
<1>4. n.key = s.key /\ n.turn = s.turn /\ n.pos = s.pos + 1
  BY <1>2 DEF Stream
<1> HIDE DEF n
<1>5. \A r \in streams : r.key = s.key => r = s
  BY DEF KeyInv, StreamsApart
<1>6. PICK f \in Injection(DOMAIN shown', DOMAIN shown) :
         \A k \in DOMAIN shown' :
            \/ /\ shown'[k] = shown[f[k]]
               /\ shown[f[k]].key = s.key =>
                     s.pos = 0 \/ (s.pos > Deltas /\ s.turn \notin kept)
            \/ /\ s.pos = 0 /\ shown[f[k]].who = "user"
               /\ shown'[k] = [shown[f[k]] EXCEPT !.known = TRUE]
            \/ /\ s.pos \in 1..Deltas /\ shown[f[k]].key = s.key
               /\ shown'[k] = [shown[f[k]] EXCEPT !.text = @ + 1]
            \/ /\ s.pos > Deltas /\ shown[f[k]].key = s.key
               /\ shown'[k] = [shown[f[k]] EXCEPT !.known = TRUE]
  BY <1>1, <1>2, <1>3, EventBubbles
<1>7. \A k \in DOMAIN shown' : f[k] \in DOMAIN shown /\ shown[f[k]] \in LooseBubbles
  BY <1>1 DEF Injection
<1>8. \A k \in DOMAIN shown' :
         /\ shown'[k].who = shown[f[k]].who /\ shown'[k].turn = shown[f[k]].turn
         /\ shown'[k].key = shown[f[k]].key
         /\ shown[f[k]].known => shown'[k].known
         /\ shown[f[k]].key = s.key => \/ s.pos <= Deltas
                                       \/ s.turn \notin kept
                                       \/ shown'[k].known
  BY <1>2, <1>6, <1>7 DEF LooseBubbles
<1>9. EndRead'
  <2>1. s.pos > Deltas => phase[s.turn] = "ended"
    BY <1>2, <1>3 DEF Published
  <2>2. n.pos > Deltas + 1 => s.pos > Deltas
    BY <1>2, <1>4
  <2> QED BY <1>3, <1>4, <2>1, <2>2 DEF DoneInv, EndRead
<1>10. DoneKnown'
  <2> SUFFICES ASSUME NEW k \in DOMAIN shown', NEW r \in streams',
                      shown'[k].key = r.key, r.pos > Deltas + 1, r.turn \in kept
               PROVE  shown'[k].known
    BY <1>3 DEF DoneKnown
  <2>1. CASE r = n
    BY <1>2, <1>4, <1>8, <2>1
  <2>2. CASE r \in streams
    BY <1>7, <1>8, <2>2 DEF DoneInv, DoneKnown
  <2> QED BY <1>3, <2>1, <2>2
<1>11. Backed'
  <2>1. Writers' = Writers
    BY <1>3, <1>4 DEF Writers
  <2> QED BY <1>3, <1>7, <1>8, <2>1 DEF DoneInv, Backed
<1>12. Orphans'
  <2>1. Calm' => Calm
    <3>1. streams' # streams
      BY <1>2, <1>3, <1>4
    <3>2. ~Shows
      BY <3>1, ShowsIs
    <3> QED BY <3>2, CalmCarries
  <2> QED BY <1>3, <1>7, <1>8, <2>1 DEF DoneInv, Orphans
<1> QED BY <1>9, <1>10, <1>11, <1>12 DEF DoneInv

\* A thread that is shown while the tab reads nothing has every id.
LEMMA ShowDone ==
  ASSUME Shape, KeyInv, SnapText, HoldIsBacked, DoneInv, Next, Shows
  PROVE  DoneInv'
<1> USE TurnsAndKeys
<1>1. TabShape /\ FlagShape
  BY DEF Shape
<1>2. UNCHANGED <<phase, kept, streams, posts, held, attach, resume>>
  BY ShowsIs DEF server
<1>3. \A k \in DOMAIN shown' : \/ \E i \in DOMAIN shown : shown'[k] = shown[i]
                               \/ shown'[k].key = 0
  <2>1. PICK a \in Answered : shown' = shown \/ shown' = a.snap \o Live
    BY ShowsIs
  <2>2. CASE shown' = a.snap \o Live
    <3>1. a \in Answer /\ \A i \in DOMAIN a.snap : a.snap[i].key = 0
      BY <1>1 DEF Answered, TabShape, KeyInv, SnapFree
    <3>2. a.snap \in Seq(LooseBubbles) /\ Live \in Seq(LooseBubbles)
      BY <1>1, <3>1, LiveBubbles DEF Answer
    <3>3. \A i \in DOMAIN shown' : \/ i \in DOMAIN a.snap /\ shown'[i] = a.snap[i]
                                   \/ \E k \in DOMAIN Live : shown'[i] = Live[k]
      BY <2>2, <3>2, JoinedEntries
    <3> QED BY <1>1, <3>1, <3>3, LiveFrom
  <2>3. CASE shown' = shown
    BY <2>3
  <2> QED BY <2>1, <2>2, <2>3
<1>4. (\A s \in streams : s.key # 0) /\ (\A p \in posts : p.key # 0)
  BY <1>1 DEF TabShape, Stream, Post
<1>5. EndRead' /\ DoneKnown'
  BY <1>2, <1>3, <1>4 DEF DoneInv, EndRead, DoneKnown
<1>6. Backed'
  <2>1. Writers' = Writers /\ (~lost' => ~lost)
    BY <1>1, <1>2, ShowsIs DEF Writers, TabShape
  <2> QED BY <1>3, <2>1 DEF DoneInv, Backed
<1>7. Orphans'
  <2> SUFFICES ASSUME Calm'
               PROVE  \A i \in DOMAIN shown' : shown'[i].known
    BY DEF Orphans
  <2>1. reload.stage = "taken" /\ shown' = reload.snap \o Live /\ Idle
    BY <1>1 DEF Calm, Shows, ShowThread, ShowEarlier, Show, FlagShape
  <2>2. held = 0
    BY <2>1 DEF Idle, HoldIsBacked
  <2>3. Live = <<>>
    BY <2>2 DEF Live
  <2>4. shown' = reload.snap
    BY <1>1, <2>1, <2>3 DEF TabShape, Answer
  <2> QED BY <2>4 DEF SnapText, Answered
<1> QED BY <1>5, <1>6, <1>7 DEF DoneInv

\* The steps by which a reply's bubble comes to be written, or nothing does.
LEMMA WritersCarry ==
  ASSUME Shape, KeyInv, DoneInv, Next, ~Shows,
         ~\E p \in posts : Refused(p),
         ~\E s \in streams : ReadEvent(s) \/ ReadEnd(s) \/ ReadBroken(s)
  PROVE  DoneInv'
<1> DEFINE Streaming == \A s \in streams' : s \in streams \/ s.pos = 0
           Writing == lost' \/ Writers \subseteq Writers'
           Bubbling == \A k \in DOMAIN shown' :
                          \/ \E i \in DOMAIN shown : shown'[k] = shown[i]
                          \/ shown'[k].key = 0 /\ (shown'[k].who = "user" \/ shown'[k].known)
                          \/ /\ shown'[k].key /= 0 /\ shown'[k].key \in Writers'
                             /\ \A s \in streams' : s.key = shown'[k].key => s.pos = 0
           Goal == Streaming /\ Writing /\ Bubbling
<1> USE TurnsAndKeys
<1>1. TabShape /\ ServerShape
  BY DEF Shape
<1>2. ASSUME Send \/ EditMessage
      PROVE  Goal
  <2>1. PICK t \in Turns, m \in Nat :
         /\ NextTurn(t)
         /\ \A i \in DOMAIN shown' :
                  \/ i <= m /\ i \in DOMAIN shown /\ shown'[i] = shown[i]
                  \/ i = m + 1 /\ shown'[i] = Bubble("user", t, 0, FALSE, 0)
                  \/ i = m + 2 /\ shown'[i] = Bubble("reply", t, t, FALSE, 0)
         /\ posts' = posts \cup {[key |-> t, turn |-> t]}
         /\ UNCHANGED streams
    BY <1>2, Asking
  <2>2. t \notin KeysInUse
    BY <2>1 DEF NextTurn, Unused, KeyInv, KnownKeys, AskedOnce, Registered
  <2>3. \A s \in streams' : s.key # t
    BY <2>1, <2>2 DEF KeysInUse
  <2> DEFINE new == [key |-> t, turn |-> t]
  <2>4. t \in Writers' /\ Writers \subseteq Writers' /\ t # 0
    <3>1. new \in posts' /\ new.key = t
      BY <2>1
    <3>2. posts \subseteq posts' /\ streams' = streams
      BY <2>1
    <3> QED BY <3>1, <3>2 DEF Writers
  <2>5. \A i \in DOMAIN shown' :
         \/ i \in DOMAIN shown /\ shown'[i] = shown[i]
         \/ shown'[i].key = 0 /\ shown'[i].who = "user"
         \/ shown'[i].key = t
    BY <2>1 DEF Bubble
  <2> QED BY <2>1, <2>3, <2>4, <2>5
<1>3. ASSUME NEW t \in Turns, NEW k \in Keys, Follow(t, k), UNCHANGED posts,
             \A s \in streams : s.key # k
      PROVE  Goal
  <2> DEFINE b == Bubble("reply", t, k, FALSE, 0)
  <2>1. shown' = Append(shown, b) /\ streams' = streams \cup {[key |-> k, turn |-> t, pos |-> 0]}
    BY <1>3 DEF Follow
  <2>2. b \in LooseBubbles /\ b.key = k /\ k # 0
    BY DEF Bubble, LooseBubbles
  <2> HIDE DEF b
  <2>3. \A i \in DOMAIN shown' : (i \in DOMAIN shown /\ shown'[i] = shown[i]) \/ shown'[i].key = k
    BY <1>1, <2>1, <2>2, BubbleAdded
  <2>4. k \in Writers' /\ Writers \subseteq Writers'
    BY <1>3, <2>1 DEF Writers
  <2>5. \A s \in streams' : s \in streams \/ s.pos = 0
    BY <2>1
  <2> QED BY <1>3, <2>2, <2>3, <2>4, <2>5
<1>4. ASSUME AnswerResume /\ Resumable # 0
      PROVE  Goal
  <2>1. Follow(Resumable, ResumeKey) /\ resume = "asked" /\ UNCHANGED posts
    BY <1>4 DEF AnswerResume
  <2>2. Resumable \in Turns /\ ResumeKey \notin KeysInUse
    BY <1>1, <1>4, <2>1 DEF Resumable, ServerShape, Turns, KeyInv, ResumeFree
  <2>3. \A s \in streams : s.key # ResumeKey
    BY <2>2 DEF KeysInUse
  <2> HIDE DEF Goal
  <2> QED BY <1>3, <2>1, <2>2, <2>3
<1>5. ASSUME NEW t \in Turns, AnswerAttach(t), Resumable # 0
      PROVE  Goal
  <2>1. Follow(Resumable, t) /\ t \in attach /\ UNCHANGED posts
    BY <1>5 DEF AnswerAttach
  <2>2. Resumable \in Turns
    BY <1>1, <1>5 DEF Resumable, ServerShape, Turns
  <2>3. \A s \in streams : s.key # t
    BY <2>1 DEF KeyInv, AttachApart
  <2> HIDE DEF Goal
  <2> QED BY <1>3, <2>1, <2>2, <2>3
<1>6. ASSUME NEW t \in Turns, Register(t)
      PROVE  Goal
  <2>1. UNCHANGED shown
    BY <1>6 DEF Register
  <2>2. CASE Active
    BY <1>6, <2>1, <2>2 DEF Register, Writers
  <2>3. CASE ~Active
    <3>1. /\ posts' = {p \in posts : p.turn /= t}
          /\ streams' = streams \cup {[key |-> p.key, turn |-> t, pos |-> 0] :
                                         p \in {q \in posts : q.turn = t}}
      BY <1>6, <2>3 DEF Register
    <3>2. Streaming
      BY <3>1
    <3>3. \A p \in posts : p \in posts' \/ \E s \in streams' : s.key = p.key
      <4> SUFFICES ASSUME NEW p \in posts, p.turn = t
                   PROVE  \E s \in streams' : s.key = p.key
        BY <3>1
      <4> DEFINE new == [key |-> p.key, turn |-> t, pos |-> 0]
      <4>1. new \in streams' /\ new.key = p.key
        BY <3>1
      <4> QED BY <4>1
    <3>4. Writing
      BY <3>1, <3>3 DEF Writers
    <3> QED BY <2>1, <3>2, <3>4
  <2> QED BY <2>2, <2>3
<1>7. ASSUME LoadPage
      PROVE  Goal
  <2>1. shown' = Loaded(rows) /\ UNCHANGED <<streams, posts>>
    BY <1>7 DEF LoadPage
  <2>2. \A i \in DOMAIN shown' : shown'[i].key = 0 /\ shown'[i].known
    BY <1>1, <2>1, LoadedBubbles
  <2> QED BY <2>1, <2>2 DEF Writers
<1>8. ASSUME OnMessage
      PROVE  Goal
  <2> DEFINE b == Bubble("user", Ev.turn, 0, TRUE, 0)
  <2>1. shown' = shown \/ shown' = Append(shown, b)
    BY <1>8 DEF OnMessage, WithBubble
  <2>2. b.key = 0 /\ b.who = "user" /\ shown \in Seq(LooseBubbles) /\ UNCHANGED <<streams, posts>>
    BY <1>1, <1>8 DEF Bubble, TabShape, OnMessage
  <2> HIDE DEF b
  <2>3. \A i \in DOMAIN Append(shown, b) :
           (i \in DOMAIN shown /\ Append(shown, b)[i] = shown[i]) \/ Append(shown, b)[i] = b
    BY <2>2
  <2> QED BY <2>1, <2>2, <2>3 DEF Writers
<1>9. ASSUME OnRemoved
      PROVE  Goal
  BY <1>9 DEF OnRemoved
<1>10. ASSUME UNCHANGED <<shown, streams, posts>>
       PROVE  Goal
  BY <1>10 DEF Writers
<1>11. ASSUME \/ StartElsewhere \/ CheckAccess \/ Subscribe \/ Restart \/ CutFeed \/ RemoveMember
              \/ Detach \/ Mount \/ Reconnect \/ Ignore \/ OnTurnStarted \/ OnReload \/ TakeThread
              \/ (AnswerResume \/ AttachAnswered) /\ Resumable = 0
              \/ \E t \in Turns : Start(t) \/ SaveReply(t) \/ EndTurn(t) \/ GraceExpires(t)
       PROVE  UNCHANGED <<shown, streams, posts>>
  <2>1. CASE \/ Restart \/ OnReload \/ TakeThread \/ Mount \/ OnTurnStarted
             \/ (AnswerResume \/ AttachAnswered) /\ Resumable = 0
    BY <2>1 DEF Restart, OnReload, TakeThread, Mount, OnTurnStarted, AnswerResume,
         AttachAnswered, AnswerAttach
  <2>2. CASE \/ StartElsewhere \/ CheckAccess \/ Subscribe \/ CutFeed \/ RemoveMember \/ Detach
             \/ Reconnect \/ Ignore
             \/ \E t \in Turns : Start(t) \/ SaveReply(t) \/ EndTurn(t) \/ GraceExpires(t)
    BY <2>2 DEF StartElsewhere, CheckAccess, Subscribe, CutFeed, RemoveMember, Detach, Reconnect,
       Ignore, Start, SaveReply, EndTurn, GraceExpires, tab
  <2> QED BY <1>11, <2>1, <2>2
<1> HIDE DEF Goal
<1>12. Goal
  BY <1>2, <1>4, <1>5, <1>6, <1>7, <1>8, <1>9, <1>10, <1>11
  DEF Next, Server, Answers, AttachAnswered, Faults, Person, Browser, Shows, OnEvent
<1>13. Streaming /\ Writing /\ Bubbling
  BY <1>12 DEF Goal
<1> QED BY <1>13, DoneCarry

\* No step leaves a saved reply without its id on a screen nothing has passed by.
LEMMA DoneStep ==
  ASSUME Shape, KeyInv, TextInv, HoldIsBacked, OnceInv, DoneInv, Next
  PROVE  DoneInv'
<1>1. CASE Shows
  BY <1>1, ShowDone DEF TextInv
<1>2. CASE \/ \E p \in posts : Refused(p)
           \/ \E s \in streams : ReadEnd(s) \/ ReadBroken(s)
  BY <1>2, ReleaseDone
<1>3. CASE \E s \in streams : ReadEvent(s)
  BY <1>3, ReadDone
<1>4. CASE /\ ~Shows /\ ~\E p \in posts : Refused(p)
           /\ ~\E s \in streams : ReadEvent(s) \/ ReadEnd(s) \/ ReadBroken(s)
  BY <1>4, WritersCarry
<1> QED BY <1>1, <1>2, <1>3, <1>4

-----------------------------------------------------------------------------
(* The theorems                                                             *)

TabInv == Shape /\ EndedTimers /\ RunningIsRegistered /\ RemovedHearNothing /\ HoldIsBacked
          /\ KeyInv /\ TextInv /\ RowInv /\ OnceInv /\ DoneInv

\* The invariant holds of a tab that is not open yet ...
LEMMA TabStart == Init => TabInv
<1> SUFFICES ASSUME Init
             PROVE  TabInv
  OBVIOUS
<1> USE TurnsAndKeys
<1>1. ServerShape /\ FlagShape /\ FeedShape
  <2>1. phase \in [Turns -> {"none"}] /\ target \in [Turns -> {0}]
    BY DEF Init
  <2>2. ServerShape
    BY <2>1 DEF Init, ServerShape
  <2>3. FlagShape
    <3>1. faults = 0 /\ 0 \in 0..MaxFaults
      BY DEF Init
    <3>2. /\ member = TRUE /\ detached = FALSE
          /\ behind = FALSE /\ stale = FALSE /\ slipped = FALSE
      BY DEF Init
    <3> QED BY <3>1, <3>2 DEF FlagShape
  <2>4. FeedShape
    <3>1. sub = "none" /\ wire = <<>> /\ hadError = FALSE
      BY DEF Init
    <3>2. <<>> \in Seq(Told)
      OBVIOUS
    <3> QED BY <3>1, <3>2 DEF FeedShape
  <2> QED BY <2>2, <2>3, <2>4
<1>2. TabShape
  <2>1. NoReload \in Answer /\ NoReload.stage = "none"
    BY DEF Answer, NoReload
  <2>2. shown \in Seq(LooseBubbles)
    BY DEF Init
  <2>3. attach = {} /\ asked = 0 /\ reload = NoReload /\ earlier = <<>>
    BY DEF Init
  <2>4. /\ page = "closed" /\ held = 0 /\ streaming = FALSE /\ streams = {} /\ posts = {}
        /\ resume = "none" /\ lost = FALSE
    BY DEF Init
  <2>5. streams \subseteq Stream /\ posts \subseteq Post /\ attach \subseteq Turns
    BY <2>3, <2>4
  <2>6. earlier \in Seq(Answer) /\ \A i \in DOMAIN earlier : earlier[i].stage /= "none"
    BY <2>3
  <2> QED BY <2>1, <2>2, <2>3, <2>4, <2>5, <2>6 DEF TabShape
<1>3. EndedTimers /\ RunningIsRegistered /\ RemovedHearNothing /\ HoldIsBacked
  BY DEF Init, EndedTimers, RunningIsRegistered, RemovedHearNothing, HoldIsBacked
<1>4. KeysInUse = {}
  BY DEF Init, KeysInUse
<1>5. \A a \in Answered : DOMAIN a.snap = {}
  BY DEF Init, Answered, NoReload
<1>6. KeyInv
  BY <1>4, <1>5 DEF Init, KeyInv, KnownKeys, AskedOnce, Announcements, ResumeFree, OwnPosts,
     AttachApart, StreamsApart, SnapFree
<1>7. TextInv
  BY <1>5 DEF Init, TextInv, StreamedText, AskedText, PlainBubbles, SnapText, WholeReplies
<1>9. RowInv /\ OnceInv
  BY <1>5 DEF Init, RowInv, OnceInv, AskedTurns, SnapOnce, UsersOnce, KnownOnce, KeysOnce, SameTurn
<1>8. DoneInv
  BY DEF Init, DoneInv, EndRead, DoneKnown, Backed, Orphans
<1> QED BY <1>1, <1>2, <1>3, <1>6, <1>7, <1>8, <1>9 DEF TabInv, Shape

\* ... and every step keeps it.
LEMMA TabNext == TabInv /\ [Next]_vars => TabInv'
<1> SUFFICES ASSUME TabInv, [Next]_vars
             PROVE  TabInv'
  OBVIOUS
<1>1. CASE Next
  <2>1. Shape'
    BY <1>1, ServerStep, FlagStep, FeedStep, TabStep DEF TabInv, Shape
  <2>2. EndedTimers' /\ RunningIsRegistered'
    BY <1>1, RegistryStep DEF TabInv, Shape
  <2>3. RemovedHearNothing' /\ HoldIsBacked'
    BY <1>1, CutOffStep, HoldStep DEF TabInv, Shape
  <2>4. KeyInv' /\ TextInv'
    BY <1>1, KeyStep, TextStep DEF TabInv
  <2>5. RowInv' /\ OnceInv'
    BY <1>1, RowStep, OnceStep DEF TabInv, Shape
  <2>6. DoneInv'
    BY <1>1, DoneStep DEF TabInv
  <2> QED BY <2>1, <2>2, <2>3, <2>4, <2>5, <2>6 DEF TabInv
<1>2. CASE UNCHANGED vars
  <2> USE <1>2 DEF vars, server, access, feed, tab, history
  <2>1. Shape'
    BY DEF TabInv, Shape, ServerShape, FlagShape, FeedShape, TabShape
  <2>2. EndedTimers' /\ RunningIsRegistered' /\ RemovedHearNothing' /\ HoldIsBacked'
    BY DEF TabInv, EndedTimers, RunningIsRegistered, RemovedHearNothing, HoldIsBacked
  <2>3. KeysInUse' = KeysInUse /\ Answered' = Answered
    BY DEF KeysInUse, Answered
  <2>4. KeyInv'
    BY <2>3 DEF TabInv, KeyInv, KnownKeys, AskedOnce, Announcements, ResumeFree, OwnPosts,
       AttachApart, StreamsApart, SnapFree, Registered
  <2>5. TextInv'
    BY <2>3 DEF TabInv, TextInv, StreamedText, AskedText, PlainBubbles, SnapText, WholeReplies
  <2>6. RowInv' /\ OnceInv'
    BY <2>3 DEF TabInv, RowInv, OnceInv, AskedTurns, SnapOnce, UsersOnce, KnownOnce, KeysOnce, SameTurn
  <2>7. DoneInv'
    BY DEF TabInv, DoneInv, EndRead, DoneKnown, Backed, Orphans, Writers, Calm
  <2> QED BY <2>1, <2>2, <2>4, <2>5, <2>6, <2>7 DEF TabInv
<1> QED BY <1>1, <1>2

\* The bound on the text, which the types ask for, is part of TextInv.
LEMMA TabTypes == TabInv => TypeOK
<1> SUFFICES ASSUME TabInv
             PROVE  TypeOK
  OBVIOUS
<1> USE TurnsAndKeys
<1>1. ServerShape /\ FlagShape /\ FeedShape /\ TabShape
  BY DEF TabInv, Shape
<1>2. wire \in Seq(Events)
  <2>1. Told \subseteq Events
    BY DEF Told, Events
  <2>2. wire \in Seq(Told)
    BY <1>1 DEF FeedShape
  <2> QED BY <2>1, <2>2, SeqMonotonic
<1>3. ASSUME NEW q \in Seq(LooseBubbles), \A i \in DOMAIN q : q[i].text <= Deltas
      PROVE  q \in Seq(Bubbles)
  <2>1. \A i \in DOMAIN q : q[i] \in LooseBubbles
    OBVIOUS
  <2>2. \A i \in DOMAIN q : q[i] \in Bubbles
    BY <1>3, <2>1 DEF LooseBubbles, Bubbles
  <2> QED BY <2>2
<1>4. shown \in Seq(Bubbles)
  BY <1>1, <1>3 DEF TabShape, TabInv, TextInv, PlainBubbles
<1>5. ASSUME NEW a \in Answered, a \in Answer, a.stage /= "none"
      PROVE  a \in Reload
  <2>1. a.snap \in Seq(LooseBubbles) /\ \A i \in DOMAIN a.snap : a.snap[i].text <= Deltas
    BY <1>5 DEF Answer, TabInv, TextInv, SnapText
  <2>2. a.snap \in Seq(Bubbles)
    BY <1>3, <2>1
  <2> QED BY <1>5, <2>2 DEF Answer, Reload
<1>6. reload \in Reload \cup {NoReload}
  BY <1>1, <1>5 DEF TabShape, Answered
<1>7. earlier \in Seq(Reload)
  <2>1. \A i \in DOMAIN earlier : earlier[i] \in Answer
    BY <1>1 DEF TabShape
  <2>2. \A i \in DOMAIN earlier : earlier[i] \in Reload
    BY <1>1, <1>5, <2>1 DEF TabShape, Answered
  <2> QED BY <1>1, <2>2 DEF TabShape
<1> QED BY <1>1, <1>2, <1>4, <1>6, <1>7 DEF TypeOK, ServerShape, FlagShape, FeedShape, TabShape

\* What holds of the connections at every moment: the registry has the running
\* turn through restarts and grace timers, a removed person's feed is cut, and a
\* hold on a reply always has a request or a stream that will end it
\* (turn-stream.ts:119-122, live.ts:89-105, chat-window.tsx:1034-1036).
THEOREM ScreenHolds == Spec => []ScreenInv
<1>1. Init => TabInv
  BY TabStart
<1>2. TabInv /\ [Next]_vars => TabInv'
  BY TabNext
<1>3. TabInv => ScreenInv
  BY TabTypes DEF TabInv, ScreenInv
<1> QED BY <1>1, <1>2, <1>3, PTL DEF Spec

\* A reply that carries its row's id is all there, however late the tab joined
\* the stream, and however many replies it reads at once (turn-stream.ts:126-145,
\* chat-window.tsx:1000-1024).
THEOREM RepliesAreWhole == Spec => []WholeReplies
<1>1. Init => TabInv
  BY TabStart
<1>2. TabInv /\ [Next]_vars => TabInv'
  BY TabNext
<1>3. TabInv => WholeReplies
  BY DEF TabInv, TextInv
<1> QED BY <1>1, <1>2, <1>3, PTL DEF Spec

\* When everything has settled, a screen that nothing has passed by shows each
\* message and each saved reply once, also when the same reply was loaded, resumed
\* and attached to at the same time (chat-window.tsx:1004-1023).
THEOREM ShownOnceHolds == Spec => []ShownOnce
<1>1. Init => TabInv
  BY TabStart
<1>2. TabInv /\ [Next]_vars => TabInv'
  BY TabNext
<1>3. TabInv => ShownOnce
  <2> SUFFICES ASSUME TabInv, Quiet, ~behind,
                      NEW i \in DOMAIN shown, NEW j \in DOMAIN shown,
                      shown[i].who = shown[j].who, shown[i].turn = shown[j].turn,
                      shown[i].who = "user" \/ shown[i].turn \in kept
               PROVE  i = j
    BY DEF ShownOnce
  <2>1. Calm /\ Writers = {} /\ ~lost
    BY DEF Quiet, InChat, Idle, NoneAsked, NoReload, Calm, Writers
  <2>2. shown[i].key = 0 /\ shown[j].key = 0
    BY <2>1 DEF TabInv, DoneInv, Backed
  <2>3. CASE shown[i].who = "user"
    BY <2>3 DEF TabInv, OnceInv, UsersOnce
  <2>4. CASE shown[i].who # "user"
    <3> shown[i] \in LooseBubbles
      BY DEF TabInv, Shape, TabShape
    <3>1. shown[i].who = "reply" /\ shown[j].who = "reply" /\ shown[i].turn \in kept
      BY <2>4 DEF LooseBubbles
    <3>2. shown[i].known /\ shown[j].known
      BY <2>1, <2>2, <3>1 DEF TabInv, DoneInv, Orphans
    <3> QED BY <3>1, <3>2 DEF TabInv, OnceInv, KnownOnce
  <2> QED BY <2>3, <2>4
<1> QED BY <1>1, <1>2, <1>3, PTL DEF Spec

-----------------------------------------------------------------------------
(* Caught up: what the thread has reaches the screen.  First what holds of  *)
(* requests, the feed and saved replies whether or not the screen is        *)
(* followed closely.                                                        *)

PostedHere == \A t \in Turns : phase[t] = "posted" => t \in mine

\* The tab waits for the answer to what it asked.
Asks == ~lost => \A t \in mine : phase[t] \in {"posted", "starting"} => \E p \in posts : p.turn = t

\* An own edit is of an own message.
OwnTargets == \A t \in mine : target[t] \in mine \cup {0}

\* Only a subscription carries events ...
FeedOpen == sub \notin {"viewing", "away"} => wire = <<>>

\* ... and the messages it carries are others', and admitted.
Messages ==
    \A i \in DOMAIN wire : wire[i].type = "message" =>
        wire[i].turn \notin mine /\ Registered(wire[i].turn)

\* What the answers on their way show.
SnapRows == UNION {ShownIn(a.snap) : a \in Answered}

\* A reply has a row, or an id on the screen, only after it was saved.
KeptInv ==
    /\ \A t \in kept : phase[t] \in {"saved", "ended", "lost"}
    /\ \A t \in Turns :
          Row("reply", t) \in ToSet(rows) \cup OnScreen \cup SnapRows => t \in kept

\* A page that is not mounted has asked for nothing and hears nothing.
Unmounted ==
    page /= "mounted" =>
        /\ mine = {} /\ posts = {} /\ streams = {} /\ attach = {}
        /\ sub = "none" /\ NoneAsked

BasisInv == PostedHere /\ Asks /\ OwnTargets /\ FeedOpen /\ Messages /\ KeptInv /\ Unmounted

\* A turn the tab asked for has its request until it is answered.
LEMMA AsksStep ==
  ASSUME Shape, AskedOnce, PostedHere, Asks, OwnTargets, Next
  PROVE  PostedHere' /\ Asks' /\ OwnTargets'
<1> DEFINE Goal == PostedHere' /\ Asks' /\ OwnTargets'
<1>0. phase \in [Turns -> {"none", "posted", "starting", "running", "saved", "ended",
                            "refused", "lost"}] /\ target \in [Turns -> 0..MaxTurns]
      /\ mine \subseteq Turns
  BY DEF Shape, ServerShape
<1>1. ASSUME NEW t \in Turns, Start(t) \/ SaveReply(t) \/ EndTurn(t)
      PROVE  Goal
  <2>1. UNCHANGED <<mine, target, posts, lost>>
    BY <1>1 DEF Start, SaveReply, EndTurn, tab
  <2>2. \E v : phase' = [phase EXCEPT ![t] = v] /\ v # "posted"
               /\ (v = "starting" => phase[t] = "posted")
    BY <1>1 DEF Start, SaveReply, EndTurn
  <2> QED BY <1>0, <2>1, <2>2 DEF PostedHere, Asks, OwnTargets
<1>2. ASSUME StartElsewhere
      PROVE  Goal
  <2>1. PICK t \in Turns, k \in {0} \cup {j \in Turns \ mine : Editable(j)} :
            /\ NextTurn(t) /\ phase' = [phase EXCEPT ![t] = "starting"]
            /\ target' = [target EXCEPT ![t] = k]
    BY <1>2 DEF StartElsewhere
  <2>2. t \notin mine /\ UNCHANGED <<mine, posts, lost>>
    BY <1>2, <2>1 DEF StartElsewhere, NextTurn, Unused, AskedOnce, tab
  <2> QED BY <1>0, <2>1, <2>2 DEF PostedHere, Asks, OwnTargets
<1>3. ASSUME NEW t \in Turns, Register(t)
      PROVE  Goal
  <2>1. UNCHANGED <<mine, target, lost>>
    BY <1>3 DEF Register
  <2>2. \E v \in {"refused", "running"} : phase' = [phase EXCEPT ![t] = v]
    BY <1>3 DEF Register
  <2>3. \A p \in posts : p.turn # t => p \in posts'
    BY <1>3 DEF Register
  <2> QED BY <1>0, <2>1, <2>2, <2>3 DEF PostedHere, Asks, OwnTargets
<1>4. ASSUME Restart
      PROVE  Goal
  <2>1. UNCHANGED <<mine, target, lost, posts>>
    BY <1>4 DEF Restart
  <2>2. \A t \in Turns : phase'[t] \notin {"posted", "starting"}
    BY <1>4 DEF Restart
  <2> QED BY <1>0, <2>1, <2>2 DEF PostedHere, Asks, OwnTargets
<1>5. ASSUME NEW before, NEW k \in mine \cup {0}, AskFor(before, k), UNCHANGED lost
      PROVE  Goal
  <2>1. PICK t \in Turns : /\ phase' = [phase EXCEPT ![t] = "posted"]
                           /\ mine' = mine \cup {t}
                           /\ target' = [target EXCEPT ![t] = k]
                           /\ posts' = posts \cup {[key |-> t, turn |-> t]}
    BY <1>5 DEF AskFor
  <2> DEFINE new == [key |-> t, turn |-> t]
  <2>2. new \in posts' /\ new.turn = t /\ posts \subseteq posts'
    BY <2>1
  <2> HIDE DEF new
  <2>3. PostedHere'
    BY <1>0, <2>1 DEF PostedHere
  <2>4. Asks'
    BY <1>0, <1>5, <2>1, <2>2 DEF Asks
  <2>5. OwnTargets'
    BY <1>0, <1>5, <2>1 DEF OwnTargets
  <2> QED BY <2>3, <2>4, <2>5
<1>6. ASSUME Send \/ EditMessage
      PROVE  Goal
  <2> HIDE DEF Goal
  <2>1. UNCHANGED lost
    BY <1>6 DEF Send, EditMessage
  <2>2. CASE Send
    BY <1>5, <2>1, <2>2 DEF Send
  <2>3. CASE EditMessage
    <3>1. PICK i \in DOMAIN shown : /\ shown[i].turn \in mine
                                    /\ AskFor(SubSeq(shown, 1, i - 1), shown[i].turn)
      BY <2>3 DEF EditMessage
    <3> QED BY <1>5, <2>1, <3>1
  <2> QED BY <1>6, <2>2, <2>3
<1>7. ASSUME OnRemoved
      PROVE  Goal
  <2>1. lost' /\ UNCHANGED <<phase, mine, target>>
    BY <1>7 DEF OnRemoved, server
  <2> QED BY <2>1 DEF PostedHere, Asks, OwnTargets
<1>8. ASSUME NEW p \in posts, Refused(p)
      PROVE  Goal
  <2>1. UNCHANGED <<phase, mine, target, lost>> /\ posts' = posts \ {p}
        /\ phase[p.turn] \notin {"posted", "starting"}
    BY <1>8 DEF Refused, server
  <2> QED BY <2>1 DEF PostedHere, Asks, OwnTargets
<1>9. ASSUME UNCHANGED <<phase, mine, target, posts>>, lost => lost'
      PROVE  Goal
  BY <1>9 DEF PostedHere, Asks, OwnTargets
<1>10. ASSUME \/ Answers \/ CutFeed \/ RemoveMember \/ Detach \/ LoadPage \/ Mount
              \/ Reconnect \/ Shows \/ Ignore \/ OnMessage \/ OnTurnStarted \/ OnReload
              \/ \E s \in streams : ReadEvent(s) \/ ReadEnd(s) \/ ReadBroken(s)
              \/ \E t \in Turns : GraceExpires(t)
       PROVE  UNCHANGED <<phase, mine, target, posts>> /\ (lost => lost')
  <2>1. UNCHANGED <<phase, mine, target>>
    BY <1>10 DEF Answers, AttachAnswered, AnswerResume, AnswerAttach, CheckAccess, Subscribe,
         TakeThread, CutFeed, RemoveMember, Detach, LoadPage, Mount, Reconnect, Shows,
         ShowThread, ShowEarlier, Show, Ignore, OnMessage, OnTurnStarted, OnReload, ReadEvent,
         ReadEnd, ReadBroken, StopReading, GraceExpires, server
  <2>2. posts' = posts /\ (lost => lost')
    BY <1>10 DEF Answers, AttachAnswered, AnswerResume, AnswerAttach, CheckAccess, Subscribe,
         TakeThread, CutFeed, RemoveMember, Detach, LoadPage, Mount, Reconnect, Shows,
         ShowThread, ShowEarlier, Show, Ignore, OnMessage, OnTurnStarted, OnReload, ReadEvent,
         ReadEnd, ReadBroken, StopReading, GraceExpires, tab
  <2> QED BY <2>1, <2>2
<1> HIDE DEF Goal
<1>11. Goal
  BY <1>1, <1>2, <1>3, <1>4, <1>6, <1>7, <1>8, <1>9, <1>10
  DEF Next, Server, Faults, Person, Browser, Shows, OnEvent
<1> QED BY <1>11 DEF Goal

\* A feed carries nothing before it is registered or after it broke, and a page
\* that is not mounted has asked for nothing.
LEMMA OpenStep ==
  ASSUME Shape, ResumeFree, FeedOpen, Unmounted, Next
  PROVE  FeedOpen' /\ Unmounted'
<1> DEFINE Goal == FeedOpen' /\ Unmounted'
<1>1. ASSUME NEW t \in Turns, Register(t)
      PROVE  Goal
  <2>1. UNCHANGED <<sub, mine, page, attach, reloads>>
    BY <1>1 DEF Register
  <2>2. wire' = wire \/ sub = "viewing"
    BY <1>1 DEF Register, PublishToChat
  <2>3. posts = {} => posts' = {} /\ streams' = streams
    BY <1>1 DEF Register
  <2> QED BY <2>1, <2>2, <2>3 DEF FeedOpen, Unmounted, NoneAsked
<1>2. ASSUME Restart
      PROVE  Goal
  <2>1. wire' = <<>> /\ UNCHANGED <<mine, page, posts, streams>> /\ attach' = {}
    BY <1>2 DEF Restart
  <2>2. asked' = 0 /\ UNCHANGED <<reload, earlier>> /\ (page # "mounted" => sub' = sub)
    BY <1>2 DEF Restart
  <2> QED BY <2>1, <2>2 DEF FeedOpen, Unmounted, NoneAsked
<1>3. ASSUME Detach
      PROVE  Goal
  <2>1. /\ wire' = IF sub \in {"viewing", "away"} THEN Append(wire, Event("chat_removed", 0)) ELSE wire
        /\ sub' = IF sub = "viewing" THEN "away" ELSE sub
        /\ UNCHANGED <<mine, page, posts, streams, attach, reloads>>
    BY <1>3 DEF Detach, DetachViewer, server, tab
  <2>2. FeedOpen'
    BY <2>1 DEF FeedOpen
  <2> QED BY <2>1, <2>2 DEF Unmounted, NoneAsked
<1>4. ASSUME CheckAccess \/ Subscribe \/ CutFeed \/ Reconnect
      PROVE  Goal
  <2>1. /\ UNCHANGED <<mine, page, posts, streams, attach, reloads>>
        /\ \/ sub' \in {"viewing", "away"}
           \/ wire' = wire /\ sub \notin {"viewing", "away"}
           \/ wire' = <<>>
        /\ sub # "none"
    BY <1>4 DEF CheckAccess, Subscribe, CutFeed, Reconnect, server, tab
  <2> QED BY <2>1 DEF FeedOpen, Unmounted, NoneAsked
<1>5. ASSUME Mount
      PROVE  Goal
  <2>1. page' = "mounted" /\ page # "mounted" /\ wire' = wire /\ sub' = "asked"
    BY <1>5 DEF Mount
  <2>2. wire = <<>>
    BY <2>1 DEF Unmounted, FeedOpen
  <2> QED BY <2>1, <2>2 DEF FeedOpen, Unmounted
<1>6. ASSUME LoadPage
      PROVE  Goal
  BY <1>6 DEF LoadPage, server, feed, FeedOpen, Unmounted, NoneAsked
<1>7. ASSUME wire' = wire \/ wire /= <<>>, sub' = sub,
             page' = "mounted" \/ UNCHANGED <<mine, page, posts, streams, attach, reloads>>
      PROVE  Goal
  BY <1>7 DEF FeedOpen, Unmounted, NoneAsked
<1>8. ASSUME Ignore \/ OnMessage \/ OnTurnStarted \/ OnReload \/ OnRemoved
      PROVE  page' = "mounted" /\ wire /= <<>> /\ sub' = sub
  BY <1>8 DEF Ignore, OnMessage, OnTurnStarted, OnReload, OnRemoved, Receive, tab
<1>9. ASSUME \/ Send \/ EditMessage \/ AnswerResume \/ AttachAnswered \/ TakeThread \/ Shows
             \/ \E p \in posts : Refused(p)
             \/ \E s \in streams : ReadEvent(s) \/ ReadEnd(s) \/ ReadBroken(s)
      PROVE  wire' = wire /\ sub' = sub /\ page' = "mounted"
  <2>1. UNCHANGED <<feed, page>>
    BY <1>9 DEF Send, EditMessage, AnswerResume, AttachAnswered, AnswerAttach, TakeThread, Shows,
         ShowThread, ShowEarlier, Show, Refused, ReadEvent, ReadEnd, ReadBroken, StopReading
  <2>2. page = "mounted"
    <3> SUFFICES ASSUME page # "mounted"
                 PROVE  FALSE
      OBVIOUS
    <3>1. /\ posts = {} /\ streams = {} /\ attach = {} /\ asked = 0 /\ reload = NoReload
          /\ DOMAIN earlier = {}
      BY DEF Unmounted, NoneAsked
    <3> QED BY <1>9, <3>1 DEF Send, EditMessage, AttachAnswered, AnswerAttach, TakeThread, Shows,
         ShowThread, ShowEarlier, Show, NoReload, Refused, ReadEvent, ReadEnd, ReadBroken,
         AnswerResume, ResumeFree
  <2> QED BY <2>1, <2>2 DEF feed
<1>10. ASSUME \/ StartElsewhere \/ RemoveMember
              \/ \E t \in Turns : Start(t) \/ SaveReply(t) \/ EndTurn(t) \/ GraceExpires(t)
       PROVE  UNCHANGED <<wire, sub, mine, page, posts, streams, attach, reloads>>
  BY <1>10 DEF StartElsewhere, RemoveMember, Start, SaveReply, EndTurn, GraceExpires, feed, tab,
     server
<1> HIDE DEF Goal
<1>11. Goal
  BY <1>1, <1>2, <1>3, <1>4, <1>5, <1>6, <1>7, <1>8, <1>9, <1>10
  DEF Next, Server, Answers, AttachAnswered, Faults, Person, Browser, Shows, OnEvent
<1> QED BY <1>11 DEF Goal

\* A message on its way is somebody else's, and its turn has registered.
LEMMA MessagesStep ==
  ASSUME Shape, AskedOnce, Messages, Next
  PROVE  Messages'
<1>1. /\ \A t \in Turns : Registered(t) => Registered(t)'
      /\ \A t \in Turns : t \in mine' \ mine => ~Registered(t)
  BY Progress
<1>2. \A i \in DOMAIN wire : wire[i].type = "message" => wire[i].turn \in Turns
  <2>1. \A i \in DOMAIN wire : wire[i] \in Told
    BY DEF Shape, FeedShape
  <2> QED BY <2>1 DEF Told
<1>3. SUFFICES ASSUME NEW i \in DOMAIN wire', wire'[i].type = "message"
               PROVE  wire'[i].turn \notin mine' /\ phase'[wire'[i].turn] \notin {"none", "posted", "starting"}
  BY DEF Messages, Registered
<1>4. CASE \E j \in DOMAIN wire : wire'[i] = wire[j]
  BY <1>1, <1>2, <1>3, <1>4 DEF Messages, Registered
<1>5. ASSUME NEW t \in Turns, Register(t), t \notin mine, wire'[i].turn = t,
             phase' = [phase EXCEPT ![t] = "running"]
      PROVE  wire'[i].turn \notin mine' /\ phase'[wire'[i].turn] \notin {"none", "posted", "starting"}
  <2>1. mine' = mine
    BY <1>5 DEF Register
  <2>2. phase'[t] = "running"
    BY <1>5 DEF Shape, ServerShape
  <2> QED BY <1>5, <2>1, <2>2
<1> QED BY <1>3, <1>4, <1>5, WireFrom

-----------------------------------------------------------------------------
(* What a sequence of bubbles shows, as a set of rows                       *)

\* A row is shown by a bubble of its own.
LEMMA InShown ==
  ASSUME NEW q, NEW r
  PROVE  r \in ShownIn(q) <=>
            \E i \in DOMAIN q : /\ q[i].who = "user" \/ q[i].known
                                /\ r = Row(q[i].who, q[i].turn)
BY DEF ShownIn

\* Bubbles one after another show what each of the two sequences does.
LEMMA ShownJoined ==
  ASSUME NEW p \in Seq(LooseBubbles), NEW q \in Seq(LooseBubbles)
  PROVE  ShownIn(p \o q) = ShownIn(p) \cup ShownIn(q)
<1>1. /\ Len(p) \in Nat /\ Len(q) \in Nat
      /\ p \o q \in Seq(LooseBubbles) /\ Len(p \o q) = Len(p) + Len(q)
      /\ \A i \in 1 .. Len(p) + Len(q) :
            (p \o q)[i] = IF i <= Len(p) THEN p[i] ELSE q[i - Len(p)]
  BY ConcatProperties
<1> DEFINE j == p \o q
<1>2. \A i \in DOMAIN p : i \in DOMAIN j /\ j[i] = p[i]
  BY <1>1
<1>3. \A i \in DOMAIN q : (i + Len(p)) \in DOMAIN j /\ j[i + Len(p)] = q[i]
  BY <1>1
<1>4. \A i \in DOMAIN j : \/ i \in DOMAIN p /\ j[i] = p[i]
                          \/ (i - Len(p)) \in DOMAIN q /\ j[i] = q[i - Len(p)]
  BY JoinedEntries
<1> HIDE DEF j
<1>5. ShownIn(j) \subseteq ShownIn(p) \cup ShownIn(q)
  BY <1>4, InShown
<1>6. ShownIn(p) \subseteq ShownIn(j)
  BY <1>2, InShown
<1>7. ShownIn(q) \subseteq ShownIn(j)
  BY <1>3, InShown
<1>8. ShownIn(j) = ShownIn(p) \cup ShownIn(q)
  BY <1>5, <1>6, <1>7
<1> QED BY <1>8 DEF j

\* One bubble more shows its row, if it shows one.
LEMMA ShownAdded ==
  ASSUME NEW q \in Seq(LooseBubbles), NEW b \in LooseBubbles
  PROVE  ShownIn(Append(q, b)) =
            ShownIn(q) \cup (IF b.who = "user" \/ b.known THEN {Row(b.who, b.turn)} ELSE {})
<1> DEFINE j == Append(q, b)
           R == IF b.who = "user" \/ b.known THEN {Row(b.who, b.turn)} ELSE {}
<1>1. /\ \A i \in DOMAIN q : i \in DOMAIN j /\ j[i] = q[i]
      /\ (Len(q) + 1) \in DOMAIN j /\ j[Len(q) + 1] = b
      /\ \A i \in DOMAIN j : (i \in DOMAIN q /\ j[i] = q[i]) \/ j[i] = b
  BY AppendProperties
<1> HIDE DEF j
<1>2. ShownIn(j) \subseteq ShownIn(q) \cup R
  BY <1>1, InShown
<1>3. ShownIn(q) \subseteq ShownIn(j)
  BY <1>1, InShown
<1>4. R \subseteq ShownIn(j)
  BY <1>1, InShown
<1>5. ShownIn(j) = ShownIn(q) \cup R
  BY <1>2, <1>3, <1>4
<1> QED BY <1>5 DEF j

\* A thread that is loaded shows its rows.
LEMMA ShownLoaded ==
  ASSUME ServerShape
  PROVE  ShownIn(Loaded(rows)) = ToSet(rows)
<1>1. \A i \in DOMAIN rows : rows[i] = Row(rows[i].who, rows[i].turn)
  <2>1. \A i \in DOMAIN rows : rows[i] \in Rows
    BY DEF ServerShape
  <2> QED BY <2>1 DEF Rows, Row
<1>2. /\ DOMAIN Loaded(rows) = DOMAIN rows
      /\ \A i \in DOMAIN rows : /\ Loaded(rows)[i].who = rows[i].who
                                /\ Loaded(rows)[i].turn = rows[i].turn
                                /\ Loaded(rows)[i].known
  BY DEF Loaded, Bubble
<1> QED BY <1>1, <1>2 DEF ShownIn, ToSet

\* Letting go of bubbles changes nothing that is shown.
LEMMA ShownReleased ==
  ASSUME TabShape, NEW k,
         shown' = [i \in DOMAIN shown |->
                      IF shown[i].key = k THEN [shown[i] EXCEPT !.key = 0] ELSE shown[i]]
  PROVE  ShownIn(shown') = ShownIn(shown)
<1>1. \A i \in DOMAIN shown : shown[i] \in LooseBubbles
  BY DEF TabShape
<1>2. /\ DOMAIN shown' = DOMAIN shown
      /\ \A i \in DOMAIN shown : /\ shown'[i].who = shown[i].who
                                 /\ shown'[i].turn = shown[i].turn
                                 /\ shown'[i].known = shown[i].known
  BY <1>1 DEF LooseBubbles
<1> QED BY <1>2 DEF ShownIn

\* Every position that is picked has its entry among the picked ones.
LEMMA AllPicked ==
  ASSUME NEW T, NEW q \in Seq(T), NEW P \in SUBSET DOMAIN q, NEW i \in P
  PROVE  \E k \in DOMAIN At(q, P) : At(q, P)[k] = q[i]
<1>1. PICK f \in Injection(DOMAIN At(q, P), P) :
         \A k \in DOMAIN At(q, P) : At(q, P)[k] = q[f[k]]
  BY PickedEntries
<1>2. DOMAIN At(q, P) = 1..Cardinality(P)
  BY DEF At
<1>3. IsFiniteSet(P)
  <2>1. DOMAIN q = 1..Len(q) /\ Len(q) \in Nat
    OBVIOUS
  <2>2. IsFiniteSet(1..Len(q))
    BY <2>1, FS_Interval
  <2> QED BY <2>1, <2>2, FS_Subset
<1>4. Cardinality(P) \in Nat
  BY <1>3, FS_CardinalityType
<1>5. IsFiniteSet(DOMAIN At(q, P)) /\ Cardinality(DOMAIN At(q, P)) = Cardinality(P)
  BY <1>2, <1>4, FS_Interval
<1> DEFINE D == DOMAIN At(q, P)
           R == {f[k] : k \in D}
<1>6. f \in Injection(D, R) /\ f \in Surjection(D, R) /\ R \in SUBSET P
  BY DEF Injection, IsInjective, Surjection
<1> HIDE DEF D, R
<1>7. IsFiniteSet(R) /\ Cardinality(R) = Cardinality(P)
  BY <1>5, <1>6, FS_Surjection DEF D
<1>8. R = P
  BY <1>3, <1>6, <1>7, FS_Subset
<1>9. PICK k \in D : f[k] = i
  BY <1>8 DEF R
<1> QED BY <1>1, <1>9 DEF D

\* A bubble that the request or stream of a key writes the reply of a turn in.
Written(k, t) ==
    \E i \in DOMAIN shown : shown[i].key = k /\ shown[i].who = "reply" /\ shown[i].turn = t

\* Reading one event takes nothing off the screen; the last one brings the reply
\* its row, beside no other writer's bubble.
LEMMA ShownRead ==
  ASSUME Shape, TextInv, SameTurn, NEW s \in streams, s.pos <= Deltas + 1, shown' = AfterEvent(s)
  PROVE  /\ OnScreen \subseteq OnScreen'
         /\ OnScreen' \subseteq OnScreen \cup {Row("reply", s.turn)}
         /\ s.pos <= Deltas \/ s.turn \notin kept => OnScreen' \subseteq OnScreen
         /\ s.pos > Deltas /\ s.turn \in kept /\ Written(s.key, s.turn)
               => Row("reply", s.turn) \in OnScreen'
         /\ \A k, t : Written(k, t) /\ (k # s.key \/ s.pos <= Deltas) => Written(k, t)'
<1> DEFINE U == [i \in DOMAIN shown |-> IF shown[i].who = "user" /\ shown[i].turn = s.turn
                                        THEN [shown[i] EXCEPT !.known = TRUE] ELSE shown[i]]
           W == [i \in DOMAIN shown |-> IF shown[i].key = s.key
                                        THEN [shown[i] EXCEPT !.text = @ + 1] ELSE shown[i]]
           K == [i \in DOMAIN shown |-> IF shown[i].key = s.key
                                        THEN [shown[i] EXCEPT !.known = TRUE] ELSE shown[i]]
           P == {i \in DOMAIN shown : shown[i].key /= s.key}
           Goal == /\ OnScreen \subseteq OnScreen'
                   /\ OnScreen' \subseteq OnScreen \cup {Row("reply", s.turn)}
                   /\ s.pos <= Deltas \/ s.turn \notin kept => OnScreen' \subseteq OnScreen
                   /\ s.pos > Deltas /\ s.turn \in kept /\ Written(s.key, s.turn)
                         => Row("reply", s.turn) \in OnScreen'
                   /\ \A k, t : Written(k, t) /\ (k # s.key \/ s.pos <= Deltas) => Written(k, t)'
<1>1. shown \in Seq(LooseBubbles) /\ \A i \in DOMAIN shown : shown[i] \in LooseBubbles
  BY DEF Shape, TabShape
<1>2. s.pos \in Nat /\ Deltas \in Nat /\ s.key # 0
  BY TurnsAndKeys DEF Stream, Shape, TabShape
<1>3. \A i \in DOMAIN shown : shown[i].key = s.key =>
         shown[i].who = "reply" /\ ~shown[i].known /\ shown[i].turn = s.turn
  <2>1. s.pos # Deltas + 2
    BY <1>2
  <2> QED BY <2>1 DEF TextInv, StreamedText, SameTurn
<1>4. ASSUME DOMAIN shown' = DOMAIN shown, s.pos <= Deltas,
             \A i \in DOMAIN shown : /\ shown'[i].who = shown[i].who /\ shown'[i].turn = shown[i].turn
                                     /\ shown'[i].key = shown[i].key
                                     /\ shown'[i].known = shown[i].known \/ shown[i].who = "user"
      PROVE  Goal
  <2>1. OnScreen' = OnScreen
    BY <1>4 DEF OnScreen, ShownIn
  <2>2. \A k, t : Written(k, t) => Written(k, t)'
    BY <1>4 DEF Written
  <2> QED BY <1>2, <1>4, <2>1, <2>2
<1>5. CASE s.pos = 0
  <2>1. shown' = U
    BY <1>5 DEF AfterEvent
  <2>2. DOMAIN shown' = DOMAIN shown /\ \A i \in DOMAIN shown :
           /\ shown'[i].who = shown[i].who /\ shown'[i].turn = shown[i].turn
           /\ shown'[i].key = shown[i].key
           /\ shown'[i].known = shown[i].known \/ shown[i].who = "user"
    BY <1>1, <2>1 DEF LooseBubbles
  <2> HIDE DEF Goal
  <2>3. Goal
    BY <1>2, <1>4, <1>5, <2>2
  <2> QED BY <2>3 DEF Goal
<1>6. CASE s.pos \in 1..Deltas
  <2>1. shown' = W
    BY <1>2, <1>6 DEF AfterEvent
  <2>2. DOMAIN shown' = DOMAIN shown /\ \A i \in DOMAIN shown :
           /\ shown'[i].who = shown[i].who /\ shown'[i].turn = shown[i].turn
           /\ shown'[i].key = shown[i].key
           /\ shown'[i].known = shown[i].known \/ shown[i].who = "user"
    BY <1>1, <2>1 DEF LooseBubbles
  <2> HIDE DEF Goal
  <2>3. Goal
    BY <1>2, <1>4, <1>6, <2>2
  <2> QED BY <2>3 DEF Goal
<1>7. CASE s.pos > Deltas /\ s.turn \notin kept
  <2>1. shown' = shown
    BY <1>2, <1>7 DEF AfterEvent, Completed
  <2> QED BY <1>7, <2>1 DEF OnScreen, Written
<1>8. CASE s.pos > Deltas /\ s.turn \in kept /\ LoadedElsewhere(s)
  <2>1. shown' = At(shown, P)
    BY <1>2, <1>8 DEF AfterEvent, Completed
  <2>2. P \in SUBSET DOMAIN shown /\ \A i \in DOMAIN shown : i \in P <=> shown[i].key # s.key
    OBVIOUS
  <2> HIDE DEF P
  <2>3. \A i \in P : \E k \in DOMAIN shown' : shown'[k] = shown[i]
    BY <1>1, <2>1, <2>2, AllPicked
  <2>4. \A k \in DOMAIN shown' : \E i \in P : shown'[k] = shown[i]
    <3>1. PICK f \in Injection(DOMAIN shown', P) : \A k \in DOMAIN shown' : shown'[k] = shown[f[k]]
      BY <1>1, <2>1, <2>2, PickedEntries
    <3>2. \A k \in DOMAIN shown' : f[k] \in P
      BY DEF Injection
    <3> QED BY <3>1, <3>2
  <2>5. OnScreen' = ShownIn(shown')
    BY DEF OnScreen
  <2>6. OnScreen \subseteq OnScreen'
    <3> SUFFICES ASSUME NEW r \in OnScreen
                 PROVE  r \in ShownIn(shown')
      BY <2>5
    <3>1. PICK i \in DOMAIN shown : /\ shown[i].who = "user" \/ shown[i].known
                                    /\ r = Row(shown[i].who, shown[i].turn)
      BY InShown DEF OnScreen
    <3>2. i \in P
      BY <1>3, <2>2, <3>1
    <3>3. PICK k \in DOMAIN shown' : shown'[k] = shown[i]
      BY <2>3, <3>2
    <3> QED BY <3>1, <3>3, InShown
  <2>7. OnScreen' \subseteq OnScreen
    BY <2>2, <2>4, <2>5, InShown DEF OnScreen
  <2>8. Row("reply", s.turn) \in OnScreen
    <3>1. PICK i \in DOMAIN shown : shown[i].known /\ shown[i].who = "reply" /\ shown[i].turn = s.turn
      BY <1>8 DEF LoadedElsewhere
    <3> QED BY <3>1, InShown DEF OnScreen
  <2>9. \A k, t : Written(k, t) /\ k # s.key => Written(k, t)'
    BY <2>2, <2>3 DEF Written
  <2> QED BY <1>2, <1>8, <2>6, <2>7, <2>8, <2>9
<1>9. CASE s.pos > Deltas /\ s.turn \in kept /\ ~LoadedElsewhere(s)
  <2>1. shown' = K
    BY <1>2, <1>9 DEF AfterEvent, Completed
  <2>2. DOMAIN shown' = DOMAIN shown /\ \A i \in DOMAIN shown :
           /\ shown'[i].who = shown[i].who /\ shown'[i].turn = shown[i].turn
           /\ shown'[i].key = shown[i].key
           /\ shown[i].key # s.key => shown'[i].known = shown[i].known
           /\ shown[i].key = s.key => shown'[i].known
    BY <1>1, <2>1 DEF LooseBubbles
  <2> HIDE DEF K
  <2>3. OnScreen' = ShownIn(shown')
    BY DEF OnScreen
  <2>4. OnScreen \subseteq OnScreen'
    BY <1>3, <2>2, <2>3, InShown DEF OnScreen
  <2>5. OnScreen' \subseteq OnScreen \cup {Row("reply", s.turn)}
    BY <1>3, <2>2, <2>3, InShown DEF OnScreen
  <2>6. Written(s.key, s.turn) => Row("reply", s.turn) \in OnScreen'
    BY <2>2, <2>3, InShown DEF Written
  <2>7. \A k, t : Written(k, t) => Written(k, t)'
    BY <2>2 DEF Written
  <2> QED BY <1>2, <1>9, <2>4, <2>5, <2>6, <2>7
<1> QED BY <1>2, <1>5, <1>6, <1>7, <1>8, <1>9

\* What an edit leaves of the thread.
LEMMA CutRows ==
  ASSUME ServerShape, NEW k, Editable(k)
  PROVE  CutAt(k) \in Seq(Rows) /\ ToSet(CutAt(k)) \subseteq ToSet(rows)
<1> DEFINE n == CHOOSE i \in DOMAIN rows : rows[i] = Row("user", k)
<1>1. n \in DOMAIN rows
  BY DEF Editable
<1>2. CutAt(k) = SubSeq(rows, 1, n - 1)
  BY DEF CutAt
<1> HIDE DEF n
<1>3. /\ CutAt(k) \in Seq(Rows)
      /\ \A i \in DOMAIN CutAt(k) : i \in DOMAIN rows /\ CutAt(k)[i] = rows[i]
  BY <1>1, <1>2, Prefix DEF ServerShape
<1> QED BY <1>3 DEF ToSet

\* A message is admitted after what was there, or what an edit leaves of it.
LEMMA AdmittedRows ==
  ASSUME ServerShape, NEW t \in Turns, NEW k, k = 0 \/ Editable(k)
  PROVE  ToSet(WithMessage(t, k)) =
            (IF k = 0 THEN ToSet(rows) ELSE ToSet(CutAt(k))) \cup {Row("user", t)}
<1> DEFINE q == IF k = 0 THEN rows ELSE CutAt(k)
           r == Row("user", t)
<1>1. q \in Seq(Rows) /\ r \in Rows /\ WithMessage(t, k) = q \o <<r>>
  BY CutRows DEF ServerShape, WithMessage, Row, Rows
<1> HIDE DEF r
<1>2. ToSet(q) = IF k = 0 THEN ToSet(rows) ELSE ToSet(CutAt(k))
  OBVIOUS
<1> HIDE DEF q
<1>3. /\ Len(q) \in Nat
      /\ q \o <<r>> \in Seq(Rows) /\ Len(q \o <<r>>) = Len(q) + 1
      /\ \A i \in 1 .. Len(q) + 1 :
            (q \o <<r>>)[i] = IF i <= Len(q) THEN q[i] ELSE <<r>>[i - Len(q)]
  BY <1>1, ConcatProperties
<1> DEFINE j == q \o <<r>>
<1>4. /\ \A i \in DOMAIN q : i \in DOMAIN j /\ j[i] = q[i]
      /\ (Len(q) + 1) \in DOMAIN j /\ j[Len(q) + 1] = r
      /\ \A i \in DOMAIN j : (i \in DOMAIN q /\ j[i] = q[i]) \/ j[i] = r
  BY <1>1, <1>3
<1> HIDE DEF j
<1>5. ToSet(j) = ToSet(q) \cup {r}
  BY <1>4 DEF ToSet
<1> QED BY <1>1, <1>2, <1>5 DEF j, r

\* A reply that is saved has one row more.
LEMMA SavedRows ==
  ASSUME ServerShape, NEW r \in Rows
  PROVE  ToSet(Append(rows, r)) = ToSet(rows) \cup {r}
<1> DEFINE j == Append(rows, r)
<1>1. /\ \A i \in DOMAIN rows : i \in DOMAIN j /\ j[i] = rows[i]
      /\ (Len(rows) + 1) \in DOMAIN j /\ j[Len(rows) + 1] = r
      /\ \A i \in DOMAIN j : (i \in DOMAIN rows /\ j[i] = rows[i]) \/ j[i] = r
  BY AppendProperties DEF ServerShape
<1> HIDE DEF j
<1>2. ToSet(j) = ToSet(rows) \cup {r}
  BY <1>1 DEF ToSet
<1> QED BY <1>2 DEF j

\* A placeholder for a reply shows no row.
LEMMA PlaceholderShown ==
  ASSUME TabShape, NEW t \in Turns, NEW k \in Keys \cup {0},
         shown' = Append(shown, Bubble("reply", t, k, FALSE, 0))
  PROVE  OnScreen' = OnScreen
<1> DEFINE b == Bubble("reply", t, k, FALSE, 0)
<1>1. b \in LooseBubbles /\ b.who = "reply" /\ ~b.known
  BY DEF Bubble, LooseBubbles
<1> HIDE DEF b
<1>2. ShownIn(Append(shown, b)) = ShownIn(shown)
  BY <1>1, ShownAdded DEF TabShape
<1> QED BY <1>2 DEF OnScreen, b

\* What a reload keeps of the screen has no rows.
LEMMA LiveShown ==
  ASSUME TabShape
  PROVE  ShownIn(Live) = {}
BY LiveFrom, InShown DEF LooseBubbles

\* What comes onto the screen is a message, a row of the thread, one that was
\* loaded, or a reply that was saved.
LEMMA ScreenFrom ==
  ASSUME Shape, TextInv, SameTurn, Next
  PROVE  /\ OnScreen' \subseteq OnScreen \cup ToSet(rows) \cup SnapRows
                                \cup {Row("user", t) : t \in Turns}
                                \cup {Row("reply", t) : t \in kept}
         /\ SnapRows' \subseteq SnapRows \cup ToSet(rows)
<1> DEFINE All == OnScreen \cup ToSet(rows) \cup SnapRows
                  \cup {Row("user", t) : t \in Turns} \cup {Row("reply", t) : t \in kept}
           Goal == OnScreen' \subseteq All
<1>0. ServerShape /\ TabShape /\ shown \in Seq(LooseBubbles)
  BY DEF Shape, TabShape
<1>1. OnScreen \subseteq All /\ ToSet(rows) \subseteq All /\ SnapRows \subseteq All
      /\ (\A t \in Turns : Row("user", t) \in All) /\ (\A t \in kept : Row("reply", t) \in All)
  OBVIOUS
<1> HIDE DEF All
<1>2. ASSUME Send \/ EditMessage
      PROVE  Goal
  <2>1. PICK t \in Turns, n \in Nat :
            /\ \A i \in DOMAIN shown' :
                  \/ i <= n /\ i \in DOMAIN shown /\ shown'[i] = shown[i]
                  \/ i = n + 1 /\ shown'[i] = Bubble("user", t, 0, FALSE, 0)
                  \/ i = n + 2 /\ shown'[i] = Bubble("reply", t, t, FALSE, 0)
    BY <1>2, Asking
  <2>2. ShownIn(shown') \subseteq ShownIn(shown) \cup {Row("user", t)}
    BY <2>1, InShown DEF Bubble
  <2> QED BY <1>1, <2>1, <2>2 DEF OnScreen
<1>3. ASSUME LoadPage
      PROVE  Goal
  <2>1. shown' = Loaded(rows)
    BY <1>3 DEF LoadPage
  <2>2. ShownIn(shown') = ToSet(rows)
    BY <1>0, <2>1, ShownLoaded
  <2> QED BY <1>1, <2>1, <2>2 DEF OnScreen
<1>4. ASSUME Shows
      PROVE  Goal
  <2>1. PICK a \in Answered : shown' = shown \/ shown' = a.snap \o Live
    BY <1>4, ShowsIs
  <2>2. ShownIn(a.snap \o Live) = ShownIn(a.snap)
    <3>1. Live \in Seq(LooseBubbles) /\ ShownIn(Live) = {}
      BY <1>0, LiveShown, LiveBubbles
    <3>2. a \in Answer
      BY <1>0 DEF TabShape, Answered
    <3>3. ShownIn(a.snap \o Live) = ShownIn(a.snap) \cup ShownIn(Live)
      BY <3>1, <3>2, ShownJoined DEF Answer
    <3> QED BY <3>1, <3>3
  <2>3. ShownIn(a.snap) \subseteq SnapRows
    BY DEF SnapRows
  <2> QED BY <1>1, <2>1, <2>2, <2>3 DEF OnScreen
<1>5. ASSUME NEW t \in Turns, NEW k \in Keys \cup {0}, Follow(t, k)
      PROVE  Goal
  <2>1. OnScreen' = OnScreen
    BY <1>0, <1>5, PlaceholderShown DEF Follow
  <2> QED BY <1>1, <1>5, <2>1
<1>6. ASSUME AnswerResume \/ AttachAnswered
      PROVE  Goal
  <2>1. CASE UNCHANGED shown
    BY <1>1, <2>1 DEF OnScreen
  <2>2. CASE ~UNCHANGED shown
    <3>1. PICK k \in Keys : Resumable # 0 /\ Follow(Resumable, k)
      BY <1>6, <2>2, TurnsAndKeys DEF AnswerResume, AttachAnswered, AnswerAttach
    <3>2. Resumable \in Turns
      BY <1>0, <3>1 DEF Resumable, ServerShape, Turns
    <3> HIDE DEF Goal
    <3> QED BY <1>5, <3>1, <3>2
  <2> QED BY <2>1, <2>2
<1>7. ASSUME OnMessage
      PROVE  Goal
  <2> DEFINE b == Bubble("user", Ev.turn, 0, TRUE, 0)
  <2>1. shown' = shown \/ shown' = Append(shown, b)
    BY <1>7 DEF OnMessage, WithBubble
  <2>2. Ev \in Told /\ Ev.type = "message"
    BY <1>7 DEF OnMessage, Receive, Ev, Shape, FeedShape
  <2>3. Ev.turn \in Turns
    BY <2>2 DEF Told
  <2>4. b \in LooseBubbles /\ Row(b.who, b.turn) = Row("user", Ev.turn)
    BY <2>3, TurnsAndKeys DEF Bubble, LooseBubbles, Row
  <2> HIDE DEF b
  <2>5. ShownIn(Append(shown, b)) \subseteq ShownIn(shown) \cup {Row("user", Ev.turn)}
    BY <1>0, <2>4, ShownAdded
  <2>6. ShownIn(shown') \subseteq ShownIn(shown) \cup {Row("user", Ev.turn)}
    BY <2>1, <2>5
  <2>7. Row("user", Ev.turn) \in All
    BY <1>1, <2>3
  <2> QED BY <1>1, <2>1, <2>6, <2>7 DEF OnScreen
<1>8. ASSUME NEW s \in streams, ReadEvent(s)
      PROVE  Goal
  <2>1. shown' = AfterEvent(s) /\ s.pos < Published(s.turn)
    BY <1>8 DEF ReadEvent
  <2>2. s.pos <= Deltas + 1
    BY <2>1, TurnsAndKeys DEF Published, Shape, TabShape, Stream
  <2>3. s.turn \in kept => Row("reply", s.turn) \in All
    BY <1>1
  <2>4. OnScreen' \subseteq All
    BY <1>1, <2>1, <2>2, <2>3, ShownRead
  <2> QED BY <2>1, <2>4
<1>9. ASSUME \/ \E p \in posts : Refused(p)
             \/ \E s \in streams : ReadEnd(s) \/ ReadBroken(s)
      PROVE  Goal
  <2>1. ShownIn(shown') = ShownIn(shown)
    <3>1. ASSUME NEW p \in posts, Refused(p)
          PROVE  ShownIn(shown') = ShownIn(shown)
      BY <1>0, <3>1, ShownReleased DEF Refused
    <3>2. ASSUME NEW s \in streams, ReadEnd(s) \/ ReadBroken(s)
          PROVE  ShownIn(shown') = ShownIn(shown)
      BY <1>0, <3>2, ShownReleased DEF ReadEnd, ReadBroken, StopReading
    <3> QED BY <1>9, <3>1, <3>2
  <2> QED BY <1>1, <2>1 DEF OnScreen
<1>10. ASSUME UNCHANGED shown
       PROVE  Goal
  BY <1>1, <1>10 DEF OnScreen
<1>11. ASSUME \/ TakeThread \/ Restart \/ OnReload
              \/ StartElsewhere \/ CheckAccess \/ Subscribe \/ CutFeed \/ RemoveMember
              \/ Detach \/ Mount \/ Reconnect \/ Ignore \/ OnTurnStarted \/ OnRemoved
              \/ \E t \in Turns : \/ Start(t) \/ Register(t) \/ SaveReply(t) \/ EndTurn(t)
                                  \/ GraceExpires(t)
       PROVE  UNCHANGED shown
  BY <1>11 DEF TakeThread, Restart, OnReload, StartElsewhere, CheckAccess, Subscribe, CutFeed, RemoveMember, Detach, Mount,
     Reconnect, Ignore, OnTurnStarted, OnRemoved, Start, Register, SaveReply, EndTurn,
     GraceExpires, tab
<1> HIDE DEF Goal
<1>12. Goal
  BY <1>2, <1>3, <1>4, <1>6, <1>7, <1>8, <1>9, <1>10, <1>11
  DEF Next, Server, Answers, AttachAnswered, Faults, Person, Browser, Shows, OnEvent
<1>13. SnapRows' \subseteq SnapRows \cup ToSet(rows)
  <2> SUFFICES ASSUME NEW a \in Answered'
               PROVE  ShownIn(a.snap) \subseteq SnapRows \cup ToSet(rows)
    BY DEF SnapRows
  <2>1. \/ a \in Answered \/ a = NoReload
        \/ TakeThread /\ a = reload'
    BY <1>0, AnsweredStep
  <2>2. ShownIn(<<>>) = {} /\ ShownIn(Loaded(rows)) = ToSet(rows)
    BY <1>0, ShownLoaded DEF ShownIn
  <2>3. a \in Answered => ShownIn(a.snap) \subseteq SnapRows
    BY DEF SnapRows
  <2>4. TakeThread /\ a = reload' => a.snap \in {Loaded(rows), <<>>}
    BY TakenIs
  <2> QED BY <2>1, <2>2, <2>3, <2>4 DEF NoReload
<1> QED BY <1>12, <1>13 DEF Goal, All

\* Rows tell their turn and whether it is the message or the reply.
LEMMA RowsDiffer ==
  ASSUME NEW v, NEW t, NEW w, NEW u
  PROVE  Row(v, t) = Row(w, u) <=> v = w /\ t = u
BY DEF Row

\* What a step does to the thread: a message is admitted, a reply is saved, or
\* nothing.
LEMMA RowsFrom ==
  ASSUME Shape, Next
  PROVE  \/ UNCHANGED rows
         \/ \E t \in Turns : Start(t) /\ ToSet(rows') \subseteq ToSet(rows) \cup {Row("user", t)}
         \/ StartElsewhere /\ \E t \in Turns :
               NextTurn(t) /\ ToSet(rows') \subseteq ToSet(rows) \cup {Row("user", t)}
         \/ \E t \in Turns : /\ SaveReply(t) /\ t \in kept'
                             /\ ToSet(rows') = ToSet(rows) \cup {Row("reply", t)}
<1>0. ServerShape
  BY DEF Shape
<1>1. ASSUME NEW t \in Turns, NEW k, k = 0 \/ Editable(k), rows' = WithMessage(t, k)
      PROVE  ToSet(rows') \subseteq ToSet(rows) \cup {Row("user", t)}
  BY <1>0, <1>1, AdmittedRows, CutRows
<1>2. ASSUME NEW t \in Turns, Start(t), rows' # rows
      PROVE  ToSet(rows') \subseteq ToSet(rows) \cup {Row("user", t)}
  <2>1. rows' = WithMessage(t, target[t]) /\ (target[t] = 0 \/ Editable(target[t]))
    BY <1>2 DEF Start
  <2> QED BY <1>1, <2>1
<1>3. ASSUME StartElsewhere
      PROVE  \E t \in Turns :
                NextTurn(t) /\ ToSet(rows') \subseteq ToSet(rows) \cup {Row("user", t)}
  <2>1. PICK t \in Turns, k \in {0} \cup {j \in Turns \ mine : Editable(j)} :
           NextTurn(t) /\ rows' = WithMessage(t, k)
    BY <1>3 DEF StartElsewhere
  <2>2. k = 0 \/ Editable(k)
    OBVIOUS
  <2>3. ToSet(rows') \subseteq ToSet(rows) \cup {Row("user", t)}
    BY <1>1, <2>1, <2>2
  <2> QED BY <2>1, <2>3
<1>4. ASSUME NEW t \in Turns, SaveReply(t), rows' # rows
      PROVE  t \in kept' /\ ToSet(rows') = ToSet(rows) \cup {Row("reply", t)}
  <2>1. Row("reply", t) \in Rows
    BY DEF Row, Rows
  <2>2. t \in kept' /\ rows' = Append(rows, Row("reply", t))
    BY <1>4 DEF SaveReply
  <2> QED BY <1>0, <2>1, <2>2, SavedRows
<1>5. ASSUME \/ Answers \/ Faults \/ Person \/ Browser
             \/ \E t \in Turns : Register(t) \/ EndTurn(t) \/ GraceExpires(t)
      PROVE  UNCHANGED rows
  BY <1>5 DEF Answers, AttachAnswered, AnswerResume, AnswerAttach, CheckAccess, Subscribe,
       TakeThread, CutFeed, RemoveMember, Detach, LoadPage, Mount, Browser, Shows, Reconnect,
       ShowThread, ShowEarlier, Show, OnEvent, Ignore, OnMessage, OnTurnStarted, OnReload,
       OnRemoved, Refused, ReadEvent, ReadEnd, ReadBroken, StopReading, Register, EndTurn,
       GraceExpires, server, Faults, Restart, Person, Send, EditMessage
<1> QED BY <1>2, <1>3, <1>4, <1>5 DEF Next, Server

\* Saved replies have ended, and only they have rows and ids.
LEMMA KeptStep ==
  ASSUME Shape, TextInv, SameTurn, KeptInv, Next
  PROVE  KeptInv'
<1> DEFINE Ends == /\ kept \subseteq kept'
                   /\ \A t \in kept' : phase'[t] \in {"saved", "ended", "lost"}
<1>0. /\ phase \in [Turns -> {"none", "posted", "starting", "running", "saved", "ended",
                              "refused", "lost"}]
      /\ kept \subseteq Turns
  BY DEF Shape, ServerShape
<1>1. Ends
  <2>1. ASSUME NEW t \in Turns, Start(t) \/ Register(t) \/ EndTurn(t) \/ SaveReply(t)
        PROVE  Ends
    <3>1. CASE Start(t) \/ Register(t) \/ EndTurn(t)
      BY <1>0, <3>1 DEF Start, Register, EndTurn, KeptInv
    <3>2. CASE SaveReply(t)
      BY <1>0, <3>2 DEF SaveReply, KeptInv
    <3> QED BY <2>1, <3>1, <3>2
  <2>2. ASSUME Restart
        PROVE  Ends
    BY <1>0, <2>2 DEF Restart, KeptInv
  <2>3. ASSUME StartElsewhere
        PROVE  Ends
    BY <1>0, <2>3 DEF StartElsewhere, NextTurn, Unused, KeptInv
  <2>4. ASSUME Send \/ EditMessage
        PROVE  Ends
    <3>1. PICK t \in Turns : NextTurn(t) /\ phase' = [phase EXCEPT ![t] = "posted"]
      BY <2>4 DEF Send, EditMessage, AskFor
    <3>2. UNCHANGED kept
      BY <2>4 DEF Send, EditMessage
    <3> QED BY <1>0, <3>1, <3>2 DEF NextTurn, Unused, KeptInv
  <2>5. ASSUME UNCHANGED <<phase, kept>>
        PROVE  Ends
    BY <2>5 DEF KeptInv
  <2>6. ASSUME \/ Answers \/ CutFeed \/ RemoveMember \/ Detach \/ LoadPage \/ Mount \/ Browser
               \/ \E t \in Turns : GraceExpires(t)
        PROVE  UNCHANGED <<phase, kept>>
    BY <2>6 DEF Answers, AttachAnswered, AnswerResume, AnswerAttach, CheckAccess, Subscribe,
         TakeThread, CutFeed, RemoveMember, Detach, LoadPage, Mount, Browser, Shows, Reconnect,
         ShowThread, ShowEarlier, Show, OnEvent, Ignore, OnMessage, OnTurnStarted, OnReload,
         OnRemoved, Refused, ReadEvent, ReadEnd, ReadBroken, StopReading, GraceExpires, server
  <2> HIDE DEF Ends
  <2> QED BY <2>1, <2>2, <2>3, <2>4, <2>5, <2>6 DEF Next, Server, Faults, Person
<1>2. ASSUME NEW t \in Turns, Row("reply", t) \in ToSet(rows')
      PROVE  Row("reply", t) \in ToSet(rows) \/ t \in kept'
  BY <1>2, RowsFrom, RowsDiffer
<1>3. ASSUME NEW t \in Turns, Row("reply", t) \in OnScreen' \cup SnapRows'
      PROVE  Row("reply", t) \in ToSet(rows) \cup OnScreen \cup SnapRows \/ t \in kept
  BY <1>3, ScreenFrom, RowsDiffer
<1> QED BY <1>1, <1>2, <1>3 DEF KeptInv

\* All of it holds of a tab that is not open yet ...
LEMMA BasisStart == Init => BasisInv
<1> SUFFICES ASSUME Init
             PROVE  BasisInv
  OBVIOUS
<1>1. PostedHere /\ Asks /\ OwnTargets /\ FeedOpen /\ Messages /\ Unmounted
  BY DEF Init, PostedHere, Asks, OwnTargets, FeedOpen, Messages, Unmounted, NoneAsked
<1>2. ToSet(rows) = {} /\ OnScreen = {} /\ SnapRows = {}
  BY DEF Init, ToSet, OnScreen, ShownIn, SnapRows, Answered, NoReload
<1>3. KeptInv
  BY <1>2 DEF Init, KeptInv
<1> QED BY <1>1, <1>3 DEF BasisInv

\* ... and after every step.
LEMMA BasisStep ==
  ASSUME TabInv, BasisInv, Next
  PROVE  BasisInv'
<1>1. /\ Shape /\ TextInv /\ SameTurn /\ AskedOnce /\ ResumeFree
      /\ PostedHere /\ Asks /\ OwnTargets /\ FeedOpen /\ Messages /\ KeptInv /\ Unmounted
  BY DEF TabInv, BasisInv, OnceInv, KeyInv
<1>2. PostedHere' /\ Asks' /\ OwnTargets'
  BY <1>1, AsksStep
<1>3. FeedOpen' /\ Unmounted'
  BY <1>1, OpenStep
<1>4. Messages' /\ KeptInv'
  BY <1>1, MessagesStep, KeptStep
<1> QED BY <1>2, <1>3, <1>4 DEF BasisInv

-----------------------------------------------------------------------------
(* Caught up, while nothing has passed this person's screen by: every row   *)
(* is shown or on its way                                                   *)

Watching == page /= "closed" /\ member /\ ~lost /\ ~behind

OnWire(type, t) == \E i \in DOMAIN wire : wire[i].type = type /\ wire[i].turn = t

\* A request and a stream have their bubbles, one that is read to its end the
\* reply's row.
Bubbled ==
    /\ \A p \in posts : Written(p.key, p.turn) /\ Row("user", p.turn) \in OnScreen
    /\ \A s \in streams : s.pos <= Deltas + 1 => Written(s.key, s.turn)
    /\ \A s \in streams : s.pos > Deltas + 1 /\ Row("reply", s.turn) \in ToSet(rows)
                             => Row("reply", s.turn) \in OnScreen

\* The reply is being read, asked for or announced.
Coming(t) ==
    \/ \E s \in streams : s.turn = t /\ s.pos <= Deltas + 1
    \/ t \in attach
    \/ (page = "loaded" \/ resume = "asked") /\ reg = t
    \/ OnWire("turn_started", t)

RunningComes == \A t \in Turns : phase[t] = "running" => Coming(t)

\* An own edit on its way, alone: the thread is cut on screen as it will be.
OwnEdit(u) == u \in mine /\ phase[u] = "posted" /\ target[u] /= 0

EditAlone ==
    \A u \in Turns : OwnEdit(u) =>
        /\ streams = {} /\ attach = {} /\ resume = "none" /\ page = "mounted"
        /\ posts = {[key |-> u, turn |-> u]} /\ held = u /\ streaming
        /\ Editable(target[u]) => OnScreen = ToSet(CutAt(target[u])) \cup {Row("user", u)}

Taken == reload.stage = "taken"

\* A thread that will be shown as it was taken has every reply that the screen or
\* an older answer has.
SnapFresh ==
    Taken /\ ~stale =>
        /\ posts = {} /\ \A s \in streams : s.pos <= Deltas + 1
        /\ \A t \in Turns : Row("reply", t) \in (OnScreen \cup SnapRows) \cap ToSet(rows)
                               => Row("reply", t) \in ShownIn(reload.snap)

\* What the screen comes to show.
Base == IF Taken THEN reload.snap ELSE shown

\* What is on its way will pass the screen by.
Doomed ==
    \/ Taken /\ stale
    \/ \E p \in posts : phase[p.turn] = "refused"
    \/ \E u \in Turns : OwnEdit(u)

\* A reload of the whole thread is on its way.
Due ==
    \/ asked > 0
    \/ \E i \in DOMAIN wire : wire[i].type \in {"thread_changed", "resync"}
    \/ \E t \in Turns \ mine : phase[t] = "starting" /\ target[t] /= 0

RowComes(r) ==
    \/ r \in ShownIn(Base)
    \/ \E t \in Turns : r = Row("user", t)
                        /\ ((t \notin mine /\ phase[t] = "starting") \/ OnWire("message", t))
    \/ \E t \in Turns : r = Row("reply", t) /\ Coming(t)

Complete == \A r \in ToSet(rows) : RowComes(r)

\* Nothing else is shown than rows, and what has been asked and not admitted yet.
Exact ==
    \A r \in ShownIn(Base) :
        r \in ToSet(rows) \/ \E t \in mine : phase[t] = "posted" /\ r = Row("user", t)

Accounted == Doomed \/ Due \/ (Complete /\ Exact)

ArriveInv ==
    Watching => Bubbled /\ RunningComes /\ EditAlone /\ SnapFresh /\ Accounted

\* Only a page that is opened, or a thread that is taken again, makes a screen one
\* that nothing has passed by; and many steps end it.
LEMMA Watched ==
  ASSUME Shape, Next, Watching', ~LoadPage, ~TakeThread
  PROVE  /\ Watching
         /\ ~Restart /\ ~RemoveMember /\ ~Detach /\ ~Ignore /\ ~OnRemoved
         /\ ~\E p \in posts : Refused(p)
         /\ ~\E s \in streams : ReadBroken(s)
         /\ CutFeed => wire = <<>>
<1>0. /\ page' # "closed" /\ member' /\ ~lost' /\ ~behind'
      /\ behind \in BOOLEAN /\ behind' \in BOOLEAN /\ wire' \in Seq(Told)
  BY FlagStep, FeedStep DEF Watching, Shape, FlagShape, FeedShape
<1>1. ~Restart /\ ~RemoveMember /\ ~Detach /\ ~Ignore /\ ~OnRemoved
  <2>1. ~Restart
    BY <1>0 DEF Restart
  <2>2. ~RemoveMember /\ ~Detach /\ ~OnRemoved
    BY <1>0 DEF RemoveMember, Detach, OnRemoved
  <2>3. ~Ignore
    BY <1>0 DEF Ignore, tab
  <2> QED BY <2>1, <2>2, <2>3
<1>2. /\ ~\E p \in posts : Refused(p)
      /\ ~\E s \in streams : ReadBroken(s)
      /\ CutFeed => wire = <<>>
  BY <1>0 DEF Refused, ReadBroken, CutFeed
<1>3. CASE UNCHANGED <<page, lost, behind, member>>
  BY <1>0, <1>1, <1>2, <1>3 DEF Watching
<1>4. CASE AttachAnswered \/ OnMessage \/ OnTurnStarted \/ CutFeed \/ EditMessage
  <2>1. UNCHANGED <<page, lost, member>> /\ (behind => behind')
    BY <1>4 DEF AttachAnswered, AnswerAttach, OnMessage, OnTurnStarted, CutFeed, EditMessage,
         tab, access
  <2> QED BY <1>0, <1>1, <1>2, <2>1 DEF Watching
<1>5. CASE \/ \E t \in Turns : Register(t)
           \/ \E s \in streams : ReadEvent(s)
  <2>1. UNCHANGED <<page, lost, member>> /\ (behind => behind')
    BY <1>5 DEF Register, ReadEvent, access
  <2> QED BY <1>0, <1>1, <1>2, <2>1 DEF Watching
<1>6. CASE Mount
  <2>1. page = "loaded" /\ UNCHANGED <<lost, member, behind>>
    BY <1>6 DEF Mount, access, history
  <2> QED BY <1>0, <1>1, <1>2, <2>1 DEF Watching
<1>7. CASE Shows
  <2>1. UNCHANGED <<page, member>> /\ ~lost /\ reload.stage = "taken"
    BY <1>0, <1>7 DEF Shows, ShowThread, ShowEarlier, Show, access, TabShape, Shape
  <2>2. ~behind
    BY <1>0, <1>7, <2>1 DEF Shows, ShowThread, ShowEarlier, Show
  <2> QED BY <1>0, <1>1, <1>2, <2>1, <2>2 DEF Watching
<1>8. ASSUME \/ StartElsewhere \/ AnswerResume \/ CheckAccess \/ Subscribe \/ Send \/ Reconnect
             \/ OnReload
             \/ \E t \in Turns : Start(t) \/ SaveReply(t) \/ EndTurn(t) \/ GraceExpires(t)
             \/ \E s \in streams : ReadEnd(s)
      PROVE  UNCHANGED <<page, lost, behind, member>>
  BY <1>8 DEF StartElsewhere, AnswerResume, CheckAccess, Subscribe, Send, Reconnect, OnReload,
     Start, SaveReply, EndTurn, GraceExpires, ReadEnd, StopReading, access, tab, history
<1> QED
  BY <1>1, <1>2, <1>3, <1>4, <1>5, <1>6, <1>7, <1>8
  DEF Next, Server, Answers, AttachAnswered, Faults, Person, Browser, Shows, OnEvent

\* The tab loses nothing that is on its way to it, and takes it up in order.
LEMMA WireKept ==
  ASSUME Shape, FeedOpen, Next, Watching', ~LoadPage, ~TakeThread, NEW i \in DOMAIN wire
  PROVE  \/ \E j \in DOMAIN wire' : wire'[j] = wire[i]
         \/ wire[i] = Ev /\ (OnMessage \/ OnTurnStarted \/ OnReload)
<1> DEFINE Kept == \E j \in DOMAIN wire' : wire'[j] = wire[i]
<1>0. /\ wire \in Seq(Told)
      /\ ~Restart /\ ~RemoveMember /\ ~Detach /\ ~Ignore /\ ~OnRemoved
      /\ ~\E p \in posts : Refused(p)
      /\ ~\E s \in streams : ReadBroken(s)
      /\ CutFeed => wire = <<>>
  BY Watched DEF Shape, FeedShape
<1>1. wire # <<>>
  BY <1>0
<1>2. ASSUME NEW t \in Turns, Register(t)
      PROVE  Kept
  <2> DEFINE m == Event(IF target[t] = 0 THEN "message" ELSE "thread_changed", t)
             s == Event("turn_started", t)
  <2>1. m \in Told /\ s \in Told
    BY DEF Event, Told
  <2>2. wire' = wire \/ wire' = wire \o <<m, s>>
    BY <1>2 DEF Register, PublishToChat
  <2>3. <<m, s>> \in Seq(Told)
    BY <2>1
  <2> HIDE DEF m, s
  <2>4. i \in DOMAIN (wire \o <<m, s>>) /\ (wire \o <<m, s>>)[i] = wire[i]
    BY <1>0, <2>3, ConcatProperties
  <2> QED BY <2>2, <2>4
<1>3. CASE OnMessage \/ OnTurnStarted \/ OnReload
  <2>1. wire' = Tail(wire)
    BY <1>3 DEF OnMessage, OnTurnStarted, OnReload, Receive
  <2>2. i = 1 => wire[i] = Ev
    BY <1>0 DEF Ev
  <2>3. i # 1 => (i - 1) \in DOMAIN wire' /\ wire'[i - 1] = wire[i]
    BY <1>0, <1>1, <2>1
  <2> QED BY <1>3, <2>2, <2>3
<1>4. CASE Subscribe
  <2>1. sub \notin {"viewing", "away"}
    BY <1>4 DEF Subscribe
  <2> QED BY <1>1, <2>1 DEF FeedOpen
<1>5. ASSUME \/ StartElsewhere \/ AnswerResume \/ AttachAnswered
             \/ Send \/ EditMessage \/ Shows \/ CheckAccess \/ Reconnect \/ Mount
             \/ \E t \in Turns : Start(t) \/ SaveReply(t) \/ EndTurn(t) \/ GraceExpires(t)
             \/ \E s \in streams : ReadEvent(s) \/ ReadEnd(s)
      PROVE  wire' = wire
  BY <1>5 DEF StartElsewhere, AnswerResume, AttachAnswered, AnswerAttach, Send, EditMessage,
       Shows, ShowThread, ShowEarlier, Show, CheckAccess, Reconnect, Mount, Start, SaveReply,
       EndTurn, GraceExpires, ReadEvent, ReadEnd, StopReading, feed
<1>6. CASE wire' = wire
  BY <1>6
<1> HIDE DEF Kept
<1>7. Kept \/ (wire[i] = Ev /\ (OnMessage \/ OnTurnStarted \/ OnReload))
  BY <1>0, <1>1, <1>2, <1>3, <1>4, <1>5, <1>6
  DEF Next, Server, Answers, AttachAnswered, Faults, Person, Browser, Shows, OnEvent, Kept
<1> QED BY <1>7 DEF Kept

\* A turn that registers under the eyes of a tab takes nobody's place unheard, and
\* is announced to it unless it has asked for it.
LEMMA RegisterTold ==
  ASSUME Shape, NEW t \in Turns, Register(t), page # "closed", ~behind'
  PROVE  /\ ~Active /\ ~Missed(t)
         /\ phase' = [phase EXCEPT ![t] = "running"] /\ reg' = t
         /\ t \notin mine =>
              /\ \E j \in DOMAIN wire' : wire'[j].type = "turn_started" /\ wire'[j].turn = t
              /\ target[t] = 0 =>
                   \E j \in DOMAIN wire' : wire'[j].type = "message" /\ wire'[j].turn = t
              /\ target[t] # 0 =>
                   \E j \in DOMAIN wire' : wire'[j].type = "thread_changed"
<1>0. behind' \in BOOLEAN /\ wire \in Seq(Told)
  BY FlagStep DEF Register, Shape, FlagShape, FeedShape
<1>1. ~Active /\ ~Missed(t)
  BY <1>0 DEF Register
<1>2. phase' = [phase EXCEPT ![t] = "running"] /\ reg' = t
  BY <1>1 DEF Register
<1> DEFINE m == Event(IF target[t] = 0 THEN "message" ELSE "thread_changed", t)
           s == Event("turn_started", t)
<1>3. ASSUME t \notin mine
      PROVE  wire' = wire \o <<m, s>>
  BY <1>1, <1>3 DEF Register, PublishToChat, Missed
<1>4. m \in Told /\ s \in Told /\ s.type = "turn_started" /\ s.turn = t /\ m.turn = t
      /\ m.type = IF target[t] = 0 THEN "message" ELSE "thread_changed"
  BY DEF Event, Told
<1> HIDE DEF m, s
<1>5. <<m, s>> \in Seq(Told) /\ Len(<<m, s>>) = 2 /\ <<m, s>>[1] = m /\ <<m, s>>[2] = s
  BY <1>4
<1>6. /\ Len(wire) + 1 \in DOMAIN (wire \o <<m, s>>) /\ (wire \o <<m, s>>)[Len(wire) + 1] = m
      /\ Len(wire) + 2 \in DOMAIN (wire \o <<m, s>>) /\ (wire \o <<m, s>>)[Len(wire) + 2] = s
  BY <1>0, <1>5, ConcatProperties
<1> QED BY <1>1, <1>2, <1>3, <1>4, <1>6

\* A reply that is followed comes, or has come.
LEMMA FollowedComes ==
  ASSUME Shape, KeptInv, EndRead, Bubbled, NEW t \in Turns, Following(t)
  PROVE  \/ \E s \in streams : s.turn = t /\ s.pos <= Deltas + 1
         \/ /\ phase[t] # "running"
            /\ Row("reply", t) \in ToSet(rows) => Row("reply", t) \in OnScreen
            /\ \/ \E s \in streams : s.pos > Deltas + 1
               \/ Row("reply", t) \in OnScreen
<1>1. CASE \E s \in streams : s.turn = t
  <2>1. PICK s \in streams : s.turn = t
    BY <1>1
  <2>2. s.pos \in Nat /\ Deltas \in Nat
    BY TurnsAndKeys DEF Shape, TabShape, Stream
  <2>3. CASE s.pos > Deltas + 1
    BY <2>1, <2>3 DEF EndRead, Bubbled
  <2> QED BY <2>1, <2>2, <2>3
<1>2. CASE \E i \in DOMAIN shown : shown[i].who = "reply" /\ shown[i].turn = t /\ shown[i].known
  <2>1. Row("reply", t) \in OnScreen
    BY <1>2, InShown DEF OnScreen
  <2>2. t \in kept
    BY <2>1 DEF KeptInv
  <2>3. phase[t] # "running"
    BY <2>2 DEF KeptInv
  <2> QED BY <2>1, <2>3
<1> QED BY <1>1, <1>2 DEF Following

\* A step that touches no bubble, request or stream, and no row of a reply that
\* has been read to its end.
LEMMA BubbledCarries ==
  ASSUME Bubbled, UNCHANGED <<shown, streams, posts>>,
         \A s \in streams : s.pos > Deltas + 1 /\ Row("reply", s.turn) \in ToSet(rows')
                               => Row("reply", s.turn) \in ToSet(rows)
  PROVE  Bubbled'
<1>1. OnScreen' = OnScreen /\ \A k, t : Written(k, t)' <=> Written(k, t)
  BY DEF OnScreen, Written
<1> QED BY <1>1 DEF Bubbled

\* Bubbles that are added to disturb none.
LEMMA WrittenStays ==
  ASSUME TabShape, NEW b
  PROVE  /\ shown' = Append(shown, b) => \A k, t : Written(k, t) => Written(k, t)'
         /\ shown' = Append(shown, b) /\ b.who = "reply" => Written(b.key, b.turn)'
<1>1. shown \in Seq(LooseBubbles)
  BY DEF TabShape
<1>2. ASSUME shown' = Append(shown, b)
      PROVE  /\ \A i \in DOMAIN shown : i \in DOMAIN shown' /\ shown'[i] = shown[i]
             /\ Len(shown) + 1 \in DOMAIN shown' /\ shown'[Len(shown) + 1] = b
  BY <1>1, <1>2
<1> QED BY <1>2 DEF Written

\* What a tab that asks for a turn shows then: what it kept, and the message.
LEMMA AskedShown ==
  ASSUME NEW before \in Seq(LooseBubbles), NEW t \in Turns,
         shown' = before \o <<Bubble("user", t, 0, FALSE, 0), Bubble("reply", t, t, FALSE, 0)>>
  PROVE  /\ OnScreen' = ShownIn(before) \cup {Row("user", t)}
         /\ Written(t, t)'
         /\ before = shown => \A k, u : Written(k, u) => Written(k, u)'
<1> DEFINE a == Bubble("user", t, 0, FALSE, 0)
           b == Bubble("reply", t, t, FALSE, 0)
<1>1. /\ a \in LooseBubbles /\ b \in LooseBubbles
      /\ a.who = "user" /\ Row(a.who, a.turn) = Row("user", t)
      /\ b.who = "reply" /\ ~b.known /\ b.key = t /\ b.turn = t
  BY TurnsAndKeys DEF Bubble, LooseBubbles
<1> HIDE DEF a, b
<1>2. /\ <<a, b>> \in Seq(LooseBubbles) /\ DOMAIN <<a, b>> = 1..2
      /\ <<a, b>>[1] = a /\ <<a, b>>[2] = b
  BY <1>1
<1> DEFINE q == <<a, b>>
<1>3. ShownIn(q) = {Row("user", t)}
  <2>1. \A i \in DOMAIN q : i = 1 \/ i = 2
    BY <1>2
  <2>2. \A r \in ShownIn(q) : r = Row("user", t)
    BY <1>1, <1>2, <2>1, InShown
  <2>3. 1 \in DOMAIN q
    BY <1>2
  <2>4. Row("user", t) \in ShownIn(q)
    BY <1>1, <1>2, <2>3, InShown
  <2> QED BY <2>2, <2>4
<1>4. ShownIn(before \o <<a, b>>) = ShownIn(before) \cup ShownIn(<<a, b>>)
  BY <1>2, ShownJoined
<1>5. shown' = before \o <<a, b>>
  BY DEF a, b
<1>6. OnScreen' = ShownIn(shown')
  BY DEF OnScreen
<1>7. /\ Len(before) + 2 \in DOMAIN shown' /\ shown'[Len(before) + 2] = b
      /\ \A i \in DOMAIN before : i \in DOMAIN shown' /\ shown'[i] = before[i]
  <2>1. /\ Len(before) \in Nat /\ before \o <<a, b>> \in Seq(LooseBubbles)
        /\ Len(before \o <<a, b>>) = Len(before) + 2
        /\ \A i \in 1 .. Len(before) + 2 :
              (before \o <<a, b>>)[i] = IF i <= Len(before) THEN before[i]
                                                           ELSE <<a, b>>[i - Len(before)]
    BY <1>2, ConcatProperties
  <2> DEFINE n == Len(before) + 2
  <2>2. n \in DOMAIN shown' /\ shown'[n] = <<a, b>>[2]
    <3>1. n \in 1..n /\ ~(n <= Len(before)) /\ n - Len(before) = 2
      BY <2>1
    <3>2. (before \o <<a, b>>)[n] = <<a, b>>[2]
      BY <2>1, <3>1
    <3>3. n \in DOMAIN (before \o <<a, b>>)
      <4> HIDE DEF n
      <4>1. DOMAIN (before \o <<a, b>>) = 1 .. Len(before \o <<a, b>>)
        BY <2>1
      <4> QED BY <2>1, <3>1, <4>1 DEF n
    <3> HIDE DEF n
    <3> QED BY <1>5, <3>2, <3>3
  <2>3. \A i \in DOMAIN before : i \in DOMAIN shown' /\ shown'[i] = before[i]
    BY <2>1
  <2> QED BY <1>2, <2>2, <2>3
<1>8. Written(t, t)'
  BY <1>1, <1>7 DEF Written
<1>9. before = shown => \A k, u : Written(k, u) => Written(k, u)'
  BY <1>7 DEF Written
<1> QED BY <1>3, <1>4, <1>5, <1>6, <1>8, <1>9

\* An edit that nothing is in the way of shows what the thread will have.
LEMMA EditShown ==
  ASSUME Shape, EditMessage, ~behind'
  PROVE  \E t \in Turns, k \in Turns :
            /\ Idle /\ page = "mounted" /\ k \in mine /\ NextTurn(t)
            /\ phase' = [phase EXCEPT ![t] = "posted"]
            /\ mine' = mine \cup {t} /\ target' = [target EXCEPT ![t] = k]
            /\ held' = t /\ streaming' = TRUE
            /\ posts' = posts \cup {[key |-> t, turn |-> t]}
            /\ Written(t, t)' /\ Row("user", t) \in OnScreen'
            /\ Row("user", k) \in ToSet(rows)
                  => OnScreen' = ToSet(CutAt(k)) \cup {Row("user", t)}
<1>1. PICK i \in DOMAIN shown :
         /\ shown[i].who = "user" /\ shown[i].known /\ shown[i].turn \in mine
         /\ AskFor(SubSeq(shown, 1, i - 1), shown[i].turn)
         /\ behind' = (behind \/ ~Idle \/ OutOfOrder(i))
  BY DEF EditMessage
<1> DEFINE k == shown[i].turn
           before == SubSeq(shown, 1, i - 1)
<1>2. k \in Turns /\ k \in mine
  BY <1>1 DEF Shape, ServerShape
<1>3. PICK t \in Turns :
         /\ NextTurn(t)
         /\ phase' = [phase EXCEPT ![t] = "posted"]
         /\ mine' = mine \cup {t} /\ target' = [target EXCEPT ![t] = k]
         /\ shown' = before \o <<Bubble("user", t, 0, FALSE, 0), Bubble("reply", t, t, FALSE, 0)>>
         /\ held' = t /\ streaming' = TRUE
         /\ posts' = posts \cup {[key |-> t, turn |-> t]}
  BY <1>1 DEF AskFor
<1>4. before \in Seq(LooseBubbles)
  BY Prefix DEF Shape, TabShape
<1>5. Idle /\ ~OutOfOrder(i)
  BY <1>1 DEF Shape, FlagShape
<1>6. Row("user", k) \in ToSet(rows) => ShownIn(before) = ToSet(CutAt(k))
  BY <1>5 DEF OutOfOrder
<1> HIDE DEF before, k
<1>7. OnScreen' = ShownIn(before) \cup {Row("user", t)} /\ Written(t, t)'
  BY <1>3, <1>4, AskedShown
<1>8. page = "mounted"
  BY DEF EditMessage
<1> QED BY <1>2, <1>3, <1>5, <1>6, <1>7, <1>8

\* A reload that is shown on a screen nothing passes by is shown as it was taken,
\* and an older one in the meantime.
LEMMA ReloadShown ==
  ASSUME Shape, HoldIsBacked, Shows, ~behind', ~lost'
  PROVE  /\ Taken /\ ~stale /\ Idle /\ ~stale' /\ asked' = asked
         /\ \/ ShowThread /\ reload' = NoReload /\ shown' = reload.snap
            \/ /\ UNCHANGED reload
               /\ \E a \in Answered : shown' = a.snap
<1>0. TabShape /\ behind' \in BOOLEAN /\ stale \in BOOLEAN
  BY DEF Shape, FlagShape, Shows, ShowThread, ShowEarlier
<1>1. ASSUME NEW a \in Answered, Idle, shown' = a.snap \o Live
      PROVE  shown' = a.snap
  <2>1. held = 0
    BY <1>1 DEF Idle, HoldIsBacked
  <2>2. Live = <<>>
    BY <2>1 DEF Live
  <2>3. a \in Answer
    BY <1>0 DEF TabShape, Answered
  <2>4. a.snap \in Seq(LooseBubbles)
    BY <2>3 DEF Answer
  <2> QED BY <1>1, <2>2, <2>4
<1>2. CASE ShowThread
  <2>1. /\ reload.stage = "taken" /\ shown' = reload.snap \o Live
        /\ ~stale /\ Idle /\ reload' = NoReload /\ ~stale' /\ asked' = asked
    BY <1>0, <1>2 DEF ShowThread, Show
  <2>2. reload \in Answered
    BY DEF Answered
  <2> QED BY <1>1, <1>2, <2>1, <2>2 DEF Taken
<1>3. ASSUME NEW i \in DOMAIN earlier, ShowEarlier(i)
      PROVE  /\ Taken /\ ~stale /\ Idle /\ ~stale' /\ asked' = asked /\ UNCHANGED reload
             /\ \E a \in Answered : shown' = a.snap
  <2>1. /\ reload.stage = "taken" /\ ~stale /\ Idle /\ stale' = stale
        /\ UNCHANGED <<reload, asked>>
    BY <1>0, <1>3 DEF ShowEarlier
  <2>2. shown' = earlier[i].snap \o Live
    BY <1>3 DEF ShowEarlier, Show
  <2>3. earlier[i] \in Answered
    BY DEF Answered
  <2> QED BY <1>1, <2>1, <2>2, <2>3 DEF Taken
<1> QED BY <1>2, <1>3 DEF Shows

\* A reply's row that is new was saved by this step.
LEMMA SavedFrom ==
  ASSUME Shape, Next, NEW t \in Turns, Row("reply", t) \in ToSet(rows')
  PROVE  Row("reply", t) \in ToSet(rows) \/ (SaveReply(t) /\ t \in kept')
BY RowsFrom, RowsDiffer

\* A tab that is read to keeps the bubbles its requests and streams write in, and
\* a reply it has read to the end has come onto its screen.
LEMMA BubbledStep ==
  ASSUME TabInv, BasisInv, ArriveInv, Next, Watching', ~LoadPage, ~TakeThread
  PROVE  Bubbled'
<1> USE TurnsAndKeys
<1>0. /\ Shape /\ KeyInv /\ TextInv /\ SameTurn /\ EndRead /\ KeptInv /\ HoldIsBacked
      /\ TabShape /\ ServerShape /\ shown \in Seq(LooseBubbles)
  BY DEF TabInv, BasisInv, OnceInv, DoneInv, Shape, TabShape
<1>1. /\ Watching /\ Bubbled /\ ~behind' /\ ~lost'
      /\ ~Restart /\ ~RemoveMember /\ ~Detach /\ ~Ignore /\ ~OnRemoved
      /\ ~\E p \in posts : Refused(p)
      /\ ~\E s \in streams : ReadBroken(s)
  BY <1>0, Watched DEF ArriveInv, Watching
<1>2. ASSUME UNCHANGED <<shown, streams, posts>>
      PROVE  Bubbled'
  <2>1. ASSUME NEW s \in streams, s.pos > Deltas + 1, Row("reply", s.turn) \in ToSet(rows')
        PROVE  Row("reply", s.turn) \in ToSet(rows)
    <3>1. s.turn \in Turns /\ phase[s.turn] = "ended"
      BY <1>0, <2>1 DEF TabShape, Stream, EndRead
    <3> QED BY <1>0, <2>1, <3>1, SavedFrom DEF SaveReply
  <2> QED BY <1>1, <1>2, <2>1, BubbledCarries
<1>3. ASSUME NEW t \in Turns, Register(t)
      PROVE  Bubbled'
  <2>1. /\ posts' = {p \in posts : p.turn /= t}
        /\ streams' = streams \cup {[key |-> p.key, turn |-> t, pos |-> 0] :
                                        p \in {q \in posts : q.turn = t}}
        /\ UNCHANGED <<shown, rows>>
    BY <1>0, <1>1, <1>3, RegisterTold DEF Register, Watching
  <2>2. OnScreen' = OnScreen /\ \A k, u : Written(k, u)' <=> Written(k, u)
    BY <2>1 DEF OnScreen, Written
  <2>3. \A s \in streams' \ streams : s.pos = 0 /\ \E p \in posts : p.key = s.key /\ p.turn = s.turn
    BY <2>1
  <2> QED BY <1>1, <2>1, <2>2, <2>3 DEF Bubbled
<1>4. ASSUME Send
      PROVE  Bubbled'
  <2>1. PICK t \in Turns :
           /\ shown' = shown \o <<Bubble("user", t, 0, FALSE, 0), Bubble("reply", t, t, FALSE, 0)>>
           /\ posts' = posts \cup {[key |-> t, turn |-> t]}
    BY <1>4 DEF Send, AskFor
  <2>2. UNCHANGED <<streams, rows>>
    BY <1>4 DEF Send
  <2>3. /\ OnScreen' = OnScreen \cup {Row("user", t)}
        /\ Written(t, t)' /\ \A k, u : Written(k, u) => Written(k, u)'
    BY <1>0, <2>1, AskedShown DEF OnScreen
  <2> QED BY <1>1, <2>1, <2>2, <2>3 DEF Bubbled
<1>5. ASSUME EditMessage
      PROVE  Bubbled'
  <2>1. PICK t \in Turns :
           /\ Idle /\ posts' = posts \cup {[key |-> t, turn |-> t]}
           /\ Written(t, t)' /\ Row("user", t) \in OnScreen'
    BY <1>0, <1>1, <1>5, EditShown
  <2>2. UNCHANGED streams
    BY <1>5 DEF EditMessage
  <2> QED BY <2>1, <2>2 DEF Bubbled, Idle
<1>6. ASSUME NEW t \in Turns, NEW k \in Keys, Follow(t, k), UNCHANGED <<posts, rows>>
      PROVE  Bubbled'
  <2> DEFINE b == Bubble("reply", t, k, FALSE, 0)
             n == [key |-> k, turn |-> t, pos |-> 0]
  <2>1. /\ shown' = Append(shown, b) /\ b.who = "reply" /\ b.key = k /\ b.turn = t
        /\ streams' = streams \cup {n} /\ n.key = k /\ n.turn = t /\ n.pos = 0
    BY <1>6 DEF Follow, Bubble
  <2>2. OnScreen' = OnScreen
    BY <1>0, <1>6, PlaceholderShown DEF Follow
  <2> HIDE DEF b, n
  <2>3. Written(k, t)' /\ \A l, u : Written(l, u) => Written(l, u)'
    BY <1>0, <2>1, WrittenStays
  <2> QED BY <1>1, <1>6, <2>1, <2>2, <2>3 DEF Bubbled
<1>7. ASSUME AnswerResume \/ AttachAnswered
      PROVE  Bubbled'
  <2>1. UNCHANGED <<posts, rows>>
    BY <1>7 DEF AnswerResume, AttachAnswered, AnswerAttach, server
  <2>2. CASE UNCHANGED <<shown, streams>>
    BY <1>2, <2>1, <2>2
  <2>3. CASE ~UNCHANGED <<shown, streams>>
    <3>1. PICK k \in Keys : Resumable # 0 /\ Follow(Resumable, k)
      BY <1>7, <2>3 DEF AnswerResume, AttachAnswered, AnswerAttach
    <3>2. Resumable \in Turns
      BY <1>0, <3>1 DEF Resumable, ServerShape, Turns
    <3> QED BY <1>6, <2>1, <3>1, <3>2
  <2> QED BY <2>2, <2>3
<1>8. ASSUME OnMessage
      PROVE  Bubbled'
  <2>1. shown' = WithBubble(Ev.turn) /\ UNCHANGED <<streams, posts, rows>>
    BY <1>8 DEF OnMessage, server
  <2>2. CASE shown' = shown
    BY <1>2, <2>1, <2>2
  <2>3. CASE shown' # shown
    <3> DEFINE b == Bubble("user", Ev.turn, 0, TRUE, 0)
    <3>1. shown' = Append(shown, b)
      BY <2>1, <2>3 DEF WithBubble
    <3>2. Ev \in Told /\ Ev.type = "message"
      BY <1>0, <1>8 DEF OnMessage, Receive, Ev, Shape, FeedShape
    <3>3. b \in LooseBubbles
      BY <3>2 DEF Told, Bubble, LooseBubbles
    <3> HIDE DEF b
    <3>4. OnScreen \subseteq OnScreen'
      BY <1>0, <3>1, <3>3, ShownAdded DEF OnScreen
    <3>5. \A l, u : Written(l, u) => Written(l, u)'
      BY <1>0, <3>1, WrittenStays
    <3> QED BY <1>1, <2>1, <3>4, <3>5 DEF Bubbled
  <2> QED BY <2>2, <2>3
<1>9. ASSUME Shows
      PROVE  Bubbled'
  <2>1. Idle
    BY <1>0, <1>1, <1>9, ReloadShown
  <2>2. UNCHANGED <<streams, posts>>
    BY <1>9 DEF Shows, ShowThread, ShowEarlier, Show
  <2> QED BY <2>1, <2>2 DEF Bubbled, Idle
<1>10. ASSUME NEW s \in streams, ReadEvent(s)
       PROVE  Bubbled'
  <2> DEFINE n == [s EXCEPT !.pos = @ + 1]
  <2>1. /\ shown' = AfterEvent(s) /\ streams' = (streams \ {s}) \cup {n}
        /\ s.pos < Published(s.turn) /\ UNCHANGED <<posts, rows>>
    BY <1>10 DEF ReadEvent, server
  <2>2. s \in Stream /\ s.pos \in Nat /\ s.pos <= Deltas + 1
    BY <1>0, <2>1 DEF TabShape, Stream, Published
  <2>3. n.key = s.key /\ n.turn = s.turn /\ n.pos = s.pos + 1
    BY <2>2 DEF Stream
  <2> HIDE DEF n
  <2>4. /\ OnScreen \subseteq OnScreen'
        /\ s.pos > Deltas /\ s.turn \in kept /\ Written(s.key, s.turn)
              => Row("reply", s.turn) \in OnScreen'
        /\ \A k, t : Written(k, t) /\ (k # s.key \/ s.pos <= Deltas) => Written(k, t)'
    BY <1>0, <2>1, <2>2, ShownRead
  <2>5. /\ \A p \in posts : p.key # s.key
        /\ \A r \in streams : r # s => r.key # s.key
    BY <1>0 DEF KeyInv, StreamsApart
  <2>6. Row("reply", s.turn) \in ToSet(rows) => s.turn \in kept
    BY <1>0, <2>2 DEF KeptInv, Stream
  <2>7. Written(s.key, s.turn)
    BY <1>1, <2>2 DEF Bubbled
  <2>8. \A p \in posts : Written(p.key, p.turn)' /\ Row("user", p.turn) \in OnScreen'
    BY <1>1, <2>4, <2>5 DEF Bubbled
  <2>9. \A r \in streams : r # s =>
           /\ r.pos <= Deltas + 1 => Written(r.key, r.turn)'
           /\ r.pos > Deltas + 1 /\ Row("reply", r.turn) \in ToSet(rows)
                 => Row("reply", r.turn) \in OnScreen'
    BY <1>1, <2>4, <2>5 DEF Bubbled
  <2>10. /\ n.pos <= Deltas + 1 => Written(n.key, n.turn)'
         /\ n.pos > Deltas + 1 /\ Row("reply", n.turn) \in ToSet(rows)
               => Row("reply", n.turn) \in OnScreen'
    BY <2>2, <2>3, <2>4, <2>6, <2>7
  <2> QED BY <2>1, <2>8, <2>9, <2>10 DEF Bubbled
<1>11. ASSUME NEW s \in streams, ReadEnd(s)
       PROVE  Bubbled'
  <2>1. /\ shown' = [i \in DOMAIN shown |->
                       IF shown[i].key = s.key THEN [shown[i] EXCEPT !.key = 0] ELSE shown[i]]
        /\ streams' = streams \ {s} /\ UNCHANGED <<posts, rows>>
    BY <1>11 DEF ReadEnd, StopReading, server
  <2>2. OnScreen' = OnScreen
    BY <1>0, <2>1, ShownReleased DEF OnScreen
  <2>3. \A k, t : Written(k, t) /\ k # s.key => Written(k, t)'
    BY <2>1 DEF Written
  <2>4. /\ \A p \in posts : p.key # s.key
        /\ \A r \in streams : r # s => r.key # s.key
    BY <1>0 DEF KeyInv, StreamsApart
  <2> QED BY <1>1, <2>1, <2>2, <2>3, <2>4 DEF Bubbled
<1>12. ASSUME \/ StartElsewhere \/ CheckAccess \/ Subscribe \/ CutFeed \/ Mount \/ Reconnect
              \/ OnTurnStarted \/ OnReload
              \/ \E t \in Turns : Start(t) \/ SaveReply(t) \/ EndTurn(t) \/ GraceExpires(t)
       PROVE  UNCHANGED <<shown, streams, posts>>
  BY <1>12 DEF StartElsewhere, CheckAccess, Subscribe, CutFeed, Mount, Reconnect, OnTurnStarted,
     OnReload, Start, SaveReply, EndTurn, GraceExpires, tab
<1> QED
  BY <1>1, <1>2, <1>3, <1>4, <1>5, <1>7, <1>8, <1>9, <1>10, <1>11, <1>12
  DEF Next, Server, Answers, AttachAnswered, Faults, Person, Browser, Shows, OnEvent

\* The reply of a turn runs no more, and has its row on the screen and in a reload
\* that will be shown, if it has one.
Arrived(t) ==
    /\ phase[t] # "running"
    /\ Row("reply", t) \in ToSet(rows) =>
          /\ Row("reply", t) \in OnScreen
          /\ Taken /\ ~stale => Row("reply", t) \in ShownIn(reload.snap)

\* A reply that comes to a screen goes on coming until it is there.
LEMMA ComingStep ==
  ASSUME TabInv, BasisInv, ArriveInv, Next, Watching', ~LoadPage, ~TakeThread,
         NEW t \in Turns, Coming(t)
  PROVE  Coming(t)' \/ Arrived(t)'
<1> USE TurnsAndKeys
<1> DEFINE Goal == Coming(t)' \/ Arrived(t)'
<1>0. /\ Shape /\ KeyInv /\ TextInv /\ SameTurn /\ EndRead /\ KeptInv /\ FeedOpen
      /\ TabShape /\ ServerShape /\ FeedShape
  BY DEF TabInv, BasisInv, OnceInv, DoneInv, Shape
<1>1. /\ Watching /\ Bubbled /\ SnapFresh /\ ~behind' /\ ~lost' /\ member /\ page # "closed"
      /\ ~Restart /\ ~RemoveMember /\ ~Detach /\ ~Ignore /\ ~OnRemoved
      /\ ~\E p \in posts : Refused(p)
      /\ ~\E s \in streams : ReadBroken(s)
  BY <1>0, Watched DEF ArriveInv, Watching
<1>2. ASSUME Following(t), streams \subseteq streams', OnScreen \subseteq OnScreen',
             UNCHANGED <<rows, reload, stale>>, phase'[t] = "running" => phase[t] = "running"
      PROVE  Goal
  <2>1. CASE \E s \in streams : s.turn = t /\ s.pos <= Deltas + 1
    BY <1>2, <2>1 DEF Coming
  <2>2. CASE /\ phase[t] # "running"
             /\ Row("reply", t) \in ToSet(rows) => Row("reply", t) \in OnScreen
             /\ \/ \E s \in streams : s.pos > Deltas + 1
                \/ Row("reply", t) \in OnScreen
    <3>1. Taken /\ ~stale /\ Row("reply", t) \in ToSet(rows)
             => Row("reply", t) \in ShownIn(reload.snap)
      <4> SUFFICES ASSUME Taken, ~stale, Row("reply", t) \in ToSet(rows)
                   PROVE  Row("reply", t) \in ShownIn(reload.snap)
        OBVIOUS
      <4>1. Row("reply", t) \in (OnScreen \cup SnapRows) \cap ToSet(rows)
        BY <2>2
      <4> QED BY <1>1, <4>1 DEF SnapFresh
    <3> QED BY <1>2, <2>2, <3>1 DEF Arrived, Taken
  <2> QED BY <1>0, <1>1, <1>2, <2>1, <2>2, FollowedComes
<1>3. ASSUME NEW s \in streams, s.turn = t, s.pos <= Deltas + 1
      PROVE  Goal
  <2>1. CASE s \in streams'
    BY <1>3, <2>1 DEF Coming
  <2>2. ASSUME NEW r \in streams, ReadEvent(r), s \notin streams'
        PROVE  Goal
    <3> DEFINE n == [s EXCEPT !.pos = @ + 1]
    <3>1. r = s
      BY <1>3, <2>2 DEF ReadEvent
    <3>2. /\ shown' = AfterEvent(s) /\ n \in streams' /\ s.pos < Published(t)
          /\ stale' = (stale \/ (Taken /\ s.pos > Deltas)) /\ UNCHANGED <<phase, rows, reload>>
      BY <1>3, <2>2, <3>1 DEF ReadEvent, server, Taken
    <3>3. s \in Stream /\ s.pos \in Nat /\ n.turn = t /\ n.pos = s.pos + 1
      BY <1>0, <1>3 DEF TabShape, Stream
    <3> HIDE DEF n
    <3>4. CASE s.pos <= Deltas
      BY <3>2, <3>3, <3>4 DEF Coming
    <3>5. CASE s.pos > Deltas
      <4>1. phase[t] = "ended"
        BY <1>3, <3>2, <3>3, <3>5 DEF Published
      <4>2. Row("reply", t) \in ToSet(rows) => t \in kept
        BY <1>0 DEF KeptInv
      <4>3. Written(s.key, t)
        BY <1>1, <1>3 DEF Bubbled
      <4>4. t \in kept => Row("reply", t) \in OnScreen'
        BY <1>0, <1>3, <3>2, <3>5, <4>3, ShownRead
      <4> QED BY <3>2, <3>5, <4>1, <4>2, <4>4 DEF Arrived, Taken
    <3> QED BY <3>3, <3>4, <3>5
  <2>3. ASSUME NEW r \in streams, ReadEnd(r)
        PROVE  s \in streams'
    <3>1. r.pos = 2 + Deltas /\ streams' = streams \ {r}
      BY <2>3 DEF ReadEnd, StopReading, Published
    <3> QED BY <1>3, <3>1
  <2>4. ASSUME NEW u \in Turns, Register(u)
        PROVE  s \in streams'
    BY <2>4 DEF Register
  <2>5. ASSUME AnswerResume \/ AttachAnswered
        PROVE  s \in streams'
    BY <2>5 DEF AnswerResume, AttachAnswered, AnswerAttach, Follow
  <2>6. ASSUME \/ StartElsewhere \/ CheckAccess \/ Subscribe \/ CutFeed \/ Mount \/ Reconnect
               \/ OnMessage \/ OnTurnStarted \/ OnReload \/ Send \/ EditMessage \/ Shows
               \/ \E u \in Turns : Start(u) \/ SaveReply(u) \/ EndTurn(u) \/ GraceExpires(u)
        PROVE  s \in streams'
    BY <2>6 DEF StartElsewhere, CheckAccess, Subscribe, CutFeed, Mount, Reconnect, OnMessage,
         OnTurnStarted, OnReload, Send, EditMessage, Shows, ShowThread, ShowEarlier, Show, Start,
         SaveReply, EndTurn, GraceExpires, tab
  <2> HIDE DEF Goal
  <2> QED
    BY <1>1, <2>1, <2>2, <2>3, <2>4, <2>5, <2>6
    DEF Next, Server, Answers, AttachAnswered, Faults, Person, Browser, Shows, OnEvent
<1>4. ASSUME t \in attach
      PROVE  Goal
  <2>1. CASE t \in attach'
    BY <2>1 DEF Coming
  <2>2. ASSUME AnswerAttach(t)
        PROVE  Goal
    <3>1. Resumable = t \/ Following(t)
      BY <1>1, <2>2 DEF AnswerAttach
    <3>2. UNCHANGED <<phase, rows, reload, stale>> /\ t \in Keys
      BY <2>2 DEF AnswerAttach, server
    <3>3. \/ Resumable = 0 /\ UNCHANGED <<shown, streams>>
          \/ Resumable # 0 /\ Follow(Resumable, t)
      BY <2>2 DEF AnswerAttach
    <3>4. CASE Resumable = t
      <4> DEFINE n == [key |-> t, turn |-> t, pos |-> 0]
      <4>1. t # 0
        BY DEF Turns
      <4>2. n \in streams'
        BY <3>3, <3>4, <4>1 DEF Follow
      <4>3. n.turn = t /\ n.pos = 0
        OBVIOUS
      <4> HIDE DEF n
      <4> QED BY <4>2, <4>3 DEF Coming
    <3>5. CASE Following(t)
      <4>1. CASE UNCHANGED <<shown, streams>>
        BY <1>2, <3>2, <3>5, <4>1 DEF OnScreen
      <4>2. CASE Resumable # 0 /\ Follow(Resumable, t)
        <5>1. Resumable \in Turns
          BY <1>0, <4>2 DEF Resumable, ServerShape, Turns
        <5>2. OnScreen' = OnScreen
          BY <1>0, <3>2, <4>2, <5>1, PlaceholderShown DEF Follow
        <5>3. streams \subseteq streams'
          BY <4>2 DEF Follow
        <5> QED BY <1>2, <3>2, <3>5, <5>2, <5>3
      <4> QED BY <3>3, <4>1, <4>2
    <3> QED BY <3>1, <3>4, <3>5
  <2>3. ASSUME \/ OnTurnStarted
               \/ \E u \in Turns : AnswerAttach(u) /\ u # t
        PROVE  t \in attach'
    BY <1>4, <2>3 DEF OnTurnStarted, AnswerAttach
  <2>4. ASSUME \/ StartElsewhere \/ CheckAccess \/ Subscribe \/ CutFeed \/ Mount \/ Reconnect
               \/ OnMessage \/ OnReload \/ Send \/ EditMessage \/ Shows \/ AnswerResume
               \/ \E u \in Turns : \/ Start(u) \/ Register(u) \/ SaveReply(u) \/ EndTurn(u)
                                   \/ GraceExpires(u)
               \/ \E s \in streams : ReadEvent(s) \/ ReadEnd(s)
        PROVE  attach' = attach
    BY <2>4 DEF StartElsewhere, CheckAccess, Subscribe, CutFeed, Mount, Reconnect, OnMessage,
         OnReload, Send, EditMessage, Shows, ShowThread, ShowEarlier, Show, AnswerResume, Start,
         Register, SaveReply, EndTurn, GraceExpires, ReadEvent, ReadEnd, StopReading, tab
  <2> HIDE DEF Goal
  <2> QED
    BY <1>1, <1>4, <2>1, <2>2, <2>3, <2>4
    DEF Next, Server, Answers, AttachAnswered, Faults, Person, Browser, Shows, OnEvent
<1>5. ASSUME page = "loaded" \/ resume = "asked", reg = t
      PROVE  Goal
  <2>1. CASE reg' = reg /\ (page' = "loaded" \/ resume' = "asked")
    BY <1>5, <2>1 DEF Coming
  <2>2. CASE AnswerResume
    <3> DEFINE n == [key |-> ResumeKey, turn |-> t, pos |-> 0]
    <3>1. Resumable = t
      BY <1>1, <1>5 DEF Resumable
    <3>2. n \in streams'
      BY <2>2, <3>1 DEF AnswerResume, Follow
    <3>3. n.turn = t /\ n.pos = 0
      OBVIOUS
    <3> HIDE DEF n
    <3> QED BY <3>2, <3>3 DEF Coming
  <2>3. ASSUME NEW u \in Turns, Register(u)
        PROVE  Goal
    <3>1. /\ ~Missed(u) /\ phase' = [phase EXCEPT ![u] = "running"] /\ reg' = u
      BY <1>0, <1>1, <2>3, RegisterTold
    <3>2. UNCHANGED <<page, resume, shown, rows, reload, stale>> /\ streams \subseteq streams'
      BY <2>3 DEF Register
    <3>3. CASE u = t
      BY <1>5, <3>1, <3>2, <3>3 DEF Coming
    <3>4. CASE u # t
      <4>1. Following(t)
        BY <1>1, <1>5, <3>1 DEF Missed
      <4>2. phase'[t] = phase[t]
        BY <1>0, <3>1, <3>4 DEF ServerShape
      <4> QED BY <1>2, <3>2, <4>1, <4>2 DEF OnScreen
    <3> QED BY <3>3, <3>4
  <2>4. ASSUME NEW u \in Turns, GraceExpires(u)
        PROVE  FALSE
    BY <1>5, <2>4 DEF GraceExpires, Settled
  <2>5. ASSUME Mount
        PROVE  reg' = reg /\ resume' = "asked"
    BY <2>5 DEF Mount, server
  <2>6. ASSUME \/ StartElsewhere \/ CheckAccess \/ Subscribe \/ CutFeed \/ Reconnect
               \/ OnMessage \/ OnTurnStarted \/ OnReload \/ Send \/ EditMessage \/ Shows
               \/ AttachAnswered
               \/ \E u \in Turns : Start(u) \/ SaveReply(u) \/ EndTurn(u)
               \/ \E s \in streams : ReadEvent(s) \/ ReadEnd(s)
        PROVE  UNCHANGED <<reg, page, resume>>
    BY <2>6 DEF StartElsewhere, CheckAccess, Subscribe, CutFeed, Reconnect, OnMessage,
         OnTurnStarted, OnReload, Send, EditMessage, Shows, ShowThread, ShowEarlier, Show,
         AttachAnswered, AnswerAttach, Start, SaveReply, EndTurn, ReadEvent, ReadEnd,
         StopReading, tab, server
  <2> HIDE DEF Goal
  <2> QED
    BY <1>1, <1>5, <2>1, <2>2, <2>3, <2>4, <2>5, <2>6
    DEF Next, Server, Answers, AttachAnswered, Faults, Person, Browser, Shows, OnEvent
<1>6. ASSUME OnWire("turn_started", t)
      PROVE  Goal
  <2>1. PICK i \in DOMAIN wire : wire[i].type = "turn_started" /\ wire[i].turn = t
    BY <1>6 DEF OnWire
  <2>2. CASE \E j \in DOMAIN wire' : wire'[j] = wire[i]
    BY <2>1, <2>2 DEF Coming, OnWire
  <2>3. CASE wire[i] = Ev /\ (OnMessage \/ OnTurnStarted \/ OnReload)
    <3>1. OnTurnStarted /\ Ev.turn = t
      BY <2>1, <2>3 DEF OnMessage, OnReload, Receive
    <3>2. CASE held # 0
      <4>1. Following(t)
        BY <1>1, <3>1, <3>2 DEF OnTurnStarted
      <4>2. UNCHANGED <<phase, rows, streams, shown, reload, stale>>
        BY <3>1 DEF OnTurnStarted, server
      <4> QED BY <1>2, <4>1, <4>2 DEF OnScreen
    <3>3. CASE held = 0
      <4>1. t \in attach'
        BY <3>1, <3>3 DEF OnTurnStarted
      <4> QED BY <4>1 DEF Coming
    <3> QED BY <3>2, <3>3
  <2> QED BY <1>0, <2>2, <2>3, WireKept
<1>7. Goal
  BY <1>3, <1>4, <1>5, <1>6 DEF Coming
<1> QED BY <1>7 DEF Goal

\* Only a registration sets a turn running.
LEMMA RunningFrom ==
  ASSUME ServerShape, Next, NEW t \in Turns, phase'[t] = "running"
  PROVE  phase[t] = "running" \/ Register(t)
<1>1. ASSUME NEW u \in Turns, Start(u) \/ SaveReply(u) \/ EndTurn(u)
      PROVE  phase[t] = "running"
  <2>1. \E v \in {"refused", "starting", "saved", "ended"} : phase' = [phase EXCEPT ![u] = v]
    BY <1>1 DEF Start, SaveReply, EndTurn
  <2> QED BY <2>1 DEF ServerShape
<1>2. ASSUME NEW u \in Turns, Register(u), u # t
      PROVE  phase[t] = "running"
  <2>1. \E v : phase' = [phase EXCEPT ![u] = v]
    BY <1>2 DEF Register
  <2> QED BY <1>2, <2>1 DEF ServerShape
<1>3. ASSUME StartElsewhere \/ Send \/ EditMessage
      PROVE  phase[t] = "running"
  <2>1. \E u \in Turns, v \in {"starting", "posted"} : phase' = [phase EXCEPT ![u] = v]
    BY <1>3 DEF StartElsewhere, Send, EditMessage, AskFor
  <2> QED BY <2>1 DEF ServerShape
<1>4. ASSUME Restart
      PROVE  phase[t] = "running"
  BY <1>4 DEF Restart, ServerShape
<1>5. ASSUME \/ Answers \/ CutFeed \/ RemoveMember \/ Detach \/ LoadPage \/ Mount \/ Browser
             \/ \E u \in Turns : GraceExpires(u)
      PROVE  UNCHANGED phase
  BY <1>5 DEF Answers, AttachAnswered, AnswerResume, AnswerAttach, CheckAccess, Subscribe,
       TakeThread, CutFeed, RemoveMember, Detach, LoadPage, Mount, Browser, Shows, Reconnect,
       ShowThread, ShowEarlier, Show, OnEvent, Ignore, OnMessage, OnTurnStarted, OnReload,
       OnRemoved, Refused, ReadEvent, ReadEnd, ReadBroken, StopReading, GraceExpires, server
<1> QED BY <1>1, <1>2, <1>3, <1>4, <1>5 DEF Next, Server, Faults, Person

\* Every reply that runs comes to the screen.
LEMMA RunningStep ==
  ASSUME TabInv, BasisInv, ArriveInv, Next, Watching', ~LoadPage, ~TakeThread
  PROVE  RunningComes'
<1>0. /\ Shape /\ ServerShape /\ OwnPosts /\ Asks
  BY DEF TabInv, BasisInv, Shape, KeyInv
<1>1. /\ RunningComes /\ ~behind' /\ ~lost /\ page # "closed"
  BY <1>0, Watched DEF ArriveInv, Watching
<1>2. SUFFICES ASSUME NEW t \in Turns, phase'[t] = "running"
               PROVE  Coming(t)'
  BY DEF RunningComes
<1>3. CASE phase[t] = "running"
  BY <1>1, <1>2, <1>3, ComingStep DEF RunningComes, Arrived
<1>4. CASE Register(t)
  <2>1. CASE t \in mine
    <3>1. PICK p \in posts : p.turn = t
      BY <1>0, <1>1, <1>4, <2>1 DEF Asks, Register
    <3> DEFINE n == [key |-> p.key, turn |-> t, pos |-> 0]
    <3>2. ~Active
      BY <1>0, <1>1, <1>4, RegisterTold
    <3>3. n \in streams'
      BY <1>4, <3>1, <3>2 DEF Register
    <3>4. n.turn = t /\ n.pos = 0
      OBVIOUS
    <3> HIDE DEF n
    <3> QED BY <3>3, <3>4, TurnsAndKeys DEF Coming
  <2>2. CASE t \notin mine
    BY <1>0, <1>1, <1>4, <2>2, RegisterTold DEF Coming, OnWire
  <2> QED BY <2>1, <2>2
<1> QED BY <1>0, <1>2, <1>3, <1>4, RunningFrom

-----------------------------------------------------------------------------
(* The last message of a thread, which is what an edit takes                *)

\* A sequence's positions of some kind have a last one.
LEMMA LastOf ==
  ASSUME NEW n \in Nat, NEW S \in SUBSET (1..n), S # {}
  PROVE  \E m \in S : \A j \in S : m >= j
<1> DEFINE R == OpToRel(<, Nat)
           T == {n - m : m \in S}
<1>1. IsWellFoundedOn(R, Nat)
  BY NatLessThanWellFounded
<1>2. \A i, j \in Nat : <<i, j>> \in R <=> i < j
  BY DEF OpToRel
<1> HIDE DEF R
<1>3. T \subseteq Nat /\ T # {}
  <2>1. \A m \in S : n - m \in Nat
    OBVIOUS
  <2> QED BY <2>1
<1>4. PICK a \in T : \A b \in T : ~(<<b, a>> \in R)
  BY <1>1, <1>3, WFMin
<1>5. PICK m \in S : a = n - m
  BY <1>4
<1>6. ASSUME NEW j \in S
      PROVE  m >= j
  <2>1. n - j \in T /\ n - j \in Nat /\ a \in Nat
    BY <1>3, <1>4
  <2>2. ~(n - j < a)
    BY <1>2, <1>4, <2>1
  <2> QED BY <1>5, <2>2
<1> QED BY <1>6

\* The last message is the one no message comes after.
LEMMA LastIs ==
  ASSUME NEW q \in Seq(Rows), NEW i \in DOMAIN q, q[i].who = "user"
  PROVE  i = LastUser(q) <=> \A j \in DOMAIN q : q[j].who = "user" => j <= i
<1>1. Users(q) \in SUBSET (1..Len(q)) /\ Len(q) \in Nat /\ i \in Users(q)
  BY DEF Users
<1>2. \E m \in Users(q) : \A j \in Users(q) : m >= j
  BY <1>1, LastOf
<1>3. LastUser(q) \in Users(q) /\ \A j \in Users(q) : LastUser(q) >= j
  BY <1>2 DEF LastUser, Max
<1>4. \A j \in Users(q) : j \in Nat
  BY <1>1
<1>5. (\A j \in Users(q) : j <= i) <=> i = LastUser(q)
  BY <1>1, <1>3, <1>4
<1> QED BY <1>5 DEF Users

\* After a message is admitted only that one can be edited.
LEMMA NewestEdit ==
  ASSUME ServerShape, NEW t \in Turns, NEW k, k = 0 \/ Editable(k),
         rows' = WithMessage(t, k), NEW x, Editable(x)'
  PROVE  x = t
<1> DEFINE q == IF k = 0 THEN rows ELSE CutAt(k)
           r == Row("user", t)
<1>1. q \in Seq(Rows) /\ r \in Rows /\ r.who = "user" /\ rows' = q \o <<r>>
  BY CutRows DEF ServerShape, WithMessage, Row, Rows
<1> HIDE DEF q, r
<1>2. /\ Len(q) \in Nat /\ q \o <<r>> \in Seq(Rows) /\ Len(q \o <<r>>) = Len(q) + 1
      /\ (q \o <<r>>)[Len(q) + 1] = r
  BY <1>1, ConcatProperties
<1> DEFINE n == Len(q) + 1
<1>3. n \in DOMAIN rows' /\ rows'[n] = r /\ DOMAIN rows' = 1..n /\ rows' \in Seq(Rows) /\ n \in Nat
  BY <1>1, <1>2
<1> HIDE DEF n
<1>4. PICK i \in DOMAIN rows' : rows'[i] = Row("user", x) /\ i = LastUser(rows')
  BY DEF Editable
<1>5. rows'[i].who = "user"
  BY <1>4 DEF Row
<1>6. n <= i
  BY <1>1, <1>3, <1>4, <1>5, LastIs
<1>7. i = n
  BY <1>3, <1>6
<1> QED BY <1>3, <1>4, <1>7 DEF r, Row

\* Where the message that can be edited stands.
LEMMA EditPlace ==
  ASSUME ServerShape, RowInv, NEW x, Editable(x)
  PROVE  \E n \in DOMAIN rows :
            /\ rows[n] = Row("user", x) /\ CutAt(x) = SubSeq(rows, 1, n - 1)
            /\ \A j \in DOMAIN rows : rows[j].who = "user" => j <= n
<1>1. PICK i \in DOMAIN rows : rows[i] = Row("user", x) /\ i = LastUser(rows)
  BY DEF Editable
<1>2. (CHOOSE j \in DOMAIN rows : rows[j] = Row("user", x)) = i
  BY <1>1 DEF RowInv
<1>3. rows[i].who = "user" /\ rows \in Seq(Rows)
  BY <1>1 DEF Row, ServerShape
<1>4. \A j \in DOMAIN rows : rows[j].who = "user" => j <= i
  BY <1>1, <1>3, LastIs
<1>5. CutAt(x) = SubSeq(rows, 1, i - 1)
  BY <1>2 DEF CutAt
<1> QED BY <1>1, <1>4, <1>5

\* The messages above it stay.
LEMMA AboveEdit ==
  ASSUME ServerShape, RowInv, NEW x, Editable(x), NEW y, y # x, Row("user", y) \in ToSet(rows)
  PROVE  Row("user", y) \in ToSet(CutAt(x))
<1>1. PICK n \in DOMAIN rows :
         /\ rows[n] = Row("user", x) /\ CutAt(x) = SubSeq(rows, 1, n - 1)
         /\ \A j \in DOMAIN rows : rows[j].who = "user" => j <= n
  BY EditPlace
<1>2. PICK j \in DOMAIN rows : rows[j] = Row("user", y)
  BY DEF ToSet
<1>3. j <= n /\ j # n
  BY <1>1, <1>2, RowsDiffer DEF Row
<1>4. j \in 1..(n - 1) /\ rows \in Seq(Rows)
  BY <1>3 DEF ServerShape
<1>5. j \in DOMAIN CutAt(x) /\ CutAt(x)[j] = Row("user", y)
  BY <1>1, <1>2, <1>4, Prefix
<1> QED BY <1>5 DEF ToSet

\* A saved reply changes neither what can be edited nor what the edit leaves.
LEMMA SavedEdit ==
  ASSUME ServerShape, RowInv, NEW t \in Turns, rows' = Append(rows, Row("reply", t)),
         NEW x, Editable(x)'
  PROVE  Editable(x) /\ CutAt(x)' = CutAt(x)
<1> DEFINE r == Row("reply", t)
           m == Len(rows) + 1
<1>1. rows \in Seq(Rows) /\ r \in Rows /\ r.who = "reply" /\ r # Row("user", x)
  BY RowsDiffer DEF ServerShape, Row, Rows
<1>2. rows' = Append(rows, r)
  OBVIOUS
<1> HIDE DEF r
<1>3. /\ DOMAIN rows = 1..Len(rows) /\ Len(rows) \in Nat /\ DOMAIN rows' = 1..m
      /\ rows' \in Seq(Rows) /\ rows'[m] = r
      /\ \A i \in DOMAIN rows : i \in DOMAIN rows' /\ rows'[i] = rows[i]
  BY <1>1, <1>2
<1>4. \A i \in DOMAIN rows' : i \in DOMAIN rows \/ i = m
  BY <1>3
<1> HIDE DEF m
<1>5. PICK n \in DOMAIN rows' : rows'[n] = Row("user", x) /\ n = LastUser(rows')
  BY DEF Editable
<1>6. n \in DOMAIN rows /\ rows[n] = Row("user", x)
  BY <1>1, <1>3, <1>4, <1>5
<1>7. rows[n].who = "user" /\ rows'[n].who = "user"
  BY <1>5, <1>6 DEF Row
<1>8. \A j \in DOMAIN rows : rows[j].who = "user" => j <= n
  BY <1>3, <1>5, <1>7, LastIs
<1>9. n = LastUser(rows)
  BY <1>1, <1>6, <1>7, <1>8, LastIs
<1>10. Editable(x)
  <2>1. x /= 0
    BY DEF Editable
  <2> QED BY <1>6, <1>9, <2>1 DEF Editable
<1>11. (CHOOSE j \in DOMAIN rows : rows[j] = Row("user", x)) = n
  BY <1>6 DEF RowInv
<1>12. \A j \in DOMAIN rows' : rows'[j] = Row("user", x) => j = n
  BY <1>1, <1>3, <1>4, <1>6 DEF RowInv
<1>13. (CHOOSE j \in DOMAIN rows' : rows'[j] = Row("user", x)) = n
  BY <1>5, <1>12
<1>14. CutAt(x) = SubSeq(rows, 1, n - 1) /\ CutAt(x)' = SubSeq(rows', 1, n - 1)
  BY <1>11, <1>13 DEF CutAt
<1>15. /\ SubSeq(rows, 1, n - 1) \in Seq(Rows) /\ SubSeq(rows', 1, n - 1) \in Seq(Rows)
       /\ DOMAIN SubSeq(rows, 1, n - 1) = 1..(n - 1)
       /\ DOMAIN SubSeq(rows', 1, n - 1) = 1..(n - 1)
       /\ \A j \in 1..(n - 1) : /\ j \in DOMAIN rows /\ SubSeq(rows, 1, n - 1)[j] = rows[j]
                                /\ SubSeq(rows', 1, n - 1)[j] = rows'[j]
  BY <1>1, <1>3, <1>5, <1>6, Prefix
<1>16. SubSeq(rows, 1, n - 1) = SubSeq(rows', 1, n - 1)
  BY <1>3, <1>15
<1> QED BY <1>10, <1>14, <1>16

\* A turn that has been asked for was, or is asked for by this step.
LEMMA PostedFrom ==
  ASSUME Shape, Next, NEW u \in Turns, OwnEdit(u)'
  PROVE  OwnEdit(u) \/ (EditMessage /\ phase' = [phase EXCEPT ![u] = "posted"])
<1>0. ServerShape /\ u \in mine' /\ phase'[u] = "posted" /\ target'[u] # 0
  BY DEF OwnEdit, Shape
<1>1. CASE Send
  <2>1. PICK t \in Turns :
           /\ phase' = [phase EXCEPT ![t] = "posted"] /\ mine' = mine \cup {t}
           /\ target' = [target EXCEPT ![t] = 0]
    BY <1>1 DEF Send, AskFor
  <2>2. u # t
    BY <1>0, <2>1 DEF ServerShape
  <2> QED BY <1>0, <2>1, <2>2 DEF ServerShape, OwnEdit
<1>2. CASE EditMessage
  <2>1. PICK t \in Turns, k \in Turns :
           /\ phase' = [phase EXCEPT ![t] = "posted"] /\ mine' = mine \cup {t}
           /\ target' = [target EXCEPT ![t] = k]
    <3>1. PICK i \in DOMAIN shown :
             shown[i].turn \in mine /\ AskFor(SubSeq(shown, 1, i - 1), shown[i].turn)
      BY <1>2 DEF EditMessage
    <3> QED BY <1>0, <3>1 DEF AskFor, ServerShape
  <2> QED BY <1>0, <1>2, <2>1 DEF ServerShape, OwnEdit
<1>3. CASE StartElsewhere
  <2>1. PICK t \in Turns :
           /\ phase' = [phase EXCEPT ![t] = "starting"] /\ \E k : target' = [target EXCEPT ![t] = k]
    BY <1>3 DEF StartElsewhere
  <2>2. u # t /\ mine' = mine
    BY <1>0, <1>3, <2>1 DEF ServerShape, StartElsewhere
  <2> QED BY <1>0, <2>1, <2>2 DEF ServerShape, OwnEdit
<1>4. ASSUME NEW t \in Turns, Start(t) \/ Register(t) \/ SaveReply(t) \/ EndTurn(t)
      PROVE  OwnEdit(u)
  <2>1. UNCHANGED <<mine, target>>
    BY <1>4 DEF Start, Register, SaveReply, EndTurn
  <2>2. \E v \in {"refused", "starting", "running", "saved", "ended"} :
           phase' = [phase EXCEPT ![t] = v]
    BY <1>4 DEF Start, Register, SaveReply, EndTurn
  <2> QED BY <1>0, <2>1, <2>2 DEF ServerShape, OwnEdit
<1>5. CASE Restart
  BY <1>0, <1>5 DEF Restart, ServerShape, OwnEdit
<1>6. CASE UNCHANGED <<phase, mine, target>>
  BY <1>0, <1>6 DEF OwnEdit
<1>7. ASSUME \/ Answers \/ CutFeed \/ RemoveMember \/ Detach \/ LoadPage \/ Mount \/ Browser
             \/ \E t \in Turns : GraceExpires(t)
      PROVE  UNCHANGED <<phase, mine, target>>
  BY <1>7 DEF Answers, AttachAnswered, AnswerResume, AnswerAttach, CheckAccess, Subscribe,
       TakeThread, CutFeed, RemoveMember, Detach, LoadPage, Mount, Browser, Shows, Reconnect,
       ShowThread, ShowEarlier, Show, OnEvent, Ignore, OnMessage, OnTurnStarted, OnReload,
       OnRemoved, Refused, ReadEvent, ReadEnd, ReadBroken, StopReading, GraceExpires, server
<1> QED
  BY <1>1, <1>2, <1>3, <1>4, <1>5, <1>6, <1>7 DEF Next, Server, Faults, Person

\* Nothing joins an own edit that is on its way, and the screen shows what the
\* thread will have when it is admitted.
LEMMA EditAloneStep ==
  ASSUME TabInv, BasisInv, ArriveInv, Next, Watching', ~LoadPage, ~TakeThread
  PROVE  EditAlone'
<1> USE TurnsAndKeys
<1> DEFINE Alone(u) ==
             /\ streams = {} /\ attach = {} /\ resume = "none" /\ page = "mounted"
             /\ posts = {[key |-> u, turn |-> u]} /\ held = u /\ streaming
             /\ Editable(target[u]) => OnScreen = ToSet(CutAt(target[u])) \cup {Row("user", u)}
<1>0. /\ Shape /\ ServerShape /\ TabShape /\ FeedShape /\ RowInv /\ AskedOnce
      /\ PostedHere /\ Asks /\ OwnTargets /\ Messages /\ KeptInv /\ HoldIsBacked
  BY DEF TabInv, BasisInv, Shape, KeyInv
<1>1. /\ Watching /\ EditAlone /\ ~behind' /\ ~lost' /\ ~lost /\ page # "closed"
      /\ ~Restart /\ ~RemoveMember /\ ~Detach /\ ~Ignore /\ ~OnRemoved
      /\ ~\E p \in posts : Refused(p)
      /\ ~\E s \in streams : ReadBroken(s)
  BY <1>0, Watched DEF ArriveInv, Watching
<1>2. SUFFICES ASSUME NEW u \in Turns, OwnEdit(u)'
               PROVE  Alone(u)'
  BY DEF EditAlone
<1>3. ASSUME EditMessage, phase' = [phase EXCEPT ![u] = "posted"]
      PROVE  Alone(u)'
  <2>1. PICK t \in Turns, k \in Turns :
           /\ Idle /\ page = "mounted" /\ k \in mine /\ NextTurn(t)
           /\ phase' = [phase EXCEPT ![t] = "posted"]
           /\ mine' = mine \cup {t} /\ target' = [target EXCEPT ![t] = k]
           /\ held' = t /\ streaming' = TRUE
           /\ posts' = posts \cup {[key |-> t, turn |-> t]}
           /\ Row("user", k) \in ToSet(rows) => OnScreen' = ToSet(CutAt(k)) \cup {Row("user", t)}
    BY <1>0, <1>1, <1>3, EditShown
  <2>2. t = u
    <3>1. phase[t] = "none"
      BY <2>1 DEF NextTurn, Unused
    <3> QED BY <1>0, <1>3, <2>1, <3>1 DEF ServerShape
  <2>3. UNCHANGED <<rows, streams, attach, resume, page>>
    BY <1>3 DEF EditMessage
  <2>4. target'[u] = k
    BY <1>0, <2>1, <2>2 DEF ServerShape
  <2>5. Editable(k)' => Row("user", k) \in ToSet(rows)
    BY <2>3 DEF Editable, ToSet
  <2>6. CutAt(k)' = CutAt(k)
    BY <2>3 DEF CutAt
  <2>7. Editable(k)' => OnScreen' = ToSet(CutAt(k)') \cup {Row("user", u)}
    BY <2>1, <2>2, <2>5, <2>6
  <2>8. Editable(target[u])' => OnScreen' = ToSet(CutAt(target[u])') \cup {Row("user", u)}
    BY <2>4, <2>7 DEF Editable, CutAt
  <2>9. posts' = {[key |-> u, turn |-> u]}
    BY <2>1, <2>2 DEF Idle
  <2>10. streams' = {} /\ attach' = {} /\ resume' = "none" /\ page' = "mounted"
    BY <2>1, <2>3 DEF Idle
  <2> QED BY <2>1, <2>2, <2>8, <2>9, <2>10
<1>4. ASSUME OwnEdit(u)
      PROVE  Alone(u)'
  <2>0. PICK x : x = target[u]
    OBVIOUS
  <2>1. Alone(u) /\ u \in mine /\ phase[u] = "posted"
    BY <1>1, <1>4 DEF EditAlone, OwnEdit
  <2>2. x \in mine
    BY <1>0, <1>4, <2>0, <2>1 DEF OwnTargets, OwnEdit
  <2>3. ASSUME NEW t \in Turns, t \in mine, phase[t] \in {"posted", "starting"}
        PROVE  t = u
    BY <1>0, <1>1, <2>1, <2>3 DEF Asks
  <2>5. ASSUME target'[u] = x, UNCHANGED <<streams, attach, resume, page, posts, held, streaming>>,
               Editable(x)' => /\ Editable(x) /\ ToSet(CutAt(x)') = ToSet(CutAt(x))
                               /\ OnScreen' = OnScreen
        PROVE  Alone(u)'
    <3>1. Editable(target[u])' => Editable(x)' /\ CutAt(target[u])' = CutAt(x)'
      BY <2>5 DEF Editable, CutAt
    <3>2. Editable(x) => OnScreen = ToSet(CutAt(x)) \cup {Row("user", u)}
      BY <2>0, <2>1
    <3> QED BY <2>1, <2>5, <3>1, <3>2
  <2>6. ASSUME UNCHANGED rows
        PROVE  (Editable(x)' <=> Editable(x)) /\ CutAt(x)' = CutAt(x)
    <3>1. Editable(x)' <=> Editable(x)
      BY <2>6 DEF Editable
    <3>2. CutAt(x)' = CutAt(x)
      BY <2>6 DEF CutAt
    <3> QED BY <3>1, <3>2
  <2> HIDE DEF Alone
  <2>7. ASSUME NEW t \in Turns, Start(t)
        PROVE  FALSE
    <3>1. phase[t] = "posted"
      BY <2>7 DEF Start
    <3>2. t = u
      BY <1>0, <2>3, <3>1 DEF PostedHere
    <3>3. phase'[t] # "posted"
      BY <1>0, <2>7 DEF Start, ServerShape
    <3> QED BY <1>2, <3>2, <3>3 DEF OwnEdit
  <2>8. ASSUME StartElsewhere
        PROVE  Alone(u)'
    <3>1. PICK t \in Turns, k \in {0} \cup {j \in Turns \ mine : Editable(j)} :
             /\ NextTurn(t) /\ rows' = WithMessage(t, k) /\ target' = [target EXCEPT ![t] = k]
      BY <2>8 DEF StartElsewhere
    <3>2. phase[t] = "none" /\ t # u /\ t \notin mine
      BY <1>0, <2>1, <3>1 DEF NextTurn, Unused, AskedOnce
    <3>3. ~Editable(x)'
      BY <1>0, <2>2, <3>1, <3>2, NewestEdit
    <3>4. target'[u] = x
      BY <1>0, <2>0, <3>1, <3>2 DEF ServerShape
    <3>5. UNCHANGED <<streams, attach, resume, page, posts, held, streaming>>
      BY <2>8 DEF StartElsewhere, tab
    <3> QED BY <2>5, <3>3, <3>4, <3>5
  <2>9. ASSUME NEW t \in Turns, Register(t)
        PROVE  Alone(u)'
    <3>1. t # u /\ phase[t] = "starting"
      BY <2>1, <2>9 DEF Register
    <3>2. \A p \in posts : p.turn # t
      BY <2>1, <3>1 DEF Alone
    <3>3. UNCHANGED <<streams, attach, resume, page, posts, held, streaming, rows, shown, target>>
      BY <2>9, <3>2 DEF Register
    <3> QED BY <2>0, <2>5, <2>6, <3>3 DEF OnScreen
  <2>10. ASSUME NEW t \in Turns, SaveReply(t)
         PROVE  Alone(u)'
    <3>1. UNCHANGED <<streams, attach, resume, page, posts, held, streaming, shown, target>>
      BY <2>10 DEF SaveReply, tab
    <3>2. rows' = rows \/ rows' = Append(rows, Row("reply", t))
      BY <2>10 DEF SaveReply
    <3>3. Editable(x)' => Editable(x) /\ CutAt(x)' = CutAt(x)
      BY <1>0, <2>6, <3>2, SavedEdit
    <3> QED BY <2>0, <2>5, <3>1, <3>3 DEF OnScreen
  <2>11. ASSUME OnMessage
         PROVE  Alone(u)'
    <3>1. /\ UNCHANGED <<streams, attach, resume, page, posts, held, streaming, rows, target>>
          /\ shown' = WithBubble(Ev.turn)
      BY <2>11 DEF OnMessage, server
    <3>2. Ev \in Told /\ Ev.type = "message" /\ 1 \in DOMAIN wire /\ Ev = wire[1]
      BY <1>0, <2>11 DEF OnMessage, Receive, Ev, FeedShape
    <3>3. Ev.turn \in Turns /\ Ev.turn \notin mine
      BY <1>0, <3>2 DEF Told, Messages
    <3>4. Row("user", Ev.turn) \in ToSet(rows)
      BY <1>1, <2>11 DEF OnMessage
    <3>5. OnScreen' = OnScreen \/ OnScreen' = OnScreen \cup {Row("user", Ev.turn)}
      <4> DEFINE b == Bubble("user", Ev.turn, 0, TRUE, 0)
      <4>1. b \in LooseBubbles /\ b.who = "user" /\ b.turn = Ev.turn
        BY <3>3 DEF Bubble, LooseBubbles
      <4>2. shown' = shown \/ shown' = Append(shown, b)
        BY <3>1 DEF WithBubble
      <4> HIDE DEF b
      <4> QED BY <1>0, <4>1, <4>2, ShownAdded DEF OnScreen, TabShape
    <3>6. Editable(x) => OnScreen' = OnScreen
      <4> SUFFICES ASSUME Editable(x)
                   PROVE  OnScreen' = OnScreen
        OBVIOUS
      <4>1. Row("user", Ev.turn) \in ToSet(CutAt(x))
        BY <1>0, <2>2, <3>3, <3>4, AboveEdit
      <4>2. Row("user", Ev.turn) \in OnScreen
        BY <2>0, <2>1, <4>1 DEF Alone
      <4> QED BY <3>5, <4>2
    <3> QED BY <2>0, <2>5, <2>6, <3>1, <3>6
  <2>12. ASSUME Shows
         PROVE  FALSE
    <3>1. Idle
      BY <1>0, <1>1, <2>12, ReloadShown
    <3> QED BY <2>1, <3>1 DEF Alone, Idle
  <2>13. ASSUME \/ Send \/ EditMessage \/ AnswerResume \/ AttachAnswered \/ Mount
                \/ \E s \in streams : ReadEvent(s) \/ ReadEnd(s)
         PROVE  FALSE
    BY <2>1, <2>13 DEF Send, EditMessage, AnswerResume, AttachAnswered, AnswerAttach, Mount,
         Alone
  <2>14. ASSUME OnTurnStarted
         PROVE  UNCHANGED <<streams, attach, resume, page, posts, held, streaming, rows, shown, target>>
    <3>1. held # 0
      BY <2>1 DEF Alone
    <3> QED BY <2>14, <3>1 DEF OnTurnStarted, server
  <2>15. ASSUME \/ CheckAccess \/ Subscribe \/ CutFeed \/ Reconnect \/ OnReload
                \/ \E t \in Turns : EndTurn(t) \/ GraceExpires(t)
         PROVE  UNCHANGED <<streams, attach, resume, page, posts, held, streaming, rows, shown, target>>
    BY <2>15 DEF CheckAccess, Subscribe, CutFeed, Reconnect, OnReload, EndTurn, GraceExpires, tab,
       server
  <2>16. ASSUME UNCHANGED <<streams, attach, resume, page, posts, held, streaming, rows, shown, target>>
         PROVE  Alone(u)'
    BY <2>0, <2>5, <2>6, <2>16 DEF OnScreen
  <2> QED
    BY <1>1, <2>7, <2>8, <2>9, <2>10, <2>11, <2>12, <2>13, <2>14, <2>15, <2>16
    DEF Next, Server, Answers, AttachAnswered, Faults, Person, Browser, Shows, OnEvent
<1> HIDE DEF Alone
<1> QED BY <1>0, <1>2, <1>3, <1>4, PostedFrom

\* A reload that will be shown keeps up with the replies the screen has.
LEMMA SnapFreshStep ==
  ASSUME TabInv, BasisInv, ArriveInv, Next, Watching', ~LoadPage, ~TakeThread
  PROVE  SnapFresh'
<1> USE TurnsAndKeys
<1>0. /\ Shape /\ ServerShape /\ TabShape /\ TextInv /\ SameTurn /\ KeptInv /\ HoldIsBacked
      /\ stale \in BOOLEAN
  BY DEF TabInv, BasisInv, OnceInv, Shape, FlagShape
<1>1. /\ Watching /\ SnapFresh /\ ~behind' /\ ~lost' /\ page # "closed"
      /\ ~Restart /\ ~RemoveMember /\ ~Detach /\ ~Ignore /\ ~OnRemoved
      /\ ~\E p \in posts : Refused(p)
      /\ ~\E s \in streams : ReadBroken(s)
  BY <1>0, Watched DEF ArriveInv, Watching
<1>a. SnapRows' \subseteq SnapRows
  <2> SUFFICES ASSUME NEW a \in Answered'
               PROVE  ShownIn(a.snap) \subseteq SnapRows
    BY DEF SnapRows
  <2>1. a \in Answered \/ a = NoReload
    BY <1>0, AnsweredStep
  <2>2. a \in Answered => ShownIn(a.snap) \subseteq SnapRows
    BY DEF SnapRows
  <2>3. ShownIn(<<>>) = {}
    BY DEF ShownIn
  <2> QED BY <2>1, <2>2, <2>3 DEF NoReload
<1>2. ASSUME posts' \subseteq posts, UNCHANGED reload, stale => stale',
             \A s \in streams' : s \in streams \/ s.pos <= Deltas + 1,
             OnScreen' \subseteq OnScreen \cup SnapRows \cup {Row("user", t) : t \in Turns}
      PROVE  SnapFresh'
  <2> SUFFICES ASSUME Taken', ~stale'
               PROVE  /\ posts' = {} /\ \A s \in streams' : s.pos <= Deltas + 1
                      /\ \A t \in Turns :
                            Row("reply", t) \in (OnScreen' \cup SnapRows') \cap ToSet(rows')
                               => Row("reply", t) \in ShownIn(reload'.snap)
    BY DEF SnapFresh
  <2>1. Taken /\ ~stale
    BY <1>2 DEF Taken
  <2>2. posts = {} /\ \A s \in streams : s.pos <= Deltas + 1
    BY <1>1, <2>1 DEF SnapFresh
  <2>3. ASSUME NEW t \in Turns, Row("reply", t) \in (OnScreen' \cup SnapRows') \cap ToSet(rows')
        PROVE  Row("reply", t) \in ShownIn(reload'.snap)
    <3>1. Row("reply", t) \in OnScreen \cup SnapRows
      BY <1>2, <1>a, <2>3, RowsDiffer
    <3>2. phase[t] # "running"
      BY <1>0, <3>1 DEF KeptInv
    <3>3. Row("reply", t) \in ToSet(rows)
      BY <1>0, <2>3, <3>2, SavedFrom DEF SaveReply
    <3>4. Row("reply", t) \in (OnScreen \cup SnapRows) \cap ToSet(rows)
      BY <3>1, <3>3
    <3> QED BY <1>1, <1>2, <2>1, <3>4 DEF SnapFresh
  <2> QED BY <1>2, <2>2, <2>3
<1>3. ASSUME NEW t \in Turns, Register(t)
      PROVE  SnapFresh'
  <2>1. /\ posts' \subseteq posts /\ UNCHANGED <<shown, reload, stale>>
        /\ \A s \in streams' : s \in streams \/ s.pos = 0
    BY <1>3 DEF Register
  <2> QED BY <1>2, <2>1 DEF OnScreen
<1>4. ASSUME Send \/ EditMessage \/ OnMessage
      PROVE  SnapFresh'
  <2>1. UNCHANGED reload /\ stale' = (stale \/ Taken)
    BY <1>4 DEF Send, EditMessage, OnMessage, AskFor, Taken
  <2> QED BY <1>0, <2>1 DEF SnapFresh, Taken
<1>5. ASSUME AnswerResume \/ AttachAnswered
      PROVE  SnapFresh'
  <2>1. UNCHANGED <<posts, reload, stale>>
    BY <1>5 DEF AnswerResume, AttachAnswered, AnswerAttach, history
  <2>2. CASE UNCHANGED <<shown, streams>>
    BY <1>2, <2>1, <2>2 DEF OnScreen
  <2>3. CASE ~UNCHANGED <<shown, streams>>
    <3>1. PICK k \in Keys : Resumable # 0 /\ Follow(Resumable, k)
      BY <1>5, <2>3 DEF AnswerResume, AttachAnswered, AnswerAttach
    <3>2. Resumable \in Turns
      BY <1>0, <3>1 DEF Resumable, ServerShape, Turns
    <3>3. OnScreen' = OnScreen
      BY <1>0, <3>1, <3>2, PlaceholderShown DEF Follow
    <3>4. \A s \in streams' : s \in streams \/ s.pos = 0
      BY <3>1 DEF Follow
    <3> QED BY <1>2, <2>1, <3>3, <3>4
  <2> QED BY <2>2, <2>3
<1>6. ASSUME NEW s \in streams, ReadEvent(s)
      PROVE  SnapFresh'
  <2> DEFINE n == [s EXCEPT !.pos = @ + 1]
  <2>1. /\ shown' = AfterEvent(s) /\ streams' = (streams \ {s}) \cup {n}
        /\ UNCHANGED <<posts, reload>> /\ stale' = (stale \/ (Taken /\ s.pos > Deltas))
    BY <1>6 DEF ReadEvent, Taken
  <2>2. s \in Stream /\ s.pos \in Nat /\ n.pos = s.pos + 1
    BY <1>0 DEF TabShape, Stream
  <2> HIDE DEF n
  <2>3. CASE s.pos > Deltas
    BY <2>1, <2>3 DEF SnapFresh, Taken
  <2>4. CASE s.pos <= Deltas
    <3>1. OnScreen' \subseteq OnScreen
      BY <1>0, <2>1, <2>2, <2>4, ShownRead
    <3>2. \A r \in streams' : r \in streams \/ r.pos <= Deltas + 1
      BY <2>1, <2>2, <2>4
    <3> QED BY <1>2, <2>1, <3>1, <3>2
  <2> QED BY <2>2, <2>3, <2>4
<1>7. ASSUME NEW s \in streams, ReadEnd(s)
      PROVE  SnapFresh'
  <2>1. /\ shown' = [i \in DOMAIN shown |->
                       IF shown[i].key = s.key THEN [shown[i] EXCEPT !.key = 0] ELSE shown[i]]
        /\ streams' = streams \ {s} /\ UNCHANGED <<posts, reload, stale>>
    BY <1>7 DEF ReadEnd, StopReading
  <2>2. OnScreen' = OnScreen
    BY <1>0, <2>1, ShownReleased DEF OnScreen
  <2> QED BY <1>2, <2>1, <2>2
<1>8. ASSUME Shows
      PROVE  SnapFresh'
  <2>1. CASE reload' = NoReload
    BY <2>1 DEF SnapFresh, Taken, NoReload
  <2>2. ASSUME UNCHANGED reload, NEW a \in Answered, shown' = a.snap
        PROVE  SnapFresh'
    <3>1. ~stale /\ UNCHANGED <<posts, streams>>
      BY <1>0, <1>1, <1>8, ReloadShown, ShowsIs
    <3>2. OnScreen' \subseteq SnapRows
      BY <2>2 DEF OnScreen, SnapRows
    <3> QED BY <1>2, <2>2, <3>1, <3>2
  <2> QED BY <1>0, <1>1, <1>8, <2>1, <2>2, ReloadShown
<1>9. ASSUME \/ StartElsewhere \/ CheckAccess \/ Subscribe \/ CutFeed \/ Mount \/ Reconnect
             \/ OnTurnStarted \/ OnReload
             \/ \E t \in Turns : Start(t) \/ SaveReply(t) \/ EndTurn(t) \/ GraceExpires(t)
      PROVE  UNCHANGED <<shown, streams, posts, reload, stale>>
  BY <1>9 DEF StartElsewhere, CheckAccess, Subscribe, CutFeed, Mount, Reconnect, OnTurnStarted,
     OnReload, Start, SaveReply, EndTurn, GraceExpires, tab, history
<1>10. ASSUME UNCHANGED <<shown, streams, posts, reload, stale>>
       PROVE  SnapFresh'
  BY <1>2, <1>10 DEF OnScreen
<1> QED
  BY <1>1, <1>3, <1>4, <1>5, <1>6, <1>7, <1>8, <1>9, <1>10
  DEF Next, Server, Answers, AttachAnswered, Faults, Person, Browser, Shows, OnEvent

\* A refused turn stays so, and one that is asked for or admitted waits as it is
\* for the server.
LEMMA TurnWaits ==
  ASSUME Shape, Next, NEW t \in Turns
  PROVE  /\ phase[t] = "refused" => phase'[t] = "refused"
         /\ phase[t] = "posted" =>
              (phase'[t] = "posted" /\ target'[t] = target[t]) \/ Start(t) \/ Restart
         /\ phase[t] = "starting" =>
              \/ phase'[t] = "starting" /\ target'[t] = target[t] /\ (t \in mine' => t \in mine)
              \/ Register(t) \/ Restart
<1> DEFINE Same == phase'[t] = phase[t] /\ target'[t] = target[t] /\ (t \in mine' => t \in mine)
           Goal == /\ phase[t] = "refused" => phase'[t] = "refused"
                   /\ phase[t] = "posted" =>
                        (phase'[t] = "posted" /\ target'[t] = target[t]) \/ Start(t) \/ Restart
                   /\ phase[t] = "starting" =>
                        \/ /\ phase'[t] = "starting" /\ target'[t] = target[t]
                           /\ t \in mine' => t \in mine
                        \/ Register(t) \/ Restart
<1>0. ServerShape
  BY DEF Shape
<1>1. ASSUME Same
      PROVE  Goal
  BY <1>1
<1>2. ASSUME NEW u \in Turns, Start(u) \/ Register(u) \/ SaveReply(u) \/ EndTurn(u)
      PROVE  Goal
  <2>1. UNCHANGED <<mine, target>> /\ \E v : phase' = [phase EXCEPT ![u] = v]
    BY <1>2 DEF Start, Register, SaveReply, EndTurn
  <2>2. CASE u # t
    <3>1. Same
      BY <1>0, <2>1, <2>2 DEF ServerShape
    <3> HIDE DEF Same, Goal
    <3> QED BY <1>1, <3>1
  <2>3. CASE u = t
    BY <1>2, <2>3 DEF Start, Register, SaveReply, EndTurn
  <2> QED BY <2>2, <2>3
<1>3. ASSUME StartElsewhere \/ Send \/ EditMessage
      PROVE  Goal
  <2>1. PICK u \in Turns : /\ NextTurn(u) /\ \E v : phase' = [phase EXCEPT ![u] = v]
                           /\ \E k : target' = [target EXCEPT ![u] = k]
                           /\ mine' = mine \/ mine' = mine \cup {u}
    <3>1. CASE StartElsewhere
      BY <3>1 DEF StartElsewhere
    <3>2. CASE Send
      BY <3>2 DEF Send, AskFor
    <3>3. CASE EditMessage
      <4>1. PICK i \in DOMAIN shown : AskFor(SubSeq(shown, 1, i - 1), shown[i].turn)
        BY <3>3 DEF EditMessage
      <4> QED BY <4>1 DEF AskFor
    <3> QED BY <1>3, <3>1, <3>2, <3>3
  <2>2. phase[u] = "none"
    BY <2>1 DEF NextTurn, Unused
  <2>3. CASE u # t
    <3>1. Same
      BY <1>0, <2>1, <2>3 DEF ServerShape
    <3> HIDE DEF Same, Goal
    <3> QED BY <1>1, <3>1
  <2>4. CASE u = t
    BY <2>2, <2>4
  <2> QED BY <2>3, <2>4
<1>4. ASSUME Restart
      PROVE  Goal
  BY <1>0, <1>4 DEF Restart, ServerShape
<1>5. ASSUME \/ Answers \/ CutFeed \/ RemoveMember \/ Detach \/ LoadPage \/ Mount \/ Browser
             \/ \E u \in Turns : GraceExpires(u)
      PROVE  Same
  <2>1. UNCHANGED <<phase, mine, target>>
    BY <1>5 DEF Answers, AttachAnswered, AnswerResume, AnswerAttach, CheckAccess, Subscribe,
         TakeThread, CutFeed, RemoveMember, Detach, LoadPage, Mount, Browser, Shows, Reconnect,
         ShowThread, ShowEarlier, Show, OnEvent, Ignore, OnMessage, OnTurnStarted, OnReload,
         OnRemoved, Refused, ReadEvent, ReadEnd, ReadBroken, StopReading, GraceExpires, server
  <2> QED BY <2>1
<1> HIDE DEF Same, Goal
<1>6. Goal
  BY <1>1, <1>2, <1>3, <1>4, <1>5 DEF Next, Server, Faults, Person
<1> QED BY <1>6 DEF Goal

\* What passes a screen by only later does so, or is an edit that comes as the
\* screen shows it.
LEMMA DoomedStep ==
  ASSUME TabInv, BasisInv, ArriveInv, Next, Watching', ~LoadPage, ~TakeThread, Doomed
  PROVE  Doomed' \/ (Complete' /\ Exact')
<1> USE TurnsAndKeys
<1> DEFINE Goal == Doomed' \/ (Complete' /\ Exact')
<1>0. /\ Shape /\ ServerShape /\ TabShape /\ OwnPosts /\ HoldIsBacked
      /\ stale \in BOOLEAN
  BY DEF TabInv, BasisInv, KeyInv, Shape, FlagShape
<1>1. /\ Watching /\ EditAlone /\ SnapFresh /\ ~behind' /\ ~lost' /\ page # "closed"
      /\ ~Restart /\ ~RemoveMember /\ ~Detach /\ ~Ignore /\ ~OnRemoved
      /\ ~\E p \in posts : Refused(p)
      /\ ~\E s \in streams : ReadBroken(s)
  BY <1>0, Watched DEF ArriveInv, Watching
<1>2. ASSUME Taken, stale
      PROVE  Taken' /\ stale'
  <2>1. ~Shows
    BY <1>0, <1>1, <1>2, ReloadShown
  <2>2. ASSUME Send \/ EditMessage \/ OnMessage \/ \E s \in streams : ReadEvent(s)
        PROVE  Taken' /\ stale'
    BY <1>2, <2>2 DEF Send, EditMessage, OnMessage, ReadEvent, AskFor, Taken
  <2>3. ASSUME \/ StartElsewhere \/ CheckAccess \/ Subscribe \/ CutFeed \/ Mount \/ Reconnect
               \/ OnTurnStarted \/ OnReload \/ AnswerResume \/ AttachAnswered
               \/ \E t \in Turns : \/ Start(t) \/ Register(t) \/ SaveReply(t) \/ EndTurn(t)
                                   \/ GraceExpires(t)
               \/ \E s \in streams : ReadEnd(s)
        PROVE  UNCHANGED <<reload, stale>>
    BY <2>3 DEF StartElsewhere, CheckAccess, Subscribe, CutFeed, Mount, Reconnect, OnTurnStarted,
         OnReload, AnswerResume, AttachAnswered, AnswerAttach, Start, Register, SaveReply, EndTurn,
         GraceExpires, ReadEnd, StopReading, tab, history
  <2> QED
    BY <1>1, <1>2, <2>1, <2>2, <2>3
    DEF Next, Server, Answers, AttachAnswered, Faults, Person, Browser, Shows, OnEvent, Taken
<1>3. ASSUME NEW p \in posts, p.turn \in Turns, phase'[p.turn] # "starting", phase'[p.turn] # "running"
      PROVE  p \in posts'
  <2>1. ASSUME NEW t \in Turns, Register(t)
        PROVE  p \in posts'
    <3>1. p.turn # t
      BY <1>0, <1>1, <1>3, <2>1, RegisterTold DEF ServerShape
    <3> QED BY <2>1, <3>1 DEF Register
  <2>2. ASSUME Send \/ EditMessage
        PROVE  p \in posts'
    BY <2>2 DEF Send, EditMessage, AskFor
  <2>3. ASSUME \/ StartElsewhere \/ CheckAccess \/ Subscribe \/ CutFeed \/ Mount \/ Reconnect
               \/ OnTurnStarted \/ AnswerResume \/ AttachAnswered \/ OnMessage \/ OnReload
               \/ Shows
               \/ \E t \in Turns : Start(t) \/ SaveReply(t) \/ EndTurn(t) \/ GraceExpires(t)
               \/ \E s \in streams : ReadEvent(s) \/ ReadEnd(s)
        PROVE  UNCHANGED posts
    BY <2>3 DEF StartElsewhere, CheckAccess, Subscribe, CutFeed, Mount, Reconnect, OnTurnStarted,
         AnswerResume, AttachAnswered, AnswerAttach, OnMessage, OnReload, Shows, ShowThread,
         ShowEarlier, Show, Start, SaveReply, EndTurn, GraceExpires, ReadEvent, ReadEnd,
         StopReading, tab
  <2> QED
    BY <1>1, <2>1, <2>2, <2>3
    DEF Next, Server, Answers, AttachAnswered, Faults, Person, Browser, Shows, OnEvent
<1>4. ASSUME NEW p \in posts, phase[p.turn] = "refused"
      PROVE  Doomed'
  <2>1. p.turn \in Turns
    BY <1>0 DEF TabShape, Post
  <2>2. phase'[p.turn] = "refused"
    BY <1>0, <1>4, <2>1, TurnWaits
  <2> QED BY <1>3, <2>1, <2>2 DEF Doomed
<1>5. ASSUME NEW u \in Turns, OwnEdit(u)
      PROVE  Goal
  <2>0. PICK x : x = target[u]
    OBVIOUS
  <2>1. /\ u \in mine /\ phase[u] = "posted" /\ x # 0
        /\ posts = {[key |-> u, turn |-> u]}
        /\ Editable(x) => OnScreen = ToSet(CutAt(x)) \cup {Row("user", u)}
    BY <1>1, <1>5, <2>0 DEF EditAlone, OwnEdit
  <2>2. CASE ~Start(u)
    <3>1. phase'[u] = "posted" /\ target'[u] # 0
      BY <1>0, <1>1, <2>0, <2>1, <2>2, TurnWaits
    <3>2. u \in mine'
      BY <1>0, <2>1, Progress DEF TabInv, KeyInv
    <3> QED BY <3>1, <3>2 DEF OwnEdit, Doomed
  <2>3. CASE Start(u) /\ phase'[u] = "refused"
    <3> DEFINE p == [key |-> u, turn |-> u]
    <3>1. p \in posts /\ p.turn = u
      BY <2>1
    <3>2. p \in posts'
      BY <2>3, <3>1 DEF Start, tab
    <3> HIDE DEF p
    <3> QED BY <2>3, <3>1, <3>2 DEF Doomed
  <2>4. CASE Start(u) /\ phase'[u] # "refused"
    <3>1. /\ rows' = WithMessage(u, x) /\ Editable(x)
          /\ UNCHANGED <<reload, shown, stale>>
      <4>1. phase' # [phase EXCEPT ![u] = "refused"]
        BY <1>0, <2>4 DEF ServerShape
      <4> QED BY <2>0, <2>1, <2>4, <4>1 DEF Start, tab, history
    <3>2. ToSet(rows') = OnScreen
      BY <1>0, <2>1, <3>1, AdmittedRows
    <3>3. CASE Taken
      <4>1. stale
        BY <1>0, <1>1, <2>1, <3>3 DEF SnapFresh
      <4> QED BY <3>1, <3>3, <4>1 DEF Doomed, Taken
    <3>4. CASE ~Taken
      <4>1. ShownIn(Base') = ToSet(rows')
        BY <3>1, <3>2, <3>4 DEF Base, Taken, OnScreen
      <4>2. ShownIn(Base)' = ToSet(rows)'
        BY <4>1
      <4> QED BY <4>2 DEF Complete, Exact, RowComes
    <3> QED BY <3>3, <3>4
  <2> QED BY <2>2, <2>3, <2>4
<1>6. Goal
  BY <1>2, <1>4, <1>5 DEF Doomed
<1> QED BY <1>6 DEF Goal

\* A reload that is due goes on being due.
LEMMA DueStep ==
  ASSUME TabInv, BasisInv, ArriveInv, Next, Watching', ~LoadPage, ~TakeThread, Due
  PROVE  Due'
<1>0. /\ Shape /\ ServerShape /\ TabShape /\ FeedOpen /\ AskedOnce
  BY DEF TabInv, BasisInv, KeyInv, Shape
<1>1. /\ Watching /\ ~behind' /\ page # "closed"
      /\ ~Restart /\ ~RemoveMember /\ ~Detach /\ ~Ignore /\ ~OnRemoved
      /\ ~\E p \in posts : Refused(p)
      /\ ~\E s \in streams : ReadBroken(s)
  BY <1>0, Watched DEF ArriveInv, Watching
<1>2. ASSUME asked > 0
      PROVE  Due'
  <2>1. CASE OnReload
    <3>1. asked' > 0
      BY <1>0, <1>2, <2>1 DEF OnReload, TabShape
    <3> QED BY <3>1 DEF Due
  <2>2. ASSUME \/ StartElsewhere \/ CheckAccess \/ Subscribe \/ CutFeed \/ Mount \/ Reconnect
               \/ OnTurnStarted \/ OnMessage \/ AnswerResume \/ AttachAnswered \/ Send \/ EditMessage
               \/ Shows
               \/ \E t \in Turns : \/ Start(t) \/ Register(t) \/ SaveReply(t) \/ EndTurn(t)
                                   \/ GraceExpires(t)
               \/ \E s \in streams : ReadEvent(s) \/ ReadEnd(s)
        PROVE  asked' = asked
    BY <2>2 DEF StartElsewhere, CheckAccess, Subscribe, CutFeed, Mount, Reconnect, OnTurnStarted,
         OnMessage, AnswerResume, AttachAnswered, AnswerAttach, Send, EditMessage, Shows,
         ShowThread, ShowEarlier, Start, Register, SaveReply, EndTurn, GraceExpires, ReadEvent,
         ReadEnd, StopReading, tab
  <2> QED
    BY <1>1, <1>2, <2>1, <2>2
    DEF Next, Server, Answers, AttachAnswered, Faults, Person, Browser, Shows, OnEvent, Due
<1>3. ASSUME NEW i \in DOMAIN wire, wire[i].type \in {"thread_changed", "resync"}
      PROVE  Due'
  <2>1. CASE \E j \in DOMAIN wire' : wire'[j] = wire[i]
    BY <1>3, <2>1 DEF Due
  <2>2. CASE wire[i] = Ev /\ (OnMessage \/ OnTurnStarted \/ OnReload)
    <3>1. OnReload
      BY <1>3, <2>2 DEF OnMessage, OnTurnStarted, Receive
    <3>2. asked' > 0
      BY <1>0, <3>1 DEF OnReload, TabShape
    <3> QED BY <3>2 DEF Due
  <2> QED BY <1>0, <2>1, <2>2, WireKept
<1>4. ASSUME NEW t \in Turns \ mine, phase[t] = "starting", target[t] /= 0
      PROVE  Due'
  <2>1. CASE Register(t)
    BY <1>0, <1>1, <1>4, <2>1, RegisterTold DEF Due
  <2>2. CASE ~Register(t)
    <3>1. phase'[t] = "starting" /\ target'[t] = target[t] /\ t \notin mine'
      BY <1>0, <1>1, <1>4, <2>2, TurnWaits
    <3> QED BY <1>4, <3>1 DEF Due
  <2> QED BY <2>1, <2>2
<1> QED BY <1>2, <1>3, <1>4 DEF Due

\* A row that comes to a screen nothing will pass by goes on coming until it is
\* there.
LEMMA RowComesStep ==
  ASSUME TabInv, BasisInv, ArriveInv, Next, Watching', ~LoadPage, ~TakeThread,
         ~Doomed', ~Due', NEW r \in ToSet(rows'), RowComes(r),
         r \in ShownIn(Base) => r \in ShownIn(Base)'
  PROVE  RowComes(r)'
<1> USE TurnsAndKeys
<1>0. /\ Shape /\ ServerShape /\ TabShape /\ FeedShape /\ FeedOpen /\ stale' \in BOOLEAN
  BY FlagStep DEF TabInv, BasisInv, Shape, FlagShape
<1>1. /\ Watching /\ ~behind' /\ page # "closed" /\ ~Restart
      /\ ~(Taken' /\ stale')
  BY <1>0, Watched DEF ArriveInv, Watching, Doomed
<1>2. ASSUME NEW t \in Turns, r = Row("user", t), t \notin mine, phase[t] = "starting"
      PROVE  RowComes(r)'
  <2>1. CASE Register(t)
    BY <1>0, <1>1, <1>2, <2>1, RegisterTold DEF RowComes, OnWire, Due
  <2>2. CASE ~Register(t)
    BY <1>0, <1>1, <1>2, <2>2, TurnWaits DEF RowComes
  <2> QED BY <2>1, <2>2
<1>3. ASSUME NEW t \in Turns, r = Row("user", t), OnWire("message", t)
      PROVE  RowComes(r)'
  <2>1. PICK i \in DOMAIN wire : wire[i].type = "message" /\ wire[i].turn = t
    BY <1>3 DEF OnWire
  <2>2. CASE \E j \in DOMAIN wire' : wire'[j] = wire[i]
    BY <1>3, <2>1, <2>2 DEF RowComes, OnWire
  <2>3. CASE wire[i] = Ev /\ (OnMessage \/ OnTurnStarted \/ OnReload)
    <3>1. OnMessage /\ Ev.turn = t
      BY <2>1, <2>3 DEF OnTurnStarted, OnReload, Receive
    <3>2. /\ shown' = WithBubble(t) /\ reload' = reload
          /\ stale' = (stale \/ Taken)
      BY <3>1 DEF OnMessage, Taken
    <3>3. ~Taken'
      BY <1>1, <3>2 DEF Taken
    <3>4. Row("user", t) \in OnScreen'
      <4> DEFINE b == Bubble("user", t, 0, TRUE, 0)
      <4>1. b \in LooseBubbles /\ b.who = "user" /\ b.turn = t
        BY DEF Bubble, LooseBubbles
      <4>2. (HasUser(t) /\ shown' = shown) \/ shown' = Append(shown, b)
        BY <3>2 DEF WithBubble
      <4>3. HasUser(t) => Row("user", t) \in OnScreen
        BY InShown DEF HasUser, OnScreen
      <4> HIDE DEF b
      <4> QED BY <1>0, <4>1, <4>2, <4>3, ShownAdded DEF OnScreen, TabShape
    <3> QED BY <1>3, <3>3, <3>4 DEF RowComes, Base, OnScreen
  <2> QED BY <1>0, <2>2, <2>3, WireKept
<1>4. ASSUME NEW t \in Turns, r = Row("reply", t), Coming(t)
      PROVE  RowComes(r)'
  <2>1. CASE Coming(t)'
    BY <1>4, <2>1 DEF RowComes
  <2>2. CASE Arrived(t)'
    <3>1. r \in OnScreen' /\ (Taken' => r \in ShownIn(reload'.snap))
      BY <1>1, <1>4, <2>2 DEF Arrived
    <3> QED BY <3>1 DEF RowComes, Base, OnScreen
  <2> QED BY <1>4, <2>1, <2>2, ComingStep
<1>5. ASSUME r \in ShownIn(Base)
      PROVE  RowComes(r)'
  BY <1>5 DEF RowComes
<1> QED BY <1>2, <1>3, <1>4, <1>5 DEF RowComes

\* A screen that accounts for every row, or will, goes on doing so.
LEMMA FullStep ==
  ASSUME TabInv, BasisInv, ArriveInv, Next, Watching', ~LoadPage, ~TakeThread,
         Complete, Exact, ~Doomed, ~Doomed', ~Due'
  PROVE  Complete' /\ Exact'
<1> USE TurnsAndKeys
<1> DEFINE Goal == Complete' /\ Exact'
           Asked(r) == \E t \in mine' : phase'[t] = "posted" /\ r = Row("user", t)
<1>0. /\ Shape /\ ServerShape /\ TabShape /\ FeedShape /\ TextInv /\ SameTurn /\ AskedOnce
      /\ KeptInv /\ PostedHere /\ Asks /\ HoldIsBacked
      /\ stale \in BOOLEAN /\ stale' \in BOOLEAN /\ behind \in BOOLEAN
      /\ mine \subseteq mine' /\ mine \subseteq Turns
  BY FlagStep, Progress DEF TabInv, BasisInv, KeyInv, OnceInv, Shape, FlagShape, ServerShape
<1>1. /\ Watching /\ Bubbled /\ RunningComes /\ SnapFresh /\ ~behind' /\ ~lost' /\ ~lost
      /\ page # "closed"
      /\ ~Restart /\ ~RemoveMember /\ ~Detach /\ ~Ignore /\ ~OnRemoved
      /\ ~\E p \in posts : Refused(p)
      /\ ~\E s \in streams : ReadBroken(s)
  BY <1>0, Watched DEF ArriveInv, Watching
<1>2. ~(Taken' /\ stale') /\ ~(Taken /\ stale)
  BY DEF Doomed
<1>3. ASSUME NEW t \in Turns, Start(t)
      PROVE  /\ ToSet(rows') = ToSet(rows) \cup {Row("user", t)}
             /\ Row("user", t) \in OnScreen /\ ~Taken
  <2>1. phase[t] = "posted" /\ t \in mine /\ UNCHANGED <<posts, reload, shown>>
    BY <1>0, <1>3 DEF Start, PostedHere, tab
  <2>2. PICK p \in posts : p.turn = t
    BY <1>0, <1>1, <2>1 DEF Asks
  <2>3. target[t] = 0
    BY <2>1 DEF OwnEdit, Doomed
  <2>4. phase'[t] # "refused"
    BY <2>1, <2>2 DEF Doomed
  <2>5. rows' = WithMessage(t, 0)
    <3>1. phase' # [phase EXCEPT ![t] = "refused"]
      BY <1>0, <2>4 DEF ServerShape
    <3> QED BY <1>3, <2>3, <3>1 DEF Start
  <2>6. ToSet(rows') = ToSet(rows) \cup {Row("user", t)}
    BY <1>0, <2>5, AdmittedRows
  <2>7. Row("user", t) \in OnScreen
    BY <1>1, <2>2 DEF Bubbled
  <2>8. ~Taken
    BY <1>1, <1>2, <2>2 DEF SnapFresh
  <2> QED BY <2>6, <2>7, <2>8
<1>4. ASSUME ToSet(rows) \subseteq ToSet(rows'),
             \A r \in ToSet(rows') : r \in ToSet(rows) \/ RowComes(r)',
             ShownIn(Base) \subseteq ShownIn(Base)',
             \A r \in ShownIn(Base)' : r \in ShownIn(Base) \/ r \in ToSet(rows') \/ Asked(r)
      PROVE  Goal
  <2>1. ASSUME NEW r \in ToSet(rows')
        PROVE  RowComes(r)'
    <3>1. CASE RowComes(r)'
      BY <3>1
    <3>2. CASE r \in ToSet(rows)
      <4>1. RowComes(r)
        BY <3>2 DEF Complete
      <4> QED BY <1>4, <4>1, RowComesStep
    <3> QED BY <1>4, <3>1, <3>2
  <2>2. ASSUME NEW r \in ShownIn(Base)
        PROVE  r \in ToSet(rows') \/ Asked(r)
    <3>1. CASE r \in ToSet(rows)
      BY <1>4, <3>1
    <3>2. ASSUME NEW t \in mine, phase[t] = "posted", r = Row("user", t)
          PROVE  r \in ToSet(rows') \/ Asked(r)
      <4>1. phase'[t] = "posted" \/ Start(t)
        BY <1>0, <1>1, <3>2, TurnWaits
      <4>2. Start(t) => r \in ToSet(rows')
        BY <1>0, <1>3, <3>2
      <4> QED BY <1>0, <3>2, <4>1, <4>2
    <3> QED BY <3>1, <3>2 DEF Exact
  <2> HIDE DEF Asked
  <2>3. \A r \in ShownIn(Base)' : r \in ToSet(rows') \/ Asked(r)
    BY <1>4, <2>2
  <2>4. Exact'
    BY <2>3 DEF Exact, Asked
  <2> QED BY <2>1, <2>4 DEF Complete
<1>5. ASSUME UNCHANGED <<rows, reload>>, OnScreen \subseteq OnScreen',
             \A r \in OnScreen' : r \in OnScreen \/ r \in ToSet(rows) \/ Asked(r)
      PROVE  Goal
  <2>1. \/ ShownIn(Base) = OnScreen /\ ShownIn(Base)' = OnScreen'
        \/ ShownIn(Base)' = ShownIn(Base)
    BY <1>5 DEF Base, Taken, OnScreen
  <2> HIDE DEF Goal, Asked
  <2> QED BY <1>4, <1>5, <2>1
<1>6. ASSUME UNCHANGED <<rows, reload, shown>>
      PROVE  Goal
  <2> HIDE DEF Goal, Asked
  <2> QED BY <1>5, <1>6 DEF OnScreen
<1> HIDE DEF Goal
<1>7. ASSUME NEW r, ToSet(rows') = ToSet(rows) \cup {r}, RowComes(r)', UNCHANGED <<shown, reload>>
      PROVE  Goal
  <2>1. ShownIn(Base)' = ShownIn(Base)
    BY <1>7 DEF Base, Taken
  <2> HIDE DEF Asked
  <2> QED BY <1>4, <1>7, <2>1
<1>8. ASSUME NEW t \in Turns, Start(t)
      PROVE  Goal
  <2>1. UNCHANGED <<shown, reload>>
    BY <1>8 DEF Start, tab
  <2>2. Row("user", t) \in ShownIn(Base)'
    BY <1>3, <1>8, <2>1 DEF Base, Taken, OnScreen
  <2>3. RowComes(Row("user", t))'
    BY <2>2 DEF RowComes
  <2> QED BY <1>3, <1>7, <1>8, <2>1, <2>3
<1>9. ASSUME StartElsewhere
      PROVE  Goal
  <2>1. PICK t \in Turns, k \in {0} \cup {j \in Turns \ mine : Editable(j)} :
           /\ NextTurn(t) /\ rows' = WithMessage(t, k)
           /\ phase' = [phase EXCEPT ![t] = "starting"]
           /\ target' = [target EXCEPT ![t] = k]
    BY <1>9 DEF StartElsewhere
  <2>2. UNCHANGED <<mine, shown, reload>>
    BY <1>9 DEF StartElsewhere, tab
  <2>3. t \notin mine' /\ phase'[t] = "starting" /\ target'[t] = k
    BY <1>0, <2>1, <2>2 DEF NextTurn, Unused, AskedOnce, ServerShape
  <2>4. k = 0
    BY <2>3 DEF Due
  <2>5. ToSet(rows') = ToSet(rows) \cup {Row("user", t)}
    BY <1>0, <2>1, <2>4, AdmittedRows
  <2>6. RowComes(Row("user", t))'
    BY <2>3 DEF RowComes
  <2> QED BY <1>7, <2>2, <2>5, <2>6
<1>10. ASSUME NEW t \in Turns, SaveReply(t)
       PROVE  Goal
  <2>1. UNCHANGED <<shown, reload, streams, attach, page, resume, reg, wire>> /\ phase[t] = "running"
    BY <1>10 DEF SaveReply, tab, feed
  <2>2. Coming(t)'
    BY <1>1, <2>1 DEF RunningComes, Coming, OnWire
  <2>3. RowComes(Row("reply", t))'
    BY <2>2 DEF RowComes
  <2>4. rows' = rows \/ rows' = Append(rows, Row("reply", t))
    BY <1>10 DEF SaveReply
  <2>5. Row("reply", t) \in Rows
    BY DEF Row, Rows
  <2>6. rows' = rows \/ ToSet(rows') = ToSet(rows) \cup {Row("reply", t)}
    BY <1>0, <2>4, <2>5, SavedRows
  <2> QED BY <1>6, <1>7, <2>1, <2>3, <2>6
<1>11. ASSUME Shows
       PROVE  Goal
  <2>1. Taken /\ (UNCHANGED reload \/ (reload' = NoReload /\ shown' = reload.snap))
    BY <1>0, <1>1, <1>11, ReloadShown
  <2>2. ShownIn(Base)' = ShownIn(Base)
    BY <2>1 DEF Base, Taken, NoReload
  <2>3. rows' = rows
    BY <1>11 DEF Shows, ShowThread, ShowEarlier, Show, server
  <2> HIDE DEF Asked
  <2> QED BY <1>4, <2>2, <2>3
<1>12. ASSUME Send
       PROVE  Goal
  <2>1. PICK t \in Turns :
           /\ shown' = shown \o <<Bubble("user", t, 0, FALSE, 0), Bubble("reply", t, t, FALSE, 0)>>
           /\ phase' = [phase EXCEPT ![t] = "posted"] /\ mine' = mine \cup {t}
    BY <1>12 DEF Send, AskFor
  <2>2. UNCHANGED <<rows, reload>>
    BY <1>12 DEF Send
  <2>3. OnScreen' = OnScreen \cup {Row("user", t)}
    BY <1>0, <2>1, AskedShown DEF OnScreen, TabShape
  <2>4. Asked(Row("user", t))
    BY <1>0, <2>1 DEF ServerShape
  <2> HIDE DEF Asked
  <2> QED BY <1>5, <2>2, <2>3, <2>4
<1>13. ASSUME EditMessage
       PROVE  FALSE
  <2>1. PICK t \in Turns, k \in Turns :
           /\ phase' = [phase EXCEPT ![t] = "posted"] /\ mine' = mine \cup {t}
           /\ target' = [target EXCEPT ![t] = k]
    BY <1>0, <1>1, <1>13, EditShown
  <2>2. OwnEdit(t)'
    BY <1>0, <2>1 DEF OwnEdit, ServerShape
  <2> QED BY <2>2 DEF Doomed
<1>14. ASSUME AnswerResume \/ AttachAnswered
       PROVE  Goal
  <2>1. UNCHANGED <<rows, reload>>
    BY <1>14 DEF AnswerResume, AttachAnswered, AnswerAttach, server
  <2>2. CASE UNCHANGED shown
    BY <1>6, <2>1, <2>2
  <2>3. CASE ~UNCHANGED shown
    <3>1. PICK k \in Keys : Resumable # 0 /\ Follow(Resumable, k)
      BY <1>14, <2>3 DEF AnswerResume, AttachAnswered, AnswerAttach
    <3>2. Resumable \in Turns
      BY <1>0, <3>1 DEF Resumable, ServerShape, Turns
    <3>3. OnScreen' = OnScreen
      BY <1>0, <3>1, <3>2, PlaceholderShown DEF Follow
    <3> QED BY <1>5, <2>1, <3>3
  <2> QED BY <2>2, <2>3
<1>15. ASSUME OnMessage
       PROVE  Goal
  <2>1. UNCHANGED <<rows, reload>> /\ shown' = WithBubble(Ev.turn)
    BY <1>15 DEF OnMessage, server
  <2>2. Ev \in Told /\ Ev.type = "message"
    BY <1>0, <1>15 DEF OnMessage, Receive, Ev, FeedShape
  <2>3. Row("user", Ev.turn) \in ToSet(rows)
    BY <1>1, <1>15 DEF OnMessage
  <2> DEFINE b == Bubble("user", Ev.turn, 0, TRUE, 0)
  <2>4. b \in LooseBubbles /\ b.who = "user" /\ b.turn = Ev.turn
    BY <2>2 DEF Told, Bubble, LooseBubbles
  <2>5. shown' = shown \/ shown' = Append(shown, b)
    BY <2>1 DEF WithBubble
  <2> HIDE DEF b
  <2>6. OnScreen' = OnScreen \/ OnScreen' = OnScreen \cup {Row("user", Ev.turn)}
    BY <1>0, <2>4, <2>5, ShownAdded DEF OnScreen, TabShape
  <2> HIDE DEF Asked
  <2> QED BY <1>5, <2>1, <2>3, <2>6
<1>16. ASSUME NEW s \in streams, ReadEvent(s)
       PROVE  Goal
  <2>1. /\ shown' = AfterEvent(s) /\ s.pos < Published(s.turn) /\ UNCHANGED <<rows, reload>>
        /\ s.pos > Deltas => ~DeletedReply(s.turn)
    BY <1>0, <1>1, <1>16 DEF ReadEvent, server
  <2>2. s \in Stream /\ s.pos \in Nat /\ s.pos <= Deltas + 1
    BY <1>0, <2>1 DEF TabShape, Stream, Published
  <2>3. /\ OnScreen \subseteq OnScreen'
        /\ OnScreen' \subseteq OnScreen \cup {Row("reply", s.turn)}
        /\ s.pos <= Deltas \/ s.turn \notin kept => OnScreen' \subseteq OnScreen
    BY <1>0, <2>1, <2>2, ShownRead
  <2>4. OnScreen' \subseteq OnScreen \/ Row("reply", s.turn) \in ToSet(rows)
    BY <2>1, <2>2, <2>3 DEF DeletedReply
  <2> HIDE DEF Asked
  <2> QED BY <1>5, <2>1, <2>3, <2>4
<1>17. ASSUME NEW s \in streams, ReadEnd(s)
       PROVE  Goal
  <2>1. /\ shown' = [i \in DOMAIN shown |->
                       IF shown[i].key = s.key THEN [shown[i] EXCEPT !.key = 0] ELSE shown[i]]
        /\ UNCHANGED <<rows, reload>>
    BY <1>17 DEF ReadEnd, StopReading, server
  <2>2. OnScreen' = OnScreen
    BY <1>0, <2>1, ShownReleased DEF OnScreen
  <2> QED BY <1>5, <2>1, <2>2
<1>18. ASSUME OnReload
       PROVE  FALSE
  <2>1. asked' > 0
    BY <1>0, <1>18 DEF OnReload, TabShape
  <2> QED BY <2>1 DEF Due
<1>19. ASSUME \/ CheckAccess \/ Subscribe \/ CutFeed \/ Mount \/ Reconnect \/ OnTurnStarted
              \/ \E t \in Turns : Register(t) \/ EndTurn(t) \/ GraceExpires(t)
       PROVE  UNCHANGED <<shown, reload, rows>>
  BY <1>19 DEF CheckAccess, Subscribe, CutFeed, Mount, Reconnect, OnTurnStarted, Register, EndTurn,
     GraceExpires, tab, server
<1>20. Goal
  BY <1>1, <1>6, <1>8, <1>9, <1>10, <1>11, <1>12, <1>13, <1>14, <1>15, <1>16, <1>17, <1>18, <1>19
  DEF Next, Server, Answers, AttachAnswered, Faults, Person, Browser, Shows, OnEvent
<1> QED BY <1>20 DEF Goal

\* A page that is opened accounts for every row at once.
LEMMA LoadedStep ==
  ASSUME TabInv, BasisInv, LoadPage
  PROVE  ArriveInv'
<1>0. /\ Shape /\ ServerShape /\ RunningIsRegistered /\ FeedOpen /\ Unmounted
  BY DEF TabInv, BasisInv, Shape
<1>1. /\ page = "closed" /\ page' = "loaded" /\ shown' = Loaded(rows)
      /\ UNCHANGED <<rows, phase, mine, target, kept, reg, streams, posts, resume, attach, reload,
                  wire>>
  BY DEF LoadPage, server, feed
<1>2. /\ mine = {} /\ posts = {} /\ streams = {} /\ reload = NoReload /\ wire = <<>>
  BY <1>0, <1>1 DEF Unmounted, NoneAsked, FeedOpen
<1>3. Bubbled' /\ EditAlone' /\ SnapFresh'
  BY <1>1, <1>2 DEF Bubbled, EditAlone, OwnEdit, SnapFresh, Taken, NoReload
<1>4. RunningComes'
  BY <1>0, <1>1 DEF RunningComes, RunningIsRegistered, Coming
<1>5. ShownIn(Base)' = ToSet(rows)'
  BY <1>0, <1>1, <1>2, ShownLoaded DEF Base, Taken, NoReload
<1>6. Complete' /\ Exact'
  BY <1>5 DEF Complete, Exact, RowComes
<1> QED BY <1>3, <1>4, <1>6 DEF ArriveInv, Accounted

\* So does a thread that is taken when the tab is at rest; taken at another time it
\* is one that passes the screen by.
LEMMA TakenStep ==
  ASSUME TabInv, BasisInv, ArriveInv, TakeThread
  PROVE  ArriveInv'
<1>0. /\ Shape /\ ServerShape /\ FlagShape /\ Asks /\ KeptInv /\ Unmounted
  BY DEF TabInv, BasisInv, Shape
<1>1. SUFFICES ASSUME Watching'
               PROVE  Bubbled' /\ RunningComes' /\ EditAlone' /\ SnapFresh' /\ Accounted'
  BY DEF ArriveInv
<1>2. UNCHANGED <<page, member, lost, rows, phase, mine, target, kept, reg, streams, posts, resume,
                  attach, wire, shown, held, streaming>>
  BY DEF TakeThread, server, access, feed
<1>3. /\ page # "closed" /\ member /\ ~lost /\ ~behind' /\ stale' = ~Idle
      /\ reload' = [stage |-> "taken", snap |-> Loaded(rows)]
      /\ ~behind \/ (Idle /\ sub = "viewing" /\ \A t \in Turns : ~Unheard(t))
  <2>1. page # "closed" /\ member /\ ~lost /\ ~behind'
    BY <1>1, <1>2 DEF Watching
  <2> QED BY <1>0, <2>1 DEF TakeThread, FlagShape
<1>4. ShownIn(reload'.snap) = ToSet(rows') /\ Taken'
  BY <1>0, <1>2, <1>3, ShownLoaded DEF Taken
<1>5. SnapFresh'
  BY <1>2, <1>3, <1>4 DEF SnapFresh, Idle
<1>6. Accounted'
  <2>1. CASE Idle
    <3>1. ShownIn(Base)' = ToSet(rows)'
      BY <1>4 DEF Base
    <3> QED BY <3>1 DEF Accounted, Complete, Exact, RowComes
  <2>2. CASE ~Idle
    BY <1>3, <1>4, <2>2 DEF Accounted, Doomed
  <2> QED BY <2>1, <2>2
<1>7. CASE ~behind
  <2>1. Bubbled /\ RunningComes /\ EditAlone
    BY <1>3, <1>7 DEF ArriveInv, Watching
  <2>2. Bubbled'
    BY <1>2, <2>1, BubbledCarries
  <2>3. RunningComes'
    BY <1>2, <2>1 DEF RunningComes, Coming, OnWire
  <2>4. EditAlone'
    BY <1>2, <2>1 DEF EditAlone, OwnEdit, Editable, CutAt, OnScreen
  <2> QED BY <1>5, <1>6, <2>2, <2>3, <2>4
<1>8. CASE Idle /\ sub = "viewing" /\ \A t \in Turns : ~Unheard(t)
  <2>1. streams = {} /\ posts = {}
    BY <1>8 DEF Idle
  <2>2. Bubbled'
    BY <1>2, <2>1 DEF Bubbled
  <2>3. EditAlone'
    BY <1>0, <1>2, <1>3, <2>1 DEF EditAlone, OwnEdit, Asks
  <2>4. ASSUME NEW t \in Turns, phase[t] = "running"
        PROVE  Coming(t)
    <3>1. ~Following(t)
      <4>1. Row("reply", t) \notin OnScreen
        BY <1>0, <2>4 DEF KeptInv
      <4> QED BY <2>1, <4>1, InShown DEF Following, OnScreen
    <3>2. PICK i \in DOMAIN wire : wire[i] = Event("turn_started", t)
      BY <1>8, <2>4, <3>1 DEF Unheard
    <3> QED BY <3>2 DEF Event, Coming, OnWire
  <2>5. RunningComes'
    BY <1>2, <2>4 DEF RunningComes, Coming, OnWire
  <2> QED BY <1>5, <1>6, <2>2, <2>3, <2>5
<1> QED BY <1>3, <1>7, <1>8

\* Nothing is watched before the page is opened ...
LEMMA ArriveStart == Init => ArriveInv
BY DEF Init, ArriveInv, Watching

\* ... and what is accounted for stays so after every step.
LEMMA ArriveNext == TabInv /\ BasisInv /\ ArriveInv /\ [Next]_vars => BasisInv' /\ ArriveInv'
<1> SUFFICES ASSUME TabInv, BasisInv, ArriveInv, [Next]_vars
             PROVE  BasisInv' /\ ArriveInv'
  OBVIOUS
<1>1. CASE Next
  <2>1. BasisInv'
    BY <1>1, BasisStep
  <2>2. CASE LoadPage
    BY <2>1, <2>2, LoadedStep
  <2>3. CASE TakeThread
    BY <2>1, <2>3, TakenStep
  <2>4. ASSUME ~LoadPage, ~TakeThread, Watching'
        PROVE  Bubbled' /\ RunningComes' /\ EditAlone' /\ SnapFresh' /\ Accounted'
    <3>1. Bubbled' /\ RunningComes' /\ EditAlone' /\ SnapFresh'
      BY <1>1, <2>4, BubbledStep, RunningStep, EditAloneStep, SnapFreshStep
    <3>2. Accounted
      <4>1. Watching
        BY <1>1, <2>4, Watched DEF TabInv
      <4> QED BY <4>1 DEF ArriveInv
    <3>3. CASE Doomed
      BY <1>1, <2>4, <3>1, <3>3, DoomedStep DEF Accounted
    <3>4. CASE Due
      BY <1>1, <2>4, <3>1, <3>4, DueStep DEF Accounted
    <3>5. CASE ~Doomed /\ ~Due
      <4>1. Complete /\ Exact
        BY <3>2, <3>5 DEF Accounted
      <4>2. CASE Doomed' \/ Due'
        BY <3>1, <4>2 DEF Accounted
      <4>3. CASE ~Doomed' /\ ~Due'
        BY <1>1, <2>4, <3>1, <3>5, <4>1, <4>3, FullStep DEF Accounted
      <4> QED BY <4>2, <4>3
    <3> QED BY <3>3, <3>4, <3>5
  <2> QED BY <2>1, <2>2, <2>3, <2>4 DEF ArriveInv
<1>2. CASE UNCHANGED vars
  <2> USE <1>2 DEF vars, server, access, feed, tab, history
  <2>1. BasisInv'
    BY DEF BasisInv, PostedHere, Asks, OwnTargets, FeedOpen, Messages, Registered, KeptInv,
       OnScreen, SnapRows, Answered, Unmounted, NoneAsked
  <2>2. Watching' => Bubbled' /\ RunningComes'
    BY DEF ArriveInv, Watching, Bubbled, Written, OnScreen, RunningComes, Coming, OnWire
  <2>3. Watching' => EditAlone' /\ SnapFresh'
    BY DEF ArriveInv, Watching, EditAlone, OwnEdit, Editable, CutAt, OnScreen, SnapFresh,
       SnapRows, Answered, Taken
  <2>4. (Doomed' <=> Doomed) /\ (Due' <=> Due)
    BY DEF Doomed, Taken, OwnEdit, Due
  <2>5. (Complete' <=> Complete) /\ (Exact' <=> Exact)
    BY DEF Complete, Exact, RowComes, Base, Taken, Coming, OnWire
  <2>6. Watching' => Accounted'
    BY <2>4, <2>5 DEF ArriveInv, Watching, Accounted
  <2> QED BY <2>1, <2>2, <2>3, <2>6 DEF ArriveInv
<1> QED BY <1>1, <1>2

\* When everything has settled, a screen that nothing is known to have passed by
\* shows the rows of the thread and no others, whatever the order its connections
\* delivered things in and however many reloads overlapped, answered in any order;
\* an older one that is shown after the last one counts as passed by
\* (chat-window.tsx:1376-1454, turn-stream.ts:44-48 and 132-145).
THEOREM CaughtUpHolds == Spec => []CaughtUp
<1> DEFINE IInv == TabInv /\ BasisInv /\ ArriveInv
<1>1. Init => IInv
  BY TabStart, BasisStart, ArriveStart
<1>2. IInv /\ [Next]_vars => IInv'
  BY TabNext, ArriveNext
<1>3. IInv => CaughtUp
  <2> SUFFICES ASSUME TabInv, ArriveInv, Quiet, ~behind
               PROVE  OnScreen = ToSet(rows)
    BY DEF CaughtUp
  <2>1. /\ Watching /\ page = "mounted" /\ wire = <<>> /\ asked = 0 /\ reload = NoReload
        /\ posts = {}
        /\ streams = {} /\ attach = {} /\ resume = "none"
        /\ \A t \in Turns : phase[t] \in {"none", "ended", "refused", "lost"}
    BY DEF Quiet, InChat, Idle, NoneAsked, Watching
  <2>2. ~Taken /\ ~Doomed /\ ~Due
    BY <2>1 DEF NoReload, Taken, Doomed, OwnEdit, Due
  <2>3. Complete /\ Exact /\ EditAlone /\ Base = shown
    BY <2>1, <2>2 DEF ArriveInv, Accounted, Base
  <2>4. \A t \in Turns : ~Coming(t) /\ ~OnWire("message", t)
    BY <2>1 DEF Coming, OnWire
  <2>5. ASSUME NEW r \in ToSet(rows)
        PROVE  r \in OnScreen
    BY <2>1, <2>3, <2>4 DEF Complete, RowComes, OnScreen
  <2>6. ASSUME NEW r \in OnScreen
        PROVE  r \in ToSet(rows)
    <3>1. \A t \in mine : phase[t] # "posted"
      BY <2>1 DEF TabInv, Shape, ServerShape
    <3> QED BY <2>1, <2>3, <3>1 DEF Exact, OnScreen
  <2> QED BY <2>5, <2>6
<1> QED BY <1>1, <1>2, <1>3, PTL DEF Spec

===============================================================================
