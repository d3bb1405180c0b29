--------------------------- MODULE ContainersProofs ---------------------------
(***************************************************************************)
(* The sandbox broker, for any number of chats, attaches, faults and       *)
(* refreshes.  ContainersInv adds to the runs' invariants how many attaches*)
(* of a chat are yet to be counted (what bounds the count), and where the  *)
(* pair the provider accepts is (what makes it outlast a failed write).    *)
(***************************************************************************)
EXTENDS Containers, FiniteSetTheorems, WellFoundedInduction, TLAPS

-----------------------------------------------------------------------------
(* Ids *)

\* A set of naturals that is not empty has a smallest element.
LEMMA SmallestOf ==
  ASSUME NEW S \in SUBSET Nat, S # {}
  PROVE  \E n \in S : \A m \in S : n <= m
<1> DEFINE R == OpToRel(<, Nat)
<1>1. IsWellFoundedOn(R, Nat)
  BY NatLessThanWellFounded
<1>2. \A m, n \in Nat : <<m, n>> \in R <=> m < n
  BY DEF OpToRel
<1> HIDE DEF R
<1>3. PICK n \in S : \A m \in S : ~(<<m, n>> \in R)
  BY <1>1, WFMin
<1>4. ASSUME NEW m \in S PROVE n <= m
  <2>1. m \in Nat /\ n \in Nat
    OBVIOUS
  <2>2. ~(m < n)
    BY <1>2, <1>3, <2>1
  <2> QED BY <2>1, <2>2
<1> QED BY <1>4

\* What a function takes a finite set to is no larger than that set.
LEMMA ImageBound ==
  ASSUME NEW S, IsFiniteSet(S), NEW f, f = [x \in S |-> f[x]]
  PROVE  LET T == {f[x] : x \in S}
         IN  IsFiniteSet(T) /\ Cardinality(T) <= Cardinality(S)
<1> DEFINE T == {f[x] : x \in S}
<1>1. f \in Surjection(S, T)
  BY DEF Surjection
<1> HIDE DEF T
<1>2. IsFiniteSet(T) /\ Cardinality(T) <= Cardinality(S)
  BY <1>1, FS_Surjection
<1> QED BY <1>2 DEF T

\* A new container gets an id that nothing names: there are more ids than an
\* attach can name two of, and a list one.
LEMMA NewIdIsNew ==
  ASSUME TypeOK, NEW c \in Chats
  PROVE  NewId(c) \in Ids \ Named(c)
<1> DEFINE A == Attaches
           on == [a \in A |-> run[a].on]
           cli == [a \in A |-> run[a].cli]
           S == {on[a] : a \in A}
           T == {cli[a] : a \in A}
           L == {listed[c]}
           n == Cardinality(A)
<1>1. IsFiniteSet(A) /\ n \in Nat
  BY ContainersAssumption, FS_CardinalityType
<1>2. IsFiniteSet(S) /\ Cardinality(S) <= n
  <2> HIDE DEF on
  <2>1. on = [a \in A |-> on[a]]
    BY DEF on
  <2> QED BY <1>1, <2>1, ImageBound
<1>3. IsFiniteSet(T) /\ Cardinality(T) <= n
  <2> HIDE DEF cli
  <2>1. cli = [a \in A |-> cli[a]]
    BY DEF cli
  <2> QED BY <1>1, <2>1, ImageBound
<1>4. IsFiniteSet(L) /\ Cardinality(L) = 1
  BY FS_Singleton
<1>5. Named(c) \subseteq (S \cup T) \cup L
  BY DEF Named, Busy
<1> HIDE DEF A, S, T, L
<1>6. IsFiniteSet((S \cup T) \cup L) /\ Cardinality((S \cup T) \cup L) <= 2 * n + 1
  <2>1. /\ IsFiniteSet(S \cup T)
        /\ Cardinality(S \cup T) = Cardinality(S) + Cardinality(T) - Cardinality(S \cap T)
    BY <1>2, <1>3, FS_Union
  <2>2. /\ IsFiniteSet((S \cup T) \cup L)
        /\ Cardinality((S \cup T) \cup L)
             = Cardinality(S \cup T) + Cardinality(L) - Cardinality((S \cup T) \cap L)
    BY <1>4, <2>1, FS_Union
  <2>3. /\ Cardinality(S \cap T) \in Nat /\ Cardinality((S \cup T) \cap L) \in Nat
        /\ Cardinality(S) \in Nat /\ Cardinality(T) \in Nat
    <3>1. IsFiniteSet(S \cap T)
      BY <1>2, FS_Subset, S \cap T \subseteq S
    <3>2. IsFiniteSet((S \cup T) \cap L)
      BY <1>4, FS_Subset, (S \cup T) \cap L \subseteq L
    <3> QED BY <1>2, <1>3, <3>1, <3>2, FS_CardinalityType
  <2> QED BY <1>1, <1>2, <1>3, <1>4, <2>1, <2>2, <2>3
<1>7. IsFiniteSet(Ids) /\ Cardinality(Ids) = 2 * n + 2
  <2>1. 1 \in Int /\ 2 * n + 2 \in Int
    BY <1>1
  <2>2. IsFiniteSet(1 .. (2 * n + 2))
    BY <2>1, FS_Interval
  <2>3. Cardinality(1 .. (2 * n + 2)) = IF 1 > 2 * n + 2 THEN 0 ELSE (2 * n + 2) - 1 + 1
    BY <2>1, FS_Interval
  <2> QED BY <1>1, <2>2, <2>3 DEF Ids, A
<1>8. Ids \ Named(c) # {}
  <2>1. SUFFICES ASSUME Ids \subseteq Named(c) PROVE FALSE
    OBVIOUS
  <2>2. Ids \subseteq (S \cup T) \cup L
    BY <1>5, <2>1
  <2>3. Cardinality(Ids) <= Cardinality((S \cup T) \cup L)
    BY <1>6, <2>2, FS_Subset
  <2>4. Cardinality((S \cup T) \cup L) \in Nat
    BY <1>6, FS_CardinalityType
  <2> HIDE DEF n
  <2> QED BY <1>1, <1>6, <1>7, <2>3, <2>4
<1>9. Ids \subseteq Nat
  BY DEF Ids
<1>10. PICK m \in Ids \ Named(c) : \A x \in Ids \ Named(c) : m <= x
  BY <1>8, <1>9, SmallestOf
<1>11. 1 .. (m - 1) \subseteq Named(c)
  BY <1>1, <1>9, <1>10 DEF Ids, A
<1> QED BY <1>10, <1>11 DEF NewId

-----------------------------------------------------------------------------
(* The invariant *)

\* An attach of chat c that is counted, and one that is yet to be.
CountedIn(k, c) ==
  k.chat = c /\ (k.at \in {"exec", "open", "uncount"} \/ (k.at \in {"read", "write", "link"} /\ k.last))
ComingTo(k, c) ==
  k.chat = c /\ (k.at \in {"restart", "discard", "create", "boot", "found"}
                   \/ (k.at \in {"read", "write", "link"} /\ ~k.last))
Coming(c) == {a \in Attaches : ComingTo(run[a], c)}

\* The count has room for the attaches that will be counted.
RoomToCount == \A c \in Chats : attached[c] + Cardinality(Coming(c)) <= used.runs

\* While no pair was unlinked uncarried or renewed beside a copy, what is in a
\* chat's own file or on its way is the newest pair, and the newest is in the
\* shared volume or in a file.
NewestIsStored ==
  ~loose => /\ newest = shared \/ \E c \in Chats : file[c] = newest
            /\ \A a \in Attaches : run[a].hand \in {newest, NoPair}
            /\ \A c \in Chats : Usable(file[c]) => file[c] = newest

\* A pair about to be written was read.
HandIsFull == \A a \in Attaches : run[a].at = "write" => run[a].hand # NoPair

ContainersInv ==
  /\ TypeOK /\ CountIsRuns /\ CreatedIsBooting
  /\ RoomToCount /\ NewestIsStored /\ HandIsFull

-----------------------------------------------------------------------------
(* Types *)

\* What the steps write into an attach leaves it a record of an attach.
LEMMA Writes ==
  ASSUME NEW k \in RunRec, NEW at \in Steps, NEW l \in BOOLEAN
  PROVE  /\ [k EXCEPT !.at = at] \in RunRec
         /\ [k EXCEPT !.held = l] \in RunRec
         /\ [k EXCEPT !.at = at, !.last = l] \in RunRec
         /\ \A e \in BOOLEAN : [k EXCEPT !.held = l, !.erred = e] \in RunRec
<1>1. [k EXCEPT !.at = at] \in RunRec
  BY DEF RunRec
<1>2. [k EXCEPT !.held = l] \in RunRec
  BY DEF RunRec
<1>3. [k EXCEPT !.at = at, !.last = l] \in RunRec
  BY DEF RunRec
<1>4. ASSUME NEW e \in BOOLEAN PROVE [k EXCEPT !.held = l, !.erred = e] \in RunRec
  BY DEF RunRec
<1> QED BY <1>1, <1>2, <1>3, <1>4

\* The other fields a step of an attach writes.
LEMMA WritesMore ==
  ASSUME NEW k \in RunRec, NEW at \in Steps
  PROVE  /\ \A i \in Ids \cup {0} : [k EXCEPT !.at = at, !.on = i] \in RunRec
         /\ \A i \in Ids \cup {0} : [k EXCEPT !.at = at, !.cli = i] \in RunRec
         /\ \A p \in Pairs \cup {NoPair} : [k EXCEPT !.at = at, !.hand = p] \in RunRec
         /\ \A l \in BOOLEAN, i \in Ids \cup {0} :
              [k EXCEPT !.at = at, !.last = l, !.cli = i] \in RunRec
         /\ \A c \in Chats, l \in BOOLEAN : [k EXCEPT !.chat = c, !.held = l, !.at = at] \in RunRec
<1>1. ASSUME NEW i \in Ids \cup {0} PROVE [k EXCEPT !.at = at, !.on = i] \in RunRec
  BY DEF RunRec, ByName
<1>2. ASSUME NEW i \in Ids \cup {0} PROVE [k EXCEPT !.at = at, !.cli = i] \in RunRec
  BY DEF RunRec
<1>3. ASSUME NEW p \in Pairs \cup {NoPair} PROVE [k EXCEPT !.at = at, !.hand = p] \in RunRec
  BY DEF RunRec
<1>4. ASSUME NEW l \in BOOLEAN, NEW i \in Ids \cup {0}
      PROVE  [k EXCEPT !.at = at, !.last = l, !.cli = i] \in RunRec
  BY DEF RunRec
<1>5. ASSUME NEW c \in Chats, NEW l \in BOOLEAN
      PROVE  [k EXCEPT !.chat = c, !.held = l, !.at = at] \in RunRec
  BY DEF RunRec
<1> QED BY <1>1, <1>2, <1>3, <1>4, <1>5

\* The absence of an attach, and of a container, is typed.
LEMMA NoRunTyped == NoRun \in RunRec /\ NoBox \in BoxRec
BY ContainersAssumption DEF NoRun, NoBox, RunRec, BoxRec, Steps, ByName

\* The steps of one attach.
AttachStep(a) ==
  (\E c \in Chats : Attach(a, c)) \/ Work(a) \/ LetGo(a) \/ StreamBreaks(a)

\* Such a step leaves the other attaches alone.
LEMMA AttachWrites ==
  ASSUME TypeOK, NEW a \in Attaches, AttachStep(a)
  PROVE  \E n \in RunRec : run' = [run EXCEPT ![a] = n]
<1> DEFINE k == run[a]
<1>0. k \in RunRec /\ run \in [Attaches -> RunRec]
  BY DEF TypeOK
<1> HIDE DEF k
<1>s. "found" \in Steps /\ "create" \in Steps /\ "restart" \in Steps /\ "discard" \in Steps
      /\ "boot" \in Steps /\ "read" \in Steps /\ "write" \in Steps /\ "link" \in Steps
      /\ "exec" \in Steps /\ "open" \in Steps /\ "uncount" \in Steps
  BY DEF Steps
<1>e. ASSUME NEW n \in RunRec, run' = [run EXCEPT ![a] = n]
      PROVE  \E x \in RunRec : run' = [run EXCEPT ![a] = x]
  BY <1>e
<1>g. ASSUME NEW at \in Steps, Go(a, at)
      PROVE  \E x \in RunRec : run' = [run EXCEPT ![a] = x]
  <2>1. [k EXCEPT !.at = at] \in RunRec
    BY <1>0, Writes
  <2>2. run' = [run EXCEPT ![a] = [k EXCEPT !.at = at]]
    BY <1>g DEF Go, k
  <2> QED BY <1>e, <2>1, <2>2
<1>n. ASSUME Ends(a)
      PROVE  \E x \in RunRec : run' = [run EXCEPT ![a] = x]
  BY <1>n, NoRunTyped DEF Ends
<1>1. ASSUME NEW c \in Chats, Attach(a, c)
      PROVE  \E x \in RunRec : run' = [run EXCEPT ![a] = x]
  <2>1. PICK at \in Steps :
          run' = [run EXCEPT ![a] = [NoRun EXCEPT !.chat = c, !.held = TRUE, !.at = at]]
    <3> DEFINE at == CASE box[c].st = "running" -> "found"
                       [] box[c].st = "none"    -> "create"
                       [] OTHER                 -> "restart"
    <3>1. at \in Steps
      BY <1>s
    <3>2. run' = [run EXCEPT ![a] = [NoRun EXCEPT !.chat = c, !.held = TRUE, !.at = at]]
      BY <1>1 DEF Attach
    <3> HIDE DEF at
    <3> QED BY <3>1, <3>2
  <2>2. [NoRun EXCEPT !.chat = c, !.held = TRUE, !.at = at] \in RunRec
    BY NoRunTyped, WritesMore
  <2> QED BY <1>e, <2>1, <2>2
<1>2. CASE StartStale(a) \/ Discard(a) \/ Link(a) \/ Count(a)
  BY <1>2, <1>s, <1>g DEF StartStale, Discard, Link, Count
<1>3. CASE Create(a)
  <2>1. CASE Ends(a)
    BY <2>1, <1>n
  <2>2. CASE run' = [run EXCEPT ![a].at = "boot", ![a].on = NewId(Chat(a))]
    <3>1. Chat(a) \in Chats
      BY <1>0 DEF Chat, RunRec, k
    <3>2. NewId(Chat(a)) \in Ids \cup {0}
      BY <3>1, NewIdIsNew
    <3>3. [k EXCEPT !.at = "boot", !.on = NewId(Chat(a))] \in RunRec
      BY <1>0, <1>s, <3>2, WritesMore
    <3>4. run' = [run EXCEPT ![a] = [k EXCEPT !.at = "boot", !.on = NewId(Chat(a))]]
      BY <2>2, <1>0 DEF k
    <3> QED BY <1>e, <3>3, <3>4
  <2> QED BY <1>3, <2>1, <2>2 DEF Create
<1>4. CASE Boot(a)
  <2>1. CASE Ends(a)
    BY <2>1, <1>n
  <2>2. CASE run' = [run EXCEPT ![a].at = "read", ![a].last = FALSE]
    <3>1. [k EXCEPT !.at = "read", !.last = FALSE] \in RunRec
      BY <1>0, <1>s, Writes
    <3>2. run' = [run EXCEPT ![a] = [k EXCEPT !.at = "read", !.last = FALSE]]
      BY <2>2, <1>0 DEF k
    <3> QED BY <1>e, <3>1, <3>2
  <2> QED BY <1>4, <2>1, <2>2 DEF Boot
<1>5. CASE ReadPair(a)
  <2>1. PICK at \in Steps, p \in Pairs \cup {NoPair} :
          run' = [run EXCEPT ![a].at = at, ![a].hand = p]
    <3> DEFINE q == IF Seen(a) # "none" THEN file[Chat(a)] ELSE Linked
               at == IF Usable(q) THEN "write" ELSE "link"
               p == IF Usable(q) THEN q ELSE NoPair
    <3>1. at \in Steps
      BY <1>s
    <3>2. p \in Pairs \cup {NoPair}
      BY <1>0 DEF Usable, TypeOK, Chat, RunRec, k
    <3>3. run' = [run EXCEPT ![a].at = at, ![a].hand = p]
      BY <1>5 DEF ReadPair
    <3> HIDE DEF at, p
    <3> QED BY <3>1, <3>2, <3>3
  <2>2. [k EXCEPT !.at = at, !.hand = p] \in RunRec
    BY <1>0, WritesMore
  <2>3. run' = [run EXCEPT ![a] = [k EXCEPT !.at = at, !.hand = p]]
    BY <2>1, <1>0 DEF k
  <2> QED BY <1>e, <2>2, <2>3
<1>6. CASE WritePair(a)
  <2>1. run' = [run EXCEPT ![a] = [k EXCEPT !.at = "link", !.hand = NoPair]]
    BY <1>6, <1>0 DEF WritePair, k
  <2>2. [k EXCEPT !.at = "link", !.hand = NoPair] \in RunRec
    BY <1>0, <1>s, WritesMore
  <2> QED BY <1>e, <2>1, <2>2
<1>7. CASE Exec(a)
  <2>1. CASE Ends(a)
    BY <2>1, <1>n
  <2>2. CASE run' = [run EXCEPT ![a].at = "open", ![a].cli = box[Chat(a)].id]
    <3>1. box[Chat(a)].id \in Ids \cup {0}
      BY <1>0 DEF TypeOK, Chat, RunRec, BoxRec, k
    <3>2. [k EXCEPT !.at = "open", !.cli = box[Chat(a)].id] \in RunRec
      BY <1>0, <1>s, <3>1, WritesMore
    <3>3. run' = [run EXCEPT ![a] = [k EXCEPT !.at = "open", !.cli = box[Chat(a)].id]]
      BY <2>2, <1>0 DEF k
    <3> QED BY <1>e, <3>2, <3>3
  <2> QED BY <1>7, <2>1, <2>2 DEF Exec
<1>8. CASE StreamEnds(a)
  <2>1. run' = [run EXCEPT ![a] = [k EXCEPT !.at = "read", !.last = TRUE, !.cli = 0]]
    BY <1>8, <1>0 DEF StreamEnds, k
  <2>2. [k EXCEPT !.at = "read", !.last = TRUE, !.cli = 0] \in RunRec
    <3> DEFINE zero == 0
    <3>1. zero \in Ids \cup {0}
      OBVIOUS
    <3> HIDE DEF zero
    <3>2. [k EXCEPT !.at = "read", !.last = TRUE, !.cli = zero] \in RunRec
      BY <1>0, <1>s, <3>1, WritesMore
    <3> QED BY <3>2 DEF zero
  <2> QED BY <1>e, <2>1, <2>2
<1>9. CASE Uncount(a)
  BY <1>9, <1>n DEF Uncount
<1>10. CASE LetGo(a)
  <2>1. run' = [run EXCEPT ![a] = [k EXCEPT !.held = FALSE]]
    BY <1>10 DEF LetGo, k
  <2>2. [k EXCEPT !.held = FALSE] \in RunRec
    BY <1>0, <1>s, Writes
  <2> QED BY <1>e, <2>1, <2>2
<1>11. CASE StreamBreaks(a)
  <2>1. CASE Ends(a)
    BY <2>1, <1>n
  <2>2. CASE run' = [run EXCEPT ![a].held = FALSE, ![a].erred = TRUE]
    <3>1. [k EXCEPT !.held = FALSE, !.erred = TRUE] \in RunRec
      BY <1>0, <1>s, Writes
    <3>2. run' = [run EXCEPT ![a] = [k EXCEPT !.held = FALSE, !.erred = TRUE]]
      BY <2>2, <1>0 DEF k
    <3> QED BY <1>e, <3>1, <3>2
  <2> QED BY <1>11, <2>1, <2>2 DEF StreamBreaks
<1> QED BY <1>1, <1>2, <1>3, <1>4, <1>5, <1>6, <1>7, <1>8, <1>9, <1>10, <1>11
        DEF AttachStep, Work

-----------------------------------------------------------------------------
(* The count *)

One(p) == IF p THEN 1 ELSE 0

\* Two sets that agree but for one element.
LEMMA ButOne ==
  ASSUME NEW S, IsFiniteSet(S), NEW T, NEW a, S \ {a} = T \ {a}
  PROVE  IsFiniteSet(T) /\ Cardinality(T) = Cardinality(S) - One(a \in S) + One(a \in T)
<1>1. /\ IsFiniteSet(S \ {a})
      /\ Cardinality(S \ {a}) = IF a \in S THEN Cardinality(S) - 1 ELSE Cardinality(S)
  BY FS_RemoveElement
<1>2. Cardinality(S) \in Nat
  BY FS_CardinalityType
<1>3. CASE a \in T
  <2>1. T = (S \ {a}) \cup {a} /\ a \notin S \ {a}
    BY <1>3
  <2>2. /\ IsFiniteSet((S \ {a}) \cup {a})
        /\ Cardinality((S \ {a}) \cup {a})
             = IF a \in S \ {a} THEN Cardinality(S \ {a}) ELSE Cardinality(S \ {a}) + 1
    BY <1>1, FS_AddElement
  <2>3. IsFiniteSet(T) /\ Cardinality(T) = Cardinality(S \ {a}) + 1
    BY <2>1, <2>2
  <2> QED BY <1>1, <1>2, <1>3, <2>3 DEF One
<1>4. CASE a \notin T
  <2>1. T = S \ {a}
    BY <1>4
  <2> QED BY <1>1, <1>2, <1>4, <2>1 DEF One
<1> QED BY <1>3, <1>4

\* The attaches that are counted, or will be, are finitely many.
LEMMA AttachesFinite ==
  ASSUME NEW c
  PROVE  /\ IsFiniteSet(Open(c)) /\ Cardinality(Open(c)) \in Nat
         /\ IsFiniteSet(Coming(c)) /\ Cardinality(Coming(c)) \in Nat
         /\ Open(c) = {a \in Attaches : CountedIn(run[a], c)}
<1>1. IsFiniteSet(Attaches)
  BY ContainersAssumption
<1>2. IsFiniteSet(Open(c)) /\ IsFiniteSet(Coming(c))
  BY <1>1, FS_Subset DEF Open, Coming
<1>3. Open(c) = {a \in Attaches : CountedIn(run[a], c)}
  BY DEF Open, Counted, Carrying, Chat, CountedIn
<1> QED BY <1>2, <1>3, FS_CardinalityType

\* How many attaches of c are counted, and coming, after a step of one.
LEMMA Moves ==
  ASSUME TypeOK, NEW a \in Attaches, NEW n, run' = [run EXCEPT ![a] = n], NEW c
  PROVE  /\ Cardinality(Open(c))' =
              Cardinality(Open(c)) - One(CountedIn(run[a], c)) + One(CountedIn(n, c))
         /\ Cardinality(Coming(c))' =
              Cardinality(Coming(c)) - One(ComingTo(run[a], c)) + One(ComingTo(n, c))
<1>1. run'[a] = n /\ \A b \in Attaches \ {a} : run'[b] = run[b]
  BY DEF TypeOK
<1>2. Open(c)' = {b \in Attaches : CountedIn(run'[b], c)}
  BY DEF Open, Counted, Carrying, Chat, CountedIn
<1>3. Coming(c)' = {b \in Attaches : ComingTo(run'[b], c)}
  BY DEF Coming
<1>4. /\ Open(c) \ {a} = Open(c)' \ {a}
      /\ (a \in Open(c) <=> CountedIn(run[a], c)) /\ (a \in Open(c)' <=> CountedIn(n, c))
  BY <1>1, <1>2, AttachesFinite
<1>5. /\ Coming(c) \ {a} = Coming(c)' \ {a}
      /\ (a \in Coming(c) <=> ComingTo(run[a], c)) /\ (a \in Coming(c)' <=> ComingTo(n, c))
  BY <1>1, <1>3 DEF Coming
<1>6. Cardinality(Open(c))' = Cardinality(Open(c)) - One(a \in Open(c)) + One(a \in Open(c)')
  <2> DEFINE S == Open(c)
             T == Open(c)'
  <2>1. IsFiniteSet(S) /\ S \ {a} = T \ {a}
    BY <1>4, AttachesFinite
  <2> HIDE DEF S, T
  <2>2. Cardinality(T) = Cardinality(S) - One(a \in S) + One(a \in T)
    BY <2>1, ButOne
  <2> QED BY <2>2 DEF S, T
<1>7. Cardinality(Coming(c))' =
        Cardinality(Coming(c)) - One(a \in Coming(c)) + One(a \in Coming(c)')
  <2> DEFINE S == Coming(c)
             T == Coming(c)'
  <2>1. IsFiniteSet(S) /\ S \ {a} = T \ {a}
    BY <1>5, AttachesFinite
  <2> HIDE DEF S, T
  <2>2. Cardinality(T) = Cardinality(S) - One(a \in S) + One(a \in T)
    BY <2>1, ButOne
  <2> QED BY <2>2 DEF S, T
<1> QED BY <1>4, <1>5, <1>6, <1>7 DEF One

\* What the count of c promises.
CountOK(c) ==
  /\ c \notin twice  => attached[c] >= Cardinality(Open(c))
  /\ c \notin leaked => attached[c] <= Cardinality(Open(c))
  /\ attached[c] + Cardinality(Coming(c)) <= used.runs

\* A step of an attach keeps the counts.
LEMMA AttachCounts ==
  ASSUME TypeOK, \A c \in Chats : CountOK(c), NEW a \in Attaches, AttachStep(a),
         NEW c \in Chats
  PROVE  CountOK(c)' /\ attached'[c] \in Nat
<1> DEFINE k == run[a]
           o == Cardinality(Open(c))
           p == Cardinality(Coming(c))
<1>1. PICK n \in RunRec : run' = [run EXCEPT ![a] = n]
  BY AttachWrites
<1>2. /\ k \in RunRec /\ attached \in [Chats -> 0 .. MaxRuns] /\ attached[c] \in Nat
      /\ run \in [Attaches -> RunRec] /\ used \in [runs : 0..MaxRuns, faults : 0..MaxFaults]
      /\ used.runs \in Nat /\ Chat(a) \in Chats
  BY ContainersAssumption DEF TypeOK, Chat, RunRec
<1>3. /\ Cardinality(Open(c))' = o - One(CountedIn(k, c)) + One(CountedIn(n, c))
      /\ Cardinality(Coming(c))' = p - One(ComingTo(k, c)) + One(ComingTo(n, c))
  BY <1>1, Moves
<1>4. o \in Nat /\ p \in Nat
  BY AttachesFinite
<1>5. CountOK(c)
  OBVIOUS
<1>6. n = run'[a]
  BY <1>1, <1>2
<1>7. CountedIn(k, c) => o >= 1
  <2>1. CountedIn(k, c) => a \in Open(c)
    BY AttachesFinite
  <2>2. a \in Open(c) => o # 0
    BY AttachesFinite, FS_EmptySet
  <2> QED BY <1>4, <2>1, <2>2
<1> HIDE DEF k, o, p
\* Nothing of the count moves, and no attach becomes one that is to come.
<1>a. ASSUME attached' = attached, twice' = twice, used'.runs = used.runs,
             leaked' = leaked,
             CountedIn(n, c) <=> CountedIn(k, c), ComingTo(n, c) => ComingTo(k, c)
      PROVE  CountOK(c)' /\ attached'[c] \in Nat
  BY <1>2, <1>3, <1>4, <1>5, <1>a DEF CountOK, One, o, p
<1>f. Fault => used'.runs = used.runs
  BY <1>2 DEF Fault
<1>1a. ASSUME NEW d \in Chats, Attach(a, d) PROVE CountOK(c)' /\ attached'[c] \in Nat
  <2>1. /\ k.at = "idle" /\ n.at \in {"found", "create", "restart"} /\ used'.runs = used.runs + 1
        /\ attached' = attached /\ twice' = twice /\ leaked' = leaked
    <3>1. k.at = "idle" /\ used' = [used EXCEPT !.runs = @ + 1]
          /\ attached' = attached /\ twice' = twice /\ leaked' = leaked
      BY <1>1a DEF Attach, count, k
    <3>2. n.at \in {"found", "create", "restart"}
      <4> DEFINE at == CASE box[d].st = "running" -> "found"
                         [] box[d].st = "none"    -> "create"
                         [] OTHER                 -> "restart"
      <4>1. at \in {"found", "create", "restart"}
        OBVIOUS
      <4>2. n = [NoRun EXCEPT !.chat = d, !.held = TRUE, !.at = at]
        BY <1>1a, <1>2, <1>6 DEF Attach
      <4> HIDE DEF at
      <4> QED BY <4>1, <4>2, NoRunTyped DEF RunRec
    <3> QED BY <1>2, <3>1, <3>2
  <2>2. ~CountedIn(k, c) /\ ~ComingTo(k, c) /\ ~CountedIn(n, c)
    BY <2>1 DEF CountedIn, ComingTo
  <2> QED BY <1>2, <1>3, <1>4, <1>5, <2>1, <2>2 DEF CountOK, One, o, p
<1>b. CASE StartStale(a) \/ Discard(a) \/ Create(a)
  <2>1. /\ k.at \in {"restart", "discard", "create"}
        /\ n.at \in {"discard", "found", "create", "boot", "idle"}
        /\ n.at # "idle" => n.chat = k.chat
        /\ attached' = attached /\ twice' = twice /\ leaked' = leaked /\ used'.runs = used.runs
    <3>1. CASE StartStale(a) \/ Discard(a)
      BY <1>2, <1>6, <1>f, <3>1 DEF StartStale, Discard, Go, RunRec, count, k
    <3>2. CASE Create(a)
      BY <1>2, <1>6, <3>2 DEF Create, Ends, NoRun, RunRec, count, k
    <3> QED BY <1>b, <3>1, <3>2
  <2>2. ~CountedIn(k, c) /\ ~CountedIn(n, c) /\ (ComingTo(n, c) => ComingTo(k, c))
    BY <2>1 DEF CountedIn, ComingTo
  <2> QED BY <1>a, <2>1, <2>2
<1>c. CASE Boot(a)
  <2>1. /\ k.at = "boot"
        /\ n.at = "idle" \/ (n.at = "read" /\ ~n.last /\ n.chat = k.chat)
        /\ attached' = attached /\ twice' = twice /\ leaked' = leaked /\ used'.runs = used.runs
    BY <1>2, <1>6, <1>f, <1>c DEF Boot, Ends, NoRun, RunRec, count, k
  <2>2. ~CountedIn(k, c) /\ ~CountedIn(n, c) /\ (ComingTo(n, c) => ComingTo(k, c))
    BY <2>1 DEF CountedIn, ComingTo
  <2> QED BY <1>a, <2>1, <2>2
<1>d. CASE ReadPair(a) \/ WritePair(a) \/ Link(a)
  <2>1. /\ k.at \in {"read", "write", "link"} /\ n.chat = k.chat /\ n.last = k.last
        /\ \/ n.at \in {"write", "link"}
           \/ n.at = IF k.last THEN "uncount" ELSE "found"
        /\ attached' = attached /\ twice' = twice /\ leaked' = leaked /\ used'.runs = used.runs
    <3>1. CASE ReadPair(a)
      BY <1>2, <1>6, <3>1 DEF ReadPair, RunRec, count, k
    <3>2. CASE WritePair(a)
      BY <1>2, <1>6, <1>f, <3>2 DEF WritePair, RunRec, count, k
    <3>3. CASE Link(a)
      BY <1>2, <1>6, <3>3 DEF Link, Go, RunRec, count, k
    <3> QED BY <1>d, <3>1, <3>2, <3>3
  <2>2. (CountedIn(n, c) <=> CountedIn(k, c)) /\ (ComingTo(n, c) => ComingTo(k, c))
    <3>1. k.last \in BOOLEAN
      BY <1>2 DEF RunRec, k
    <3> QED BY <2>1, <3>1 DEF CountedIn, ComingTo
  <2> QED BY <1>a, <2>1, <2>2
<1>g. CASE StreamEnds(a) \/ LetGo(a)
  <2>1. /\ k.at = "open" /\ n.chat = k.chat /\ (n.at = "open" \/ (n.at = "read" /\ n.last))
        /\ attached' = attached /\ twice' = twice /\ leaked' = leaked /\ used'.runs = used.runs
    BY <1>2, <1>6, <1>g DEF StreamEnds, LetGo, RunRec, count, k
  <2>2. (CountedIn(n, c) <=> CountedIn(k, c)) /\ (ComingTo(n, c) => ComingTo(k, c))
    BY <2>1 DEF CountedIn, ComingTo
  <2> QED BY <1>a, <2>1, <2>2
<1>h. CASE Count(a)
  <2>1. /\ k.at = "found" /\ n.at = "exec" /\ n.chat = k.chat
        /\ attached' = [attached EXCEPT ![k.chat] = @ + 1]
        /\ twice' = twice /\ leaked' = leaked /\ used' = used
    BY <1>2, <1>6, <1>h DEF Count, Go, RunRec, Chat, k
  <2>2. /\ ~CountedIn(k, c) /\ ~ComingTo(n, c)
        /\ (CountedIn(n, c) <=> k.chat = c) /\ (ComingTo(k, c) <=> k.chat = c)
    BY <2>1 DEF CountedIn, ComingTo
  <2>3. attached'[c] = IF k.chat = c THEN attached[c] + 1 ELSE attached[c]
    BY <1>2, <2>1
  <2> QED BY <1>2, <1>3, <1>4, <1>5, <2>1, <2>2, <2>3 DEF CountOK, One, o, p
<1>i. CASE Exec(a)
  <2>1. k.at = "exec" /\ attached' = attached /\ twice' = twice /\ used'.runs = used.runs
    BY <1>f, <1>i DEF Exec, k
  <2>2. \/ n.at = "open" /\ n.chat = k.chat /\ leaked' = leaked
        \/ n.at = "idle" /\ leaked' = leaked \cup {k.chat}
    BY <1>2, <1>6, <1>i DEF Exec, Ends, NoRun, RunRec, Chat, k
  <2>3. CASE n.at = "open" /\ n.chat = k.chat /\ leaked' = leaked
    <3>1. (CountedIn(n, c) <=> CountedIn(k, c)) /\ (ComingTo(n, c) => ComingTo(k, c))
      BY <2>1, <2>3 DEF CountedIn, ComingTo
    <3> QED BY <1>a, <2>1, <2>3, <3>1
  <2>4. CASE n.at = "idle" /\ leaked' = leaked \cup {k.chat}
    <3>1. /\ ~CountedIn(n, c) /\ ~ComingTo(n, c) /\ ~ComingTo(k, c)
          /\ CountedIn(k, c) <=> k.chat = c
      BY <2>1, <2>4 DEF CountedIn, ComingTo
    <3> QED BY <1>2, <1>3, <1>4, <1>5, <2>1, <2>4, <3>1 DEF CountOK, One, o, p
  <2> QED BY <2>2, <2>3, <2>4
\* Counted down for an attach that is over, or that was counted down before.
<1>j. ASSUME attached' = [attached EXCEPT ![k.chat] = IF @ > 1 THEN @ - 1 ELSE 0],
             leaked' = leaked, used'.runs = used.runs, CountedIn(k, k.chat), ~ComingTo(n, c),
             \/ ~CountedIn(n, c) /\ twice' = twice
             \/ (CountedIn(n, c) <=> CountedIn(k, c)) /\ twice' = twice \cup {k.chat}
      PROVE  CountOK(c)' /\ attached'[c] \in Nat
  <2>1. attached'[c] = IF k.chat = c THEN IF attached[c] > 1 THEN attached[c] - 1 ELSE 0
                                     ELSE attached[c]
    BY <1>2, <1>j
  <2>2. (CountedIn(k, c) <=> k.chat = c) /\ ~ComingTo(k, c)
    BY <1>j DEF CountedIn, ComingTo
  <2>3. attached'[c] \in Nat
    BY <1>2, <2>1
  <2>4. Cardinality(Coming(c))' = p
    BY <1>3, <1>4, <1>j, <2>2 DEF One
  <2>5. CASE ~CountedIn(n, c) /\ twice' = twice
    <3>1. Cardinality(Open(c))' = IF k.chat = c THEN o - 1 ELSE o
      BY <1>3, <1>4, <2>2, <2>5 DEF One
    <3> QED BY <1>2, <1>4, <1>5, <1>7, <1>j, <2>1, <2>2, <2>3, <2>4, <2>5, <3>1
            DEF CountOK, o, p
  <2>6. CASE (CountedIn(n, c) <=> CountedIn(k, c)) /\ twice' = twice \cup {k.chat}
    <3>1. Cardinality(Open(c))' = o
      BY <1>3, <1>4, <2>2, <2>6 DEF One
    <3> QED BY <1>2, <1>4, <1>5, <1>7, <1>j, <2>1, <2>2, <2>3, <2>4, <2>6, <3>1
            DEF CountOK, o, p
  <2> QED BY <1>j, <2>5, <2>6
<1>k. CASE Uncount(a)
  <2>1. /\ k.at = "uncount" /\ n.at = "idle"
        /\ attached' = [attached EXCEPT ![k.chat] = IF @ > 1 THEN @ - 1 ELSE 0]
        /\ twice' = twice /\ leaked' = leaked /\ used' = used
    BY <1>2, <1>6, <1>k DEF Uncount, Drop, Ends, NoRun, Chat, k
  <2>2. CountedIn(k, k.chat) /\ ~ComingTo(n, c) /\ ~CountedIn(n, c)
    BY <2>1 DEF CountedIn, ComingTo
  <2> QED BY <1>j, <2>1, <2>2
<1>l. CASE StreamBreaks(a)
  <2>1. /\ attached' = [attached EXCEPT ![k.chat] = IF @ > 1 THEN @ - 1 ELSE 0]
        /\ leaked' = leaked /\ used'.runs = used.runs
    BY <1>f, <1>l DEF StreamBreaks, Drop, Chat, k
  <2>2. CASE k.at = "open" /\ Ends(a) /\ twice' = twice
    <3>1. CountedIn(k, k.chat) /\ ~ComingTo(n, c) /\ ~CountedIn(n, c)
      BY <1>2, <1>6, <2>2 DEF CountedIn, ComingTo, Ends, NoRun
    <3> QED BY <1>j, <2>1, <2>2, <3>1
  <2>3. CASE /\ Counted(a) /\ run' = [run EXCEPT ![a].held = FALSE, ![a].erred = TRUE]
             /\ twice' = twice \cup {Chat(a)}
    <3>1. n.at = k.at /\ n.chat = k.chat /\ n.last = k.last
      BY <1>2, <1>6, <2>3 DEF RunRec, k
    <3>2. CountedIn(k, k.chat) /\ (CountedIn(n, c) <=> CountedIn(k, c)) /\ ~ComingTo(n, c)
      BY <1>2, <2>3, <3>1 DEF Counted, Carrying, CountedIn, ComingTo, k
    <3> QED BY <1>j, <2>1, <2>3, <3>2 DEF Chat, k
  <2> QED BY <1>l, <2>2, <2>3 DEF StreamBreaks, k
<1> QED BY <1>1a, <1>b, <1>c, <1>d, <1>g, <1>h, <1>i, <1>k, <1>l DEF AttachStep, Work

\* The steps that touch no attach.
QuietStep ==
  \/ \E a \in Attaches : Talk(a) \/ Refresh(a)
  \/ \E c \in Chats : DestroyAgent(c) \/ SweepVisits(c) \/ Quiet(c) \/ BoxStops(c)
  \/ SweepLists

\* The steps, by who takes them.
LEMMA NextSteps ==
  [Next]_vars => \/ \E a \in Attaches : AttachStep(a)
                 \/ QuietStep \/ (\E c \in Chats : Teardown(c)) \/ Restart
                 \/ UNCHANGED vars
BY DEF Next, AttachStep, QuietStep

\* Every step keeps the counts.
LEMMA CountsStep ==
  ASSUME TypeOK, \A c \in Chats : CountOK(c), [Next]_vars
  PROVE  \A c \in Chats : CountOK(c)' /\ attached'[c] \in Nat
<1> SUFFICES ASSUME NEW c \in Chats PROVE CountOK(c)' /\ attached'[c] \in Nat
  OBVIOUS
<1>0. CountOK(c) /\ attached[c] \in Nat /\ attached \in [Chats -> 0 .. MaxRuns]
  BY ContainersAssumption DEF TypeOK
<1>1. CASE \E a \in Attaches : AttachStep(a)
  BY <1>1, AttachCounts
<1>2. CASE QuietStep \/ UNCHANGED vars
  <2>1. /\ run' = run /\ attached' = attached /\ twice' = twice /\ leaked' = leaked
        /\ used'.runs = used.runs
    <3>1. CASE \E d \in Chats : BoxStops(d)
      BY <3>1 DEF BoxStops, Fault, count, TypeOK
    <3> QED BY <1>2, <3>1 DEF QuietStep, Talk, Refresh, DestroyAgent, SweepVisits, Quiet,
                              SweepLists, count, vars
  <2>2. Open(c)' = Open(c) /\ Coming(c)' = Coming(c)
    BY <2>1 DEF Open, Counted, Carrying, Chat, Coming
  <2> QED BY <1>0, <2>1, <2>2 DEF CountOK
<1>3. ASSUME NEW d \in Chats, Teardown(d) PROVE CountOK(c)' /\ attached'[c] \in Nat
  <2>1. /\ attached' = attached /\ twice' = twice /\ leaked' = leaked
        /\ used'.runs = used.runs
    BY <1>3 DEF Teardown, Fault, count, TypeOK
  <2>2. \A a \in Attaches : /\ run'[a].at = run[a].at /\ run'[a].chat = run[a].chat
                            /\ run'[a].last = run[a].last
    BY <1>3 DEF Teardown, TypeOK, RunRec
  <2>3. Open(c)' = Open(c) /\ Coming(c)' = Coming(c)
    BY <2>2 DEF Open, Counted, Carrying, Chat, Coming, ComingTo
  <2> QED BY <1>0, <2>1, <2>3 DEF CountOK
<1>4. CASE Restart
  <2>1. /\ attached' = [d \in Chats |-> 0] /\ run' = [a \in Attaches |-> NoRun]
        /\ used'.runs = used.runs /\ used.runs \in Nat
    BY <1>4, ContainersAssumption DEF Restart, Fault, TypeOK
  <2>2. Open(c)' = {} /\ Coming(c)' = {}
    BY <2>1 DEF Open, Counted, Carrying, Coming, ComingTo, NoRun
  <2>3. Cardinality(Open(c))' = 0 /\ Cardinality(Coming(c))' = 0
    BY <2>2, FS_EmptySet
  <2> QED BY <2>1, <2>3 DEF CountOK
<1> QED BY <1>1, <1>2, <1>3, <1>4, NextSteps

-----------------------------------------------------------------------------
(* The other parts of the invariant *)

\* Every step keeps the types.
LEMMA TypeStep ==
  ASSUME TypeOK, \A c \in Chats : CountOK(c), HandIsFull, [Next]_vars
  PROVE  TypeOK'
<1>0. /\ box \in [Chats -> BoxRec] /\ listed \in [Chats -> Ids \cup {0}]
      /\ run \in [Attaches -> RunRec] /\ newest \in Nat /\ MaxPair \in Nat
      /\ file \in [Chats -> Pairs \cup {Linked, Blank}]
      /\ MaxRuns \in Nat /\ MaxFaults \in Nat
      /\ used \in [runs : 0..MaxRuns, faults : 0..MaxFaults]
  BY ContainersAssumption DEF TypeOK, Pairs
<1>1. used' \in [runs : 0..MaxRuns, faults : 0..MaxFaults]
  <2>1. ASSUME Fault PROVE used' \in [runs : 0..MaxRuns, faults : 0..MaxFaults]
    <3>1. used.faults + 1 \in 0 .. MaxFaults /\ used' = [used EXCEPT !.faults = used.faults + 1]
      BY <1>0, <2>1 DEF Fault, MayFault
    <3> QED BY <1>0, <3>1
  <2>2. ASSUME NEW a \in Attaches, NEW c \in Chats, Attach(a, c)
        PROVE used' \in [runs : 0..MaxRuns, faults : 0..MaxFaults]
    <3>1. used.runs + 1 \in 0 .. MaxRuns /\ used' = [used EXCEPT !.runs = used.runs + 1]
      BY <1>0, <2>2 DEF Attach
    <3> QED BY <1>0, <3>1
  <2>3. \/ Fault \/ UNCHANGED used
        \/ \E a \in Attaches, c \in Chats : Attach(a, c)
    BY DEF Next, Work, StartStale, Discard, Create, Boot, ReadPair, WritePair, Link, Count,
           Exec, StreamEnds, Uncount, Talk, Refresh, LetGo, StreamBreaks, Teardown,
           DestroyAgent, SweepVisits, Quiet, BoxStops, SweepLists, Restart, vars
  <2> QED BY <1>0, <2>1, <2>2, <2>3
<1>2. run' \in [Attaches -> RunRec]
  <2>1. ASSUME NEW a \in Attaches, AttachStep(a) PROVE run' \in [Attaches -> RunRec]
    BY <1>0, <2>1, AttachWrites
  <2>2. ASSUME QuietStep \/ UNCHANGED vars PROVE run' \in [Attaches -> RunRec]
    BY <1>0, <2>2 DEF QuietStep, Talk, Refresh, DestroyAgent, SweepVisits, Quiet, BoxStops,
                      SweepLists, count, vars
  <2>3. ASSUME NEW c \in Chats, Teardown(c) PROVE run' \in [Attaches -> RunRec]
    BY <1>0, <2>3, Writes DEF Teardown, Steps
  <2>4. CASE Restart
    BY <2>4, NoRunTyped DEF Restart
  <2> QED BY <2>1, <2>2, <2>3, <2>4, NextSteps
<1>3. attached' \in [Chats -> 0 .. MaxRuns]
  <2>1. \A c \in Chats : attached'[c] \in Nat /\ attached'[c] <= MaxRuns
    <3> SUFFICES ASSUME NEW c \in Chats PROVE attached'[c] \in Nat /\ attached'[c] <= MaxRuns
      OBVIOUS
    <3>1. CountOK(c)' /\ attached'[c] \in Nat
      BY CountsStep
    <3>2. Cardinality(Coming(c))' \in Nat
      <4>1. IsFiniteSet(Attaches)
        BY ContainersAssumption
      <4>2. IsFiniteSet(Coming(c)')
        BY <4>1, FS_Subset DEF Coming
      <4> QED BY <4>2, FS_CardinalityType
    <3>3. used'.runs \in 0 .. MaxRuns
      BY <1>1
    <3> QED BY <1>0, <3>1, <3>2, <3>3 DEF CountOK
  <2>2. DOMAIN attached' = Chats /\ attached' = [c \in DOMAIN attached' |-> attached'[c]]
    BY DEF TypeOK, Next, Work, Attach, StartStale, Discard, Create, Boot, ReadPair, WritePair,
           Link, Count, Exec, StreamEnds, Uncount, Drop, Talk, Refresh, LetGo, StreamBreaks,
           Teardown, DestroyAgent, SweepVisits, Quiet, BoxStops, SweepLists, Restart,
           count, vars
  <2> QED BY <1>0, <2>1, <2>2
<1>c. \A a \in Attaches : Chat(a) \in Chats
  BY <1>0 DEF Chat, RunRec
<1>4. box' \in [Chats -> BoxRec]
  <2>1. \A c \in Chats : [box[c] EXCEPT !.st = "running"] \in BoxRec
                      /\ [box[c] EXCEPT !.st = "stopped"] \in BoxRec
    BY <1>0 DEF BoxRec
  <2>2. NoBox \in BoxRec
    BY NoRunTyped
  <2>3. ASSUME NEW a \in Attaches, AttachStep(a) PROVE box' \in [Chats -> BoxRec]
    <3>1. CASE (\E c \in Chats : Attach(a, c)) \/ ReadPair(a) \/ WritePair(a) \/ Link(a)
               \/ Count(a) \/ Exec(a) \/ StreamEnds(a) \/ Uncount(a) \/ LetGo(a) \/ StreamBreaks(a)
      BY <1>0, <3>1 DEF Attach, ReadPair, WritePair, Link, Count, Exec, StreamEnds, Uncount,
                        LetGo, StreamBreaks, boxVars
    <3>2. CASE StartStale(a)
      <4>1. box' = box \/ box' = [box EXCEPT ![Chat(a)] = [box[Chat(a)] EXCEPT !.st = "running"]]
        BY <3>2 DEF StartStale
      <4> QED BY <1>0, <1>c, <2>1, <4>1
    <3>3. CASE Discard(a)
      BY <1>0, <1>c, <2>2, <3>3 DEF Discard
    <3>4. CASE Create(a)
      <4>1. [st |-> "created", id |-> NewId(Chat(a))] \in BoxRec
        BY <1>c, NewIdIsNew DEF BoxRec
      <4> QED BY <1>0, <1>c, <3>4, <4>1 DEF Create
    <3>5. CASE Boot(a)
      <4>1. \/ box' = box \/ box' = [box EXCEPT ![Chat(a)] = NoBox]
            \/ box' = [box EXCEPT ![Chat(a)] = [box[Chat(a)] EXCEPT !.st = "running"]]
        <5>1. CASE box' = [box EXCEPT ![Chat(a)] = IF Seen(a) = "none" THEN @ ELSE NoBox]
          BY <1>0, <1>c, <5>1
        <5> QED BY <3>5, <5>1 DEF Boot
      <4> QED BY <1>0, <1>c, <2>1, <2>2, <4>1
    <3> QED BY <2>3, <3>1, <3>2, <3>3, <3>4, <3>5 DEF AttachStep, Work
  <2>4. CASE QuietStep \/ (\E c \in Chats : Teardown(c)) \/ Restart \/ UNCHANGED vars
    <3>1. ASSUME NEW c \in Chats, BoxStops(c) PROVE box' \in [Chats -> BoxRec]
      <4>1. box' = [box EXCEPT ![c] = [box[c] EXCEPT !.st = "stopped"]]
        BY <3>1 DEF BoxStops
      <4> QED BY <1>0, <2>1, <4>1
    <3>2. ASSUME NEW c \in Chats, DestroyAgent(c) \/ SweepVisits(c) \/ Quiet(c) \/ Teardown(c)
          PROVE  box' \in [Chats -> BoxRec]
      BY <1>0, <2>2, <3>2 DEF DestroyAgent, SweepVisits, Quiet, Teardown, boxVars
    <3>3. CASE (\E a \in Attaches : Talk(a) \/ Refresh(a)) \/ SweepLists \/ Restart
               \/ UNCHANGED vars
      BY <1>0, <2>2, <3>3 DEF Talk, Refresh, SweepLists, Restart, boxVars, vars
    <3> QED BY <2>4, <3>1, <3>2, <3>3 DEF QuietStep
  <2> QED BY <2>3, <2>4, NextSteps
<1>5. listed' \in [Chats -> Ids \cup {0}]
  <2>1. ASSUME NEW a \in Attaches, AttachStep(a) PROVE listed' = listed
    BY <2>1 DEF AttachStep, Work, Attach, StartStale, Discard, Create, Boot, ReadPair, WritePair,
                Link, Count, Exec, StreamEnds, Uncount, LetGo, StreamBreaks, boxVars
  <2>2. ASSUME NEW c \in Chats, SweepVisits(c) PROVE listed' \in [Chats -> Ids \cup {0}]
    BY <1>0, <2>2 DEF SweepVisits
  <2>3. CASE SweepLists \/ Restart
    BY <1>0, <2>3 DEF SweepLists, Restart, BoxRec
  <2>4. CASE \/ \E a \in Attaches : Talk(a) \/ Refresh(a)
             \/ \E c \in Chats : DestroyAgent(c) \/ Quiet(c) \/ BoxStops(c) \/ Teardown(c)
             \/ UNCHANGED vars
    BY <1>0, <2>4 DEF Talk, Refresh, DestroyAgent, Quiet, BoxStops, Teardown, boxVars, vars
  <2> QED BY <1>0, <2>1, <2>2, <2>3, <2>4, NextSteps DEF QuietStep
<1>6. /\ activity' \in SUBSET Chats /\ deletes' \in SUBSET Chats
      /\ twice' \in SUBSET Chats /\ leaked' \in SUBSET Chats
  <2>0. /\ activity \in SUBSET Chats /\ deletes \in SUBSET Chats
        /\ twice \in SUBSET Chats /\ leaked \in SUBSET Chats
    BY DEF TypeOK
  <2>1. ASSUME NEW a \in Attaches, AttachStep(a) \/ Talk(a) \/ Refresh(a)
        PROVE  /\ deletes' = deletes /\ activity' \in {activity, activity \cup {Chat(a)}}
               /\ twice' \in {twice, twice \cup {Chat(a)}}
               /\ leaked' \in {leaked, leaked \cup {Chat(a)}}
    BY <2>1 DEF AttachStep, Work, Attach, StartStale, Discard, Create, Boot, ReadPair, WritePair,
                Link, Count, Exec, StreamEnds, Uncount, LetGo, StreamBreaks, Talk, Refresh, count
  <2>2. ASSUME NEW c \in Chats,
               DestroyAgent(c) \/ SweepVisits(c) \/ Quiet(c) \/ BoxStops(c) \/ Teardown(c)
        PROVE  /\ deletes' \in {deletes, deletes \ {c}, deletes \cup {c}}
               /\ activity' \in {activity, activity \ {c}} /\ twice' = twice /\ leaked' = leaked
    BY <2>2 DEF DestroyAgent, SweepVisits, Quiet, BoxStops, Teardown, count
  <2>3. CASE SweepLists \/ UNCHANGED vars
    BY <2>0, <2>3 DEF SweepLists, count, vars
  <2>4. CASE Restart
    BY <2>4 DEF Restart
  <2> QED BY <1>c, <2>0, <2>1, <2>2, <2>3, <2>4, NextSteps DEF QuietStep
<1>7. /\ file' \in [Chats -> Pairs \cup {Linked, Blank}] /\ shared' \in Pairs
      /\ newest' \in Pairs /\ loose' \in BOOLEAN
  <2>0. shared \in Pairs /\ newest \in Pairs /\ loose \in BOOLEAN
    BY DEF TypeOK
  <2>1. CASE UNCHANGED signVars
    BY <1>0, <2>0, <2>1 DEF signVars
  <2>2. ASSUME NEW a \in Attaches, WritePair(a)
        PROVE  /\ file' \in [Chats -> Pairs \cup {Linked, Blank}] /\ shared' \in Pairs
               /\ newest' \in Pairs /\ loose' \in BOOLEAN
    <3>1. run[a].hand \in Pairs
      BY <1>0, <2>2 DEF WritePair, HandIsFull, RunRec
    <3> QED BY <1>0, <2>0, <2>2, <3>1 DEF WritePair
  <2>3. ASSUME NEW a \in Attaches, Link(a)
        PROVE  /\ file' \in [Chats -> Pairs \cup {Linked, Blank}] /\ shared' \in Pairs
               /\ newest' \in Pairs /\ loose' \in BOOLEAN
    BY <1>0, <2>0, <2>3 DEF Link, Relink
  <2>4. ASSUME NEW a \in Attaches, Refresh(a)
        PROVE  /\ file' \in [Chats -> Pairs \cup {Linked, Blank}] /\ shared' \in Pairs
               /\ newest' \in Pairs /\ loose' \in BOOLEAN
    <3>0. loose' \in BOOLEAN
      BY <2>0, <2>4 DEF Refresh
    <3>1. \/ newest < MaxPair /\ newest' = newest + 1
             /\ file' = [file EXCEPT ![Chat(a)] = newest + 1]
          \/ newest' = newest /\ file' = [file EXCEPT ![Chat(a)] = Blank]
      BY <2>4 DEF Refresh
    <3>3. newest < MaxPair => newest + 1 \in Pairs
      BY <1>0 DEF Pairs
    <3>2. shared' = shared
      BY <2>4 DEF Refresh
    <3> QED BY <1>0, <2>0, <3>0, <3>1, <3>2, <3>3
  <2>5. \/ UNCHANGED signVars
        \/ \E a \in Attaches : WritePair(a) \/ Link(a) \/ Refresh(a)
    <3>1. ASSUME NEW a \in Attaches, AttachStep(a)
          PROVE  UNCHANGED signVars \/ WritePair(a) \/ Link(a)
      BY <3>1 DEF AttachStep, Work, Attach, StartStale, Discard, Create, Boot, ReadPair, Count,
                  Exec, StreamEnds, Uncount, LetGo, StreamBreaks
    <3>2. ASSUME NEW c \in Chats,
                 Teardown(c) \/ DestroyAgent(c) \/ SweepVisits(c) \/ Quiet(c) \/ BoxStops(c)
          PROVE  UNCHANGED signVars
      BY <3>2 DEF Teardown, DestroyAgent, SweepVisits, Quiet, BoxStops
    <3>3. CASE SweepLists \/ Restart \/ UNCHANGED vars
      BY <3>3 DEF SweepLists, Restart, vars, signVars
    <3>4. ASSUME NEW a \in Attaches, Talk(a) PROVE UNCHANGED signVars
      BY <3>4 DEF Talk
    <3> QED BY <3>1, <3>2, <3>3, <3>4, NextSteps DEF QuietStep
  <2> QED BY <2>1, <2>2, <2>3, <2>4, <2>5
<1> QED BY <1>1, <1>2, <1>3, <1>4, <1>5, <1>6, <1>7 DEF TypeOK

\* A container made is started, or removed, by the attach that made it.
LEMMA CreatedStep ==
  ASSUME TypeOK, CreatedIsBooting, [Next]_vars
  PROVE  CreatedIsBooting'
<1> SUFFICES ASSUME NEW c \in Chats, box'[c].st = "created"
             PROVE  \E a \in Attaches : /\ run'[a].at = "boot" /\ run'[a].chat = c
                                        /\ run'[a].on = box'[c].id
  BY DEF CreatedIsBooting, Chat
<1>0. /\ box \in [Chats -> BoxRec] /\ run \in [Attaches -> RunRec]
      /\ \A a \in Attaches : Chat(a) \in Chats
  BY DEF TypeOK, Chat, RunRec
<1>1. ASSUME box'[c] = box[c],
             \A a \in Attaches : run[a].at = "boot" /\ Chat(a) = c /\ run[a].on = box[c].id =>
               run'[a].at = "boot" /\ run'[a].chat = run[a].chat /\ run'[a].on = run[a].on
      PROVE  \E a \in Attaches : run'[a].at = "boot" /\ run'[a].chat = c /\ run'[a].on = box'[c].id
  <2>1. PICK a \in Attaches : run[a].at = "boot" /\ Chat(a) = c /\ run[a].on = box[c].id
    BY <1>1 DEF CreatedIsBooting
  <2> QED BY <1>1, <2>1 DEF Chat
<1>2. ASSUME NEW a \in Attaches, AttachStep(a)
      PROVE  \E b \in Attaches : run'[b].at = "boot" /\ run'[b].chat = c /\ run'[b].on = box'[c].id
  <2>1. \A b \in Attaches \ {a} : run'[b] = run[b]
    BY <1>0, <1>2, AttachWrites
  <2>2. ASSUME run[a].at # "boot", box'[c] = box[c]
        PROVE \E b \in Attaches : run'[b].at = "boot" /\ run'[b].chat = c /\ run'[b].on = box'[c].id
    BY <1>1, <2>1, <2>2
  <2>3. CASE \/ (\E d \in Chats : Attach(a, d)) \/ ReadPair(a) \/ WritePair(a) \/ Link(a)
             \/ Count(a) \/ Exec(a) \/ StreamEnds(a) \/ Uncount(a) \/ LetGo(a) \/ StreamBreaks(a)
    <3>1. run[a].at # "boot"
      BY <2>3 DEF Attach, ReadPair, WritePair, Link, Count, Exec, StreamEnds, Uncount, LetGo,
                  StreamBreaks, Counted, Carrying
    <3>2. box' = box
      BY <2>3 DEF Attach, ReadPair, WritePair, Link, Count, Exec, StreamEnds, Uncount, LetGo,
                  StreamBreaks, boxVars
    <3> QED BY <2>2, <3>1, <3>2
  <2>4. CASE StartStale(a) \/ Discard(a)
    <3>1. run[a].at # "boot"
      BY <2>4 DEF StartStale, Discard
    <3>2. box'[c] = box[c]
      BY <1>0, <2>4 DEF StartStale, Discard, NoBox, BoxRec
    <3> QED BY <2>2, <3>1, <3>2
  <2>5. CASE Create(a)
    <3>1. CASE box' = box
      BY <2>2, <2>5, <3>1 DEF Create
    <3>2. CASE /\ box' = [box EXCEPT ![Chat(a)] = [st |-> "created", id |-> NewId(Chat(a))]]
               /\ run' = [run EXCEPT ![a].at = "boot", ![a].on = NewId(Chat(a))]
      <4>1. CASE Chat(a) = c
        <5>1. box'[c].id = NewId(Chat(a))
          BY <1>0, <3>2, <4>1
        <5>2. run'[a].at = "boot" /\ run'[a].chat = c /\ run'[a].on = NewId(Chat(a))
          BY <1>0, <3>2, <4>1 DEF RunRec, Chat
        <5> QED BY <5>1, <5>2
      <4>2. CASE Chat(a) # c
        BY <1>0, <2>2, <2>5, <3>2, <4>2 DEF Create
      <4> QED BY <4>1, <4>2
    <3> QED BY <2>5, <3>1, <3>2 DEF Create
  <2>6. CASE Boot(a)
    <3>1. box'[c] = box[c]
      BY <1>0, <2>6 DEF Boot, NoBox, BoxRec
    <3>2. ~(Chat(a) = c /\ run[a].on = box[c].id)
      <4> SUFFICES ASSUME Chat(a) = c, run[a].on = box[c].id PROVE FALSE
        OBVIOUS
      <4>1. Seen(a) = "created"
        BY <3>1 DEF Seen
      <4>2. box'[c].st # "created"
        BY <1>0, <2>6, <4>1 DEF Boot, NoBox, BoxRec
      <4> QED BY <4>2
    <3> QED BY <1>1, <2>1, <3>1, <3>2
  <2> QED BY <1>2, <2>3, <2>4, <2>5, <2>6 DEF AttachStep, Work
<1>3. CASE QuietStep \/ UNCHANGED vars
  <2>1. run' = run
    BY <1>3 DEF QuietStep, Talk, Refresh, DestroyAgent, SweepVisits, Quiet, BoxStops,
                SweepLists, count, vars
  <2>2. box'[c] = box[c]
    <3>1. ASSUME NEW d \in Chats, DestroyAgent(d) \/ SweepVisits(d) \/ Quiet(d) \/ BoxStops(d)
          PROVE  box'[c] = box[c]
      BY <1>0, <3>1 DEF DestroyAgent, SweepVisits, Quiet, BoxStops, boxVars, NoBox, BoxRec
    <3> QED BY <1>3, <3>1 DEF QuietStep, Talk, Refresh, SweepLists, boxVars, vars
  <2> QED BY <1>1, <2>1, <2>2
<1>4. ASSUME NEW d \in Chats, Teardown(d)
      PROVE  \E a \in Attaches : run'[a].at = "boot" /\ run'[a].chat = c /\ run'[a].on = box'[c].id
  <2>1. box' = box
    BY <1>4 DEF Teardown, boxVars
  <2>2. \A a \in Attaches : /\ run'[a].at = run[a].at /\ run'[a].chat = run[a].chat
                            /\ run'[a].on = run[a].on
    BY <1>0, <1>4 DEF Teardown, RunRec
  <2> QED BY <1>1, <2>1, <2>2
<1>5. CASE Restart
  BY <1>5 DEF Restart, NoBox
<1> QED BY <1>2, <1>3, <1>4, <1>5, NextSteps

\* What is on its way or in a chat's file stays the newest pair, and that pair
\* stays where a failed write cannot lose it.
LEMMA SignStep ==
  ASSUME TypeOK, NewestIsStored, HandIsFull, [Next]_vars
  PROVE  NewestIsStored' /\ HandIsFull'
<1>0. /\ run \in [Attaches -> RunRec] /\ file \in [Chats -> Pairs \cup {Linked, Blank}]
      /\ shared \in Nat /\ newest \in Nat /\ loose \in BOOLEAN /\ Pairs \subseteq Nat
      /\ \A a \in Attaches : Chat(a) \in Chats
  BY DEF TypeOK, Chat, RunRec, Pairs
\* Nothing of the sign-in moves, and no pair is picked up.
<1>1. ASSUME UNCHANGED signVars,
             \A a \in Attaches : run'[a].hand \in {run[a].hand, NoPair},
             \A a \in Attaches : run'[a].at = "write" =>
                run[a].at = "write" /\ run'[a].hand = run[a].hand
      PROVE  NewestIsStored' /\ HandIsFull'
  <2>1. HandIsFull'
    BY <1>1 DEF HandIsFull
  <2>2. NewestIsStored'
    BY <1>1 DEF NewestIsStored, signVars, Usable, Linked, Blank
  <2> QED BY <2>1, <2>2
<1>2. ASSUME NEW a \in Attaches, AttachStep(a) PROVE NewestIsStored' /\ HandIsFull'
  <2>1. PICK n \in RunRec : run' = [run EXCEPT ![a] = n]
    BY <1>2, AttachWrites
  <2>2. run'[a] = n /\ \A b \in Attaches \ {a} : run'[b] = run[b]
    BY <1>0, <2>1
  <2>3. CASE \/ (\E c \in Chats : Attach(a, c)) \/ StartStale(a) \/ Discard(a) \/ Create(a) \/ Boot(a)
             \/ Count(a) \/ Exec(a) \/ StreamEnds(a) \/ Uncount(a) \/ LetGo(a) \/ StreamBreaks(a)
    <3>1. UNCHANGED signVars
      BY <2>3 DEF Attach, StartStale, Discard, Create, Boot, Count, Exec, StreamEnds, Uncount,
                  LetGo, StreamBreaks
    <3>2. n.hand \in {run[a].hand, NoPair} /\ (n.at = "write" => run[a].at = "write" /\ n.hand = run[a].hand)
      <4>1. CASE \E c \in Chats : Attach(a, c)
        <5>1. PICK at \in {"found", "create", "restart"}, c \in Chats :
                n = [NoRun EXCEPT !.chat = c, !.held = TRUE, !.at = at]
          <6>1. PICK c \in Chats : Attach(a, c)
            BY <4>1
          <6> DEFINE at == CASE box[c].st = "running" -> "found"
                             [] box[c].st = "none"    -> "create"
                             [] OTHER                 -> "restart"
          <6>2. at \in {"found", "create", "restart"}
            OBVIOUS
          <6>3. n = [NoRun EXCEPT !.chat = c, !.held = TRUE, !.at = at]
            BY <1>0, <2>2, <6>1 DEF Attach
          <6> HIDE DEF at
          <6> QED BY <6>2, <6>3
        <5>2. n.hand = NoPair /\ n.at = at
          BY <5>1 DEF NoRun
        <5> QED BY <5>1, <5>2
      <4>2. CASE StartStale(a) \/ Discard(a) \/ Count(a)
        BY <1>0, <2>2, <4>2 DEF StartStale, Discard, Count, Go, RunRec
      <4>3. CASE Create(a) \/ Boot(a) \/ Exec(a) \/ Uncount(a)
        BY <1>0, <2>2, <4>3 DEF Create, Boot, Exec, Uncount, Ends, NoRun, RunRec
      <4>4. CASE StreamEnds(a) \/ LetGo(a)
        BY <1>0, <2>2, <4>4 DEF StreamEnds, LetGo, RunRec
      <4>5. CASE StreamBreaks(a)
        BY <1>0, <2>2, <4>5 DEF StreamBreaks, Ends, NoRun, RunRec
      <4> QED BY <2>3, <4>1, <4>2, <4>3, <4>4, <4>5
    <3> QED BY <1>1, <2>2, <3>1, <3>2
  <2>4. CASE ReadPair(a)
    <3> DEFINE p == IF Seen(a) # "none" THEN file[Chat(a)] ELSE Linked
    <3>1. UNCHANGED signVars
      BY <2>4 DEF ReadPair
    <3>2. n.at = (IF Usable(p) THEN "write" ELSE "link") /\ n.hand = IF Usable(p) THEN p ELSE NoPair
      BY <1>0, <2>2, <2>4 DEF ReadPair, RunRec
    <3>3. HandIsFull'
      <4>1. Usable(p) => p # NoPair
        BY <1>0 DEF Usable, NoPair
      <4> QED BY <2>2, <3>2, <4>1 DEF HandIsFull
    <3>4. ~loose => n.hand \in {newest, NoPair}
      BY <1>0, <3>2 DEF NewestIsStored, Usable
    <3>5. NewestIsStored'
      BY <2>2, <3>1, <3>4 DEF NewestIsStored, signVars, Usable, Linked, Blank
    <3> QED BY <3>3, <3>5
  <2>5. CASE WritePair(a)
    <3>1. n.at = "link" /\ n.hand = NoPair /\ (shared' = run[a].hand \/ shared' = shared)
          /\ file' = file /\ newest' = newest /\ loose' = loose
      BY <1>0, <2>2, <2>5 DEF WritePair, RunRec
    <3>2. HandIsFull'
      BY <2>2, <3>1 DEF HandIsFull
    <3>3. ~loose => run[a].hand = newest
      BY <2>5 DEF WritePair, HandIsFull, NewestIsStored
    <3>4. NewestIsStored'
      BY <2>2, <3>1, <3>3 DEF NewestIsStored, Usable, Linked, Blank
    <3> QED BY <3>2, <3>4
  <2>6. CASE Link(a)
    <3>1. n.at \in {"uncount", "found"} /\ n.hand = run[a].hand /\ shared' = shared
          /\ newest' = newest
      BY <1>0, <2>2, <2>6 DEF Link, Go, RunRec
    <3>2. HandIsFull'
      BY <2>2, <3>1 DEF HandIsFull
    <3>3. NewestIsStored'
      <4>1. CASE file' = file /\ loose' = loose
        BY <2>2, <3>1, <4>1 DEF NewestIsStored, Usable, Linked, Blank
      <4>2. CASE /\ file' = [file EXCEPT ![Chat(a)] = Linked]
                 /\ loose' = (loose \/ (Usable(file[Chat(a)]) /\ file[Chat(a)] # shared))
        <5> SUFFICES ASSUME ~loose'
                     PROVE  /\ newest' = shared' \/ \E c \in Chats : file'[c] = newest'
                            /\ \A b \in Attaches : run'[b].hand \in {newest', NoPair}
                            /\ \A c \in Chats : Usable(file'[c]) => file'[c] = newest'
          BY DEF NewestIsStored, Usable
        <5>1. ~loose /\ (Usable(file[Chat(a)]) => file[Chat(a)] = shared)
          BY <4>2
        <5>2. \A b \in Attaches : run'[b].hand \in {newest', NoPair}
          BY <2>2, <3>1, <5>1 DEF NewestIsStored
        <5>3. \A c \in Chats : Usable(file'[c]) => file'[c] = newest'
          BY <1>0, <3>1, <4>2, <5>1 DEF NewestIsStored, Usable
        <5>4. newest' = shared' \/ \E c \in Chats : file'[c] = newest'
          <6>1. CASE newest = shared
            BY <3>1, <6>1
          <6>2. ASSUME NEW c \in Chats, file[c] = newest
                PROVE  newest' = shared' \/ \E d \in Chats : file'[d] = newest'
            <7>1. Usable(file[c])
              BY <1>0, <6>2 DEF Usable, Linked, Blank
            <7>2. c = Chat(a) => newest = shared
              BY <5>1, <6>2, <7>1
            <7>3. c # Chat(a) => file'[c] = newest
              BY <1>0, <4>2, <6>2
            <7> QED BY <3>1, <7>2, <7>3
          <6> QED BY <5>1, <6>1, <6>2 DEF NewestIsStored
        <5> QED BY <5>2, <5>3, <5>4
      <4> QED BY <2>6, <4>1, <4>2 DEF Link, Relink
    <3> QED BY <3>2, <3>3
  <2> QED BY <1>2, <2>3, <2>4, <2>5, <2>6 DEF AttachStep, Work
<1>3. ASSUME NEW a \in Attaches, Refresh(a) PROVE NewestIsStored' /\ HandIsFull'
  <2> DEFINE c == Chat(a)
             p == IF file[c] = Linked THEN shared ELSE file[c]
  <2>1. run' = run /\ shared' = shared /\ c \in Chats /\ p # Blank
    BY <1>0, <1>3 DEF Refresh
  <2>2. HandIsFull'
    BY <2>1 DEF HandIsFull
  <2>3. CASE /\ newest' = newest + 1 /\ file' = [file EXCEPT ![c] = newest + 1]
             /\ loose' = (loose \/ \E b \in Attaches : run[b].hand # NoPair
                                \/ \E d \in Chats \ {c} : Usable(file[d]))
    <3>1. file'[c] = newest' /\ \A d \in Chats \ {c} : file'[d] = file[d]
      BY <1>0, <2>1, <2>3
    <3>2. ~loose' => /\ \A b \in Attaches : run[b].hand = NoPair
                     /\ \A d \in Chats \ {c} : ~Usable(file[d])
      BY <2>3
    <3> QED BY <2>1, <2>2, <3>1, <3>2 DEF NewestIsStored, Usable
  <2>4. CASE /\ p # newest /\ file' = [file EXCEPT ![c] = Blank]
             /\ newest' = newest /\ loose' = loose
    <3>1. file'[c] = Blank /\ \A d \in Chats \ {c} : file'[d] = file[d]
      BY <1>0, <2>1, <2>4
    <3>2. file[c] # newest
      BY <1>0, <2>4 DEF Linked
    <3> QED BY <2>1, <2>2, <2>4, <3>1, <3>2 DEF NewestIsStored, Usable
  <2> QED BY <1>3, <2>3, <2>4 DEF Refresh
<1>4. CASE \/ \E a \in Attaches : Talk(a)
           \/ \E c \in Chats : DestroyAgent(c) \/ SweepVisits(c) \/ Quiet(c) \/ BoxStops(c)
           \/ SweepLists \/ UNCHANGED vars
  <2>1. run' = run /\ UNCHANGED signVars
    BY <1>4 DEF Talk, DestroyAgent, SweepVisits, Quiet, BoxStops, SweepLists, count, vars, signVars
  <2> QED BY <1>1, <2>1
<1>5. ASSUME NEW c \in Chats, Teardown(c) PROVE NewestIsStored' /\ HandIsFull'
  <2>1. UNCHANGED signVars /\ \A a \in Attaches : run'[a].at = run[a].at /\ run'[a].hand = run[a].hand
    BY <1>0, <1>5 DEF Teardown, RunRec
  <2> QED BY <1>1, <2>1
<1>6. CASE Restart
  <2>1. UNCHANGED signVars /\ \A a \in Attaches : run'[a].at = "idle" /\ run'[a].hand = NoPair
    BY <1>6 DEF Restart, NoRun
  <2> QED BY <1>1, <2>1
<1> QED BY <1>2, <1>3, <1>4, <1>5, <1>6, NextSteps DEF QuietStep

-----------------------------------------------------------------------------
(* The theorems *)

\* The invariant holds at first ...
LEMMA ContainersInit == Init => ContainersInv
<1> SUFFICES ASSUME Init PROVE ContainersInv
  OBVIOUS
<1>1. TypeOK
  <2>1. 0 \in Pairs /\ 0 \in 0 .. MaxRuns /\ 0 \in 0 .. MaxFaults
    BY ContainersAssumption DEF Pairs
  <2>2. /\ box \in [Chats -> BoxRec] /\ run \in [Attaches -> RunRec]
        /\ listed \in [Chats -> Ids \cup {0}]
    BY NoRunTyped DEF Init
  <2>3. used \in [runs : 0 .. MaxRuns, faults : 0 .. MaxFaults]
    BY <2>1 DEF Init
  <2> QED BY <2>1, <2>2, <2>3 DEF Init, TypeOK
<1>2. \A c \in Chats : Open(c) = {} /\ Coming(c) = {}
  BY DEF Init, Open, Counted, Carrying, Coming, ComingTo, NoRun
<1>3. \A c \in Chats : Cardinality(Open(c)) = 0 /\ Cardinality(Coming(c)) = 0
  BY <1>2, FS_EmptySet
<1>4. CountIsRuns /\ RoomToCount
  BY <1>3 DEF Init, CountIsRuns, RoomToCount
<1>5. CreatedIsBooting /\ NewestIsStored /\ HandIsFull
  BY DEF Init, CreatedIsBooting, NewestIsStored, HandIsFull, NoBox, NoRun, Usable, Linked
<1> QED BY <1>1, <1>4, <1>5 DEF ContainersInv

\* ... and every step keeps it.
LEMMA ContainersStep == ContainersInv /\ [Next]_vars => ContainersInv'
<1> SUFFICES ASSUME ContainersInv, [Next]_vars PROVE ContainersInv'
  OBVIOUS
<1>1. TypeOK /\ \A c \in Chats : CountOK(c)
  BY DEF ContainersInv, CountIsRuns, RoomToCount, CountOK
<1>2. TypeOK'
  BY <1>1, TypeStep DEF ContainersInv
<1>3. CountIsRuns' /\ RoomToCount'
  BY <1>1, CountsStep DEF CountIsRuns, RoomToCount, CountOK
<1>4. CreatedIsBooting'
  BY CreatedStep DEF ContainersInv
<1>5. NewestIsStored' /\ HandIsFull'
  BY SignStep DEF ContainersInv
<1> QED BY <1>2, <1>3, <1>4, <1>5 DEF ContainersInv

\* ... so it holds always.
LEMMA ContainersInvariant == Spec => []ContainersInv
BY ContainersInit, ContainersStep, PTL DEF Spec

\* The count behind the reaper's guard is the number of open attaches, through
\* breaks, failed starts, teardowns and restarts, but for the two ways the
\* code miscounts; and no container is left made and never started.
THEOREM BrokerCounts == Spec => []BrokerInv
<1>1. ContainersInv => BrokerInv
  BY DEF ContainersInv, BrokerInv
<1> QED BY <1>1, ContainersInvariant, PTL

\* The pair the provider accepts is never lost while no pair was unlinked
\* uncarried or renewed beside an older copy.
THEOREM SignInIsKept == Spec => []SignInKept
<1>1. ContainersInv => SignInKept
  BY DEF ContainersInv, NewestIsStored, SignInKept, Held
<1> QED BY <1>1, ContainersInvariant, PTL

\* The reaper takes no container from under a counted attach, however old the
\* list it goes by, but where one attach was counted down twice.
THEOREM ReaperSpares == Spec => ReaperSparesRuns
<1>1. ASSUME ContainersInv, [Next]_vars, NEW c \in Chats, Reaps(c)
      PROVE  Open(c) = {} \/ c \in twice
  <2>1. listed \in [Chats -> Ids \cup {0}] /\ listed[c] # 0 /\ listed'[c] = 0 /\ used' = used
        /\ attached[c] \in Nat /\ used.faults \in Nat
    BY <1>1, ContainersAssumption DEF Reaps, ContainersInv, TypeOK
  <2>2. SweepVisits(c) /\ ~Spare(c)
    <3>1. ~Fault
      BY <1>1, <2>1 DEF Fault, ContainersInv, TypeOK
    <3>2. ASSUME listed' = listed PROVE FALSE
      BY <2>1, <3>2
    <3>3. ~SweepLists
      BY <2>1 DEF SweepLists
    <3>4. PICK d \in Chats : SweepVisits(d)
      <4>1. ASSUME NEW a \in Attaches, AttachStep(a) PROVE listed' = listed
        BY <4>1 DEF AttachStep, Work, Attach, StartStale, Discard, Create, Boot, ReadPair,
                    WritePair, Link, Count, Exec, StreamEnds, Uncount, LetGo, StreamBreaks, boxVars
      <4>2. ASSUME NEW d \in Chats, DestroyAgent(d) \/ Quiet(d) \/ BoxStops(d) \/ Teardown(d)
            PROVE  listed' = listed
        BY <4>2 DEF DestroyAgent, Quiet, BoxStops, Teardown, boxVars
      <4>3. ASSUME NEW a \in Attaches, Talk(a) \/ Refresh(a) PROVE listed' = listed
        BY <4>3 DEF Talk, Refresh, boxVars
      <4>4. ~Restart
        BY <3>1 DEF Restart
      <4>5. UNCHANGED vars => listed' = listed
        BY DEF vars
      <4> QED BY <1>1, <3>2, <3>3, <4>1, <4>2, <4>3, <4>4, <4>5, NextSteps DEF QuietStep
    <3>5. d = c
      BY <2>1, <3>4 DEF SweepVisits
    <3>6. ~Spare(c)
      <4>1. ASSUME box' = box PROVE FALSE
        BY <1>1, <4>1 DEF Reaps
      <4> QED BY <3>4, <3>5, <4>1 DEF SweepVisits
    <3> QED BY <3>4, <3>5, <3>6
  <2>3. attached[c] = 0
    BY <2>1, <2>2 DEF Spare
  <2>4. Cardinality(Open(c)) \in Nat /\ IsFiniteSet(Open(c))
    BY AttachesFinite
  <2>5. c \notin twice => Cardinality(Open(c)) = 0
    BY <1>1, <2>3, <2>4 DEF ContainersInv, CountIsRuns
  <2> QED BY <2>4, <2>5, FS_EmptySet
<1>2. ContainersInv /\ [Next]_vars => [\A c \in Chats : Reaps(c) => Open(c) = {} \/ c \in twice]_vars
  BY <1>1
<1> QED BY <1>2, ContainersInvariant, PTL DEF Spec, ReaperSparesRuns

=============================================================================
