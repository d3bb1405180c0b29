-------------------------- MODULE CompactionProofs --------------------------
(***************************************************************************)
(* The prompt of a compacted conversation, for every trigger, kept tail,   *)
(* message size, number of messages and number of stored summaries.        *)
(*                                                                         *)
(* The thread is cut short and added to while a turn, a compaction and the *)
(* sweep hold copies of it.  ListsInv says how copies compare, NewestInv   *)
(* and JobInv what the stored compaction and the one in flight stand for   *)
(* in every copy, FollowInv what stands after a boundary, HistoryInv that  *)
(* what a turn sends is a split of its rows, LightInv what it weighs.      *)
(***************************************************************************)
EXTENDS Compaction, FiniteSetTheorems, SequenceTheorems, WellFoundedInduction, TLAPS

USE CompactionAssumption

---------------------------------------------------------------------------
(* Sums of sizes                                                           *)

\* What a row is.
Rows == [id : RowIds, role : {"user", "assistant"}, size : Sizes \cup {1}]

\* A set of numbers has a least one.
LEMMA LeastOf ==
  ASSUME NEW S \in SUBSET Nat, S # {}
  PROVE  \E m \in S : \A j \in S : m <= j
<1> DEFINE R == OpToRel(<, Nat)
<1>1. IsWellFoundedOn(R, Nat)
  BY NatLessThanWellFounded
<1>2. \A i, j \in Nat : <<i, j>> \in R <=> i < j
  BY DEF OpToRel
<1> HIDE DEF R
<1>3. PICK m \in S : \A j \in S : ~(<<j, m>> \in R)
  BY <1>1, WFMin
<1>4. ASSUME NEW j \in S PROVE m <= j
  <2>1. m \in Nat /\ j \in Nat /\ ~(j < m)
    BY <1>2, <1>3
  <2> QED BY <2>1
<1> QED BY <1>4

\* The sizes of rows are numbers.
LEMMA RowsAre ==
  /\ \A r \in Rows : /\ r.size \in Nat /\ r.id \in RowIds /\ r.id \in Nat
                     /\ r.role \in {"user", "assistant"}
  /\ \A s \in Seq(Rows) : Len(s) \in Nat /\ DOMAIN s = 1..Len(s)
                          /\ \A i \in 1..Len(s) : s[i] \in Rows
<1>1. RowIds \subseteq Nat /\ Sizes \cup {1} \subseteq Nat
  BY DEF RowIds
<1>2. ASSUME NEW r \in Rows
      PROVE  r.size \in Nat /\ r.id \in RowIds /\ r.id \in Nat
             /\ r.role \in {"user", "assistant"}
  BY <1>1 DEF Rows
<1>3. ASSUME NEW s \in Seq(Rows)
      PROVE  Len(s) \in Nat /\ DOMAIN s = 1..Len(s) /\ \A i \in 1..Len(s) : s[i] \in Rows
  BY LenProperties, ElementOfSeq
<1> QED BY <1>2, <1>3

\* The fold's own recursion, over the positions 1 to n.
Folding(s, n) ==
  CHOOSE f : f = [p \in SUBSET (1..n) |->
                    IF p = {} THEN 0 ELSE f[p \ {Max(p)}] + s[Max(p)].size]

\* The greatest of the first positions is the last.
LEMMA MaxIsLast ==
  ASSUME NEW n \in Nat, n > 0
  PROVE  /\ Max(1..n) = n
         /\ \A p \in SUBSET (1..n) : n \in p => Max(p) = n
<1>1. ASSUME NEW p \in SUBSET (1..n), n \in p PROVE Max(p) = n
  <2>1. \A y \in p : n >= y /\ y \in Int
    OBVIOUS
  <2>2. Max(p) \in p /\ \A y \in p : Max(p) >= y
    BY <1>1, <2>1 DEF Max
  <2>3. Max(p) \in 1..n /\ Max(p) >= n
    BY <1>1, <2>2
  <2> QED BY <2>3
<1>2. n \in 1..n /\ 1..n \in SUBSET (1..n)
  OBVIOUS
<1> QED BY <1>1, <1>2

\* The recursion has a solution.
LEMMA FoldingExists ==
  ASSUME NEW s, NEW n \in Nat
  PROVE  \E f : f = [p \in SUBSET (1..n) |->
                       IF p = {} THEN 0 ELSE f[p \ {Max(p)}] + s[Max(p)].size]
<1> DEFINE Solves(f, k) == f = [p \in SUBSET (1..k) |->
                       IF p = {} THEN 0 ELSE f[p \ {Max(p)}] + s[Max(p)].size]
           Bad == {k \in Nat : ~\E f : Solves(f, k)}
<1>1. SUFFICES ASSUME Bad # {} PROVE FALSE
  OBVIOUS
<1>2. PICK k \in Bad : \A j \in Bad : k <= j
  <2>1. Bad \in SUBSET Nat
    OBVIOUS
  <2> HIDE DEF Bad
  <2> QED BY <1>1, <2>1, LeastOf
<1>3. k # 0
  <2>1. SUBSET (1..0) = {{}}
    BY SMT
  <2>2. Solves([p \in {{}} |-> 0], 0)
    BY <2>1
  <2> QED BY <1>2, <2>2
<1>4. k - 1 \in Nat /\ k \in Nat
  BY <1>2, <1>3
<1>5. PICK f : Solves(f, k - 1)
  <2>1. k - 1 \notin Bad
    <3>1. ~(k <= k - 1)
      BY <1>4
    <3> HIDE DEF Bad
    <3> QED BY <1>2, <3>1
  <2> QED BY <1>4, <2>1
<1> DEFINE g == [p \in SUBSET (1..k) |-> IF k \in p THEN f[p \ {k}] + s[k].size ELSE f[p]]
<1>6. ASSUME NEW p \in SUBSET (1..k)
      PROVE  g[p] = IF p = {} THEN 0 ELSE g[p \ {Max(p)}] + s[Max(p)].size
  <2>1. CASE k \in p
    <3>1. Max(p) = k
      BY <1>4, <1>3, <2>1, MaxIsLast
    <3>2. p \ {k} \in SUBSET (1..k) /\ ~(k \in p \ {k})
      OBVIOUS
    <3>3. g[p \ {k}] = f[p \ {k}]
      BY <3>2
    <3> QED BY <2>1, <3>1, <3>3
  <2>2. CASE k \notin p
    <3>1. p \in SUBSET (1..(k - 1))
      BY <1>4, <2>2
    <3>2. f[p] = IF p = {} THEN 0 ELSE f[p \ {Max(p)}] + s[Max(p)].size
      BY <1>5, <3>1
    <3>3. g[p] = f[p]
      BY <2>2
    <3>4. p \ {Max(p)} \in SUBSET (1..k) /\ ~(k \in p \ {Max(p)})
      BY <2>2
    <3>5. g[p \ {Max(p)}] = f[p \ {Max(p)}]
      BY <3>4
    <3> QED BY <3>2, <3>3, <3>5
  <2> QED BY <2>1, <2>2
<1>7. Solves(g, k)
  BY <1>6
<1> QED BY <1>2, <1>7

\* The sums of the first sizes, one after the other.
Sums(s) == [n \in 0..Len(s) |-> Folding(s, Len(s))[1..n]]

\* Each sum adds a size to the one before, and the last is the fold.
LEMMA SumsAdd ==
  ASSUME NEW s \in Seq(Rows)
  PROVE  /\ Sums(s)[0] = 0
         /\ \A n \in 1..Len(s) : Sums(s)[n] = Sums(s)[n - 1] + s[n].size
         /\ Tokens(s) = Sums(s)[Len(s)]
<1> DEFINE f == Folding(s, Len(s))
<1>1. Len(s) \in Nat /\ DOMAIN s = 1..Len(s)
  BY RowsAre
<1>2. f = [p \in SUBSET (1..Len(s)) |-> IF p = {} THEN 0 ELSE f[p \ {Max(p)}] + s[Max(p)].size]
  BY <1>1, FoldingExists DEF Folding
<1>3. Tokens(s) = f[1..Len(s)]
  BY <1>1 DEF Tokens, FoldLeft, MapThenFoldSet, Folding
<1> HIDE DEF f
<1>4. \A n \in 0..Len(s) : Sums(s)[n] = f[1..n]
  BY DEF Sums, f
<1>5. \A n \in 0..Len(s) : 1..n \in SUBSET (1..Len(s))
  BY <1>1
<1>6. 1..0 = {}
  OBVIOUS
<1>7. ASSUME NEW n \in 1..Len(s) PROVE f[1..n] = f[1..(n - 1)] + s[n].size
  <2>1. n \in Nat /\ n > 0 /\ n \in 0..Len(s)
    BY <1>1
  <2>2. Max(1..n) = n
    BY <2>1, MaxIsLast
  <2>4. (1..n) \ {n} = 1..(n - 1) /\ 1..n # {}
    <3>1. \A x : x \in (1..n) \ {n} <=> x \in 1..(n - 1)
      BY <2>1
    <3>2. n \in 1..n
      BY <2>1
    <3> QED BY <3>1, <3>2
  <2>3. 1..n \in SUBSET (1..Len(s))
    BY <1>5, <2>1
  <2> QED BY <1>2, <2>2, <2>3, <2>4
<1>8. f[{}] = 0
  <2>1. {} \in SUBSET (1..Len(s))
    OBVIOUS
  <2> QED BY <1>2, <2>1
<1>9. 0 \in 0..Len(s) /\ Len(s) \in 0..Len(s)
      /\ \A n \in 1..Len(s) : n \in 0..Len(s) /\ n - 1 \in 0..Len(s)
  BY <1>1
<1> QED BY <1>3, <1>4, <1>6, <1>7, <1>8, <1>9

\* A sum is a number.
LEMMA SumsAreNat ==
  ASSUME NEW s \in Seq(Rows), NEW n \in 0..Len(s)
  PROVE  Sums(s)[n] \in Nat
<1> DEFINE Bad == {k \in 0..Len(s) : Sums(s)[k] \notin Nat}
<1>1. SUFFICES ASSUME Bad # {} PROVE FALSE
  OBVIOUS
<1>2. Len(s) \in Nat /\ \A k \in 1..Len(s) : s[k].size \in Nat
  BY RowsAre
<1>3. Bad \in SUBSET Nat
  BY <1>2
<1>4. PICK k \in Bad : \A j \in Bad : k <= j
  <2> HIDE DEF Bad
  <2> QED BY <1>1, <1>3, LeastOf
<1>5. k \in 1..Len(s) /\ k - 1 \in 0..Len(s)
  BY <1>2, SumsAdd
<1>6. k - 1 \notin Bad
  <2>1. ~(k <= k - 1)
    BY <1>5, <1>2
  <2> HIDE DEF Bad
  <2> QED BY <1>4, <2>1
<1>7. Sums(s)[k - 1] \in Nat
  BY <1>5, <1>6
<1>8. Sums(s)[k] = Sums(s)[k - 1] + s[k].size
  BY <1>5, SumsAdd
<1>9. Sums(s)[k] \in Nat
  BY <1>2, <1>5, <1>7, <1>8
<1> QED BY <1>4, <1>9

\* Without its first row a list weighs that row less.
LEMMA TokensOfTail ==
  ASSUME NEW s \in Seq(Rows), s # <<>>
  PROVE  Tokens(s) = s[1].size + Tokens(Tail(s))
<1>1. Tail(s) \in Seq(Rows) /\ Len(Tail(s)) = Len(s) - 1
      /\ \A i \in 1..Len(Tail(s)) : Tail(s)[i] = s[i + 1]
  BY HeadTailProperties
<1>2. Len(s) \in Nat /\ Len(s) > 0 /\ \A k \in 1..Len(s) : s[k].size \in Nat
  BY RowsAre, EmptySeq
<1> DEFINE t == Tail(s)
           Bad == {k \in 0..Len(t) : Sums(s)[k + 1] # s[1].size + Sums(t)[k]}
<1>3. Bad = {}
  <2>1. SUFFICES ASSUME Bad # {} PROVE FALSE
    OBVIOUS
  <2>2. Bad \in SUBSET Nat
    BY <1>1, <1>2
  <2>3. PICK k \in Bad : \A j \in Bad : k <= j
    <3> HIDE DEF Bad
    <3> QED BY <2>1, <2>2, LeastOf
  <2>4. k \in 0..Len(t) /\ k \in Nat
    BY <1>1, <1>2
  <2>5. k # 0
    <3>1. Sums(s)[1] = Sums(s)[0] + s[1].size /\ Sums(s)[0] = 0 /\ Sums(t)[0] = 0
      <4>1. 1 \in 1..Len(s) /\ 1 - 1 = 0
        BY <1>2
      <4> QED BY <1>1, <4>1, SumsAdd
    <3>2. s[1].size \in Nat
      BY <1>2
    <3> QED BY <3>1, <3>2
  <2>6. k \in 1..Len(t) /\ k - 1 \in 0..Len(t)
    BY <1>1, <1>2, <2>4, <2>5
  <2>7. k - 1 \notin Bad
    <3>1. ~(k <= k - 1)
      BY <2>4
    <3> HIDE DEF Bad
    <3> QED BY <2>3, <3>1
  <2>8. Sums(s)[k] = s[1].size + Sums(t)[k - 1]
    <3>1. Sums(s)[(k - 1) + 1] = s[1].size + Sums(t)[k - 1]
      BY <2>6, <2>7
    <3>2. (k - 1) + 1 = k
      BY <2>4
    <3> QED BY <3>1, <3>2
  <2>9. Sums(t)[k] = Sums(t)[k - 1] + t[k].size
    BY <1>1, <2>6, SumsAdd
  <2>10. Sums(s)[k + 1] = Sums(s)[k] + s[k + 1].size
    <3>1. k + 1 \in 1..Len(s) /\ (k + 1) - 1 = k
      BY <1>1, <1>2, <2>4
    <3> QED BY <3>1, SumsAdd
  <2>11. t[k] = s[k + 1] /\ s[k + 1].size \in Nat /\ s[1].size \in Nat
    BY <1>1, <1>2, <2>6
  <2>12. Sums(t)[k - 1] \in Nat
    BY <1>1, <2>6, SumsAreNat
  <2>13. Sums(s)[k + 1] = s[1].size + Sums(t)[k]
    <3> HIDE DEF t, Bad
    <3> QED BY <2>8, <2>9, <2>10, <2>11, <2>12
  <2> QED BY <2>3, <2>13
<1>4. Tokens(s) = Sums(s)[Len(s)] /\ Tokens(t) = Sums(t)[Len(t)]
  BY <1>1, SumsAdd
<1>5. Len(t) \in 0..Len(t) /\ Len(t) + 1 = Len(s)
  BY <1>1, <1>2
<1>6. Sums(s)[Len(t) + 1] = s[1].size + Sums(t)[Len(t)]
  <2>1. Len(t) \notin Bad
    BY <1>3
  <2> QED BY <1>5, <2>1
<1> HIDE DEF t
<1> QED BY <1>4, <1>5, <1>6 DEF t

\* What lists weigh is a number, 0 for none.
LEMMA TokensAreNat ==
  /\ \A s \in Seq(Rows) : Tokens(s) \in Nat
  /\ Tokens(<<>>) = 0
<1>1. ASSUME NEW s \in Seq(Rows) PROVE Tokens(s) \in Nat
  <2>1. Len(s) \in 0..Len(s)
    BY RowsAre
  <2> QED BY <2>1, SumsAdd, SumsAreNat
<1>2. <<>> \in Seq(Rows) /\ Len(<<>>) = 0
  BY EmptySeq
<1>3. Tokens(<<>>) = 0
  BY <1>2, SumsAdd
<1> QED BY <1>1, <1>3

\* The rows from one on.
LEMMA FromIs ==
  ASSUME NEW s \in Seq(Rows), NEW i \in 1..(Len(s) + 1)
  PROVE  /\ From(s, i) \in Seq(Rows)
         /\ Len(From(s, i)) = Len(s) - i + 1
         /\ \A j \in 1..(Len(s) - i + 1) : From(s, i)[j] = s[i + j - 1]
<1>1. Len(s) \in Nat /\ i \in Int /\ Len(s) \in Int
  BY RowsAre
<1>2. \A j \in i..Len(s) : s[j] \in Rows
  BY <1>1, RowsAre
<1>3. /\ SubSeq(s, i, Len(s)) \in Seq(Rows)
      /\ Len(SubSeq(s, i, Len(s))) = IF i <= Len(s) THEN Len(s) - i + 1 ELSE 0
      /\ \A j \in 1..(Len(s) - i + 1) : SubSeq(s, i, Len(s))[j] = s[i + j - 1]
  BY <1>1, <1>2, SubSeqProperties
<1> QED BY <1>1, <1>3 DEF From

\* A tail weighs its first row and the tail after it.
LEMMA TokensFrom ==
  ASSUME NEW s \in Seq(Rows), NEW i \in 1..Len(s)
  PROVE  Tokens(From(s, i)) = s[i].size + Tokens(From(s, i + 1))
<1>1. Len(s) \in Nat /\ i \in 1..(Len(s) + 1) /\ Len(s) \in i..Len(s)
  BY RowsAre
<1>2. From(s, i) \in Seq(Rows) /\ From(s, i) # <<>> /\ From(s, i)[1] = s[i]
  <2>1. Len(From(s, i)) > 0 /\ 1 \in 1..(Len(s) - i + 1) /\ i + 1 - 1 = i
    BY <1>1, FromIs
  <2> QED BY <1>1, <2>1, FromIs, EmptySeq
<1>3. Tail(From(s, i)) = From(s, i + 1)
  BY <1>1, HeadTailOfSubSeq DEF From
<1> QED BY <1>2, <1>3, TokensOfTail

\* A shorter tail weighs no more.
LEMMA TailsShrink ==
  ASSUME NEW s \in Seq(Rows), NEW i \in 1..(Len(s) + 1), NEW j \in i..(Len(s) + 1)
  PROVE  Tokens(From(s, j)) <= Tokens(From(s, i))
<1> DEFINE T(k) == Tokens(From(s, k))
           Bad == {k \in i..(Len(s) + 1) : ~(T(k) <= T(i))}
<1>1. SUFFICES ASSUME Bad # {} PROVE FALSE
  OBVIOUS
<1>2. Len(s) \in Nat /\ i \in Nat
  BY RowsAre
<1>3. \A k \in 1..(Len(s) + 1) : T(k) \in Nat
  BY FromIs, TokensAreNat
<1>4. \A k \in 1..Len(s) : T(k) = s[k].size + T(k + 1) /\ s[k].size \in Nat
  BY TokensFrom, RowsAre
<1>5. Bad \in SUBSET Nat
  BY <1>2
<1> HIDE DEF T
<1>6. PICK k \in Bad : \A m \in Bad : k <= m
  <2> HIDE DEF Bad
  <2> QED BY <1>1, <1>5, LeastOf
<1>7. k # i
  <2>1. T(i) \in Nat
    BY <1>2, <1>3
  <2> QED BY <2>1
<1>8. k \in i..(Len(s) + 1) /\ k - 1 \in i..(Len(s) + 1) /\ k - 1 \in 1..Len(s)
      /\ k \in 1..(Len(s) + 1) /\ i \in 1..(Len(s) + 1) /\ k \in Nat
  BY <1>2, <1>7
<1>9. T(k - 1) <= T(i)
  <2>1. ~(k <= k - 1)
    BY <1>8
  <2>2. k - 1 \notin Bad
    <3> HIDE DEF Bad
    <3> QED BY <1>6, <2>1
  <2> QED BY <1>8, <2>2
<1>10. T(k - 1) = s[k - 1].size + T(k) /\ s[k - 1].size \in Nat
  <2>1. (k - 1) + 1 = k
    BY <1>8
  <2> QED BY <1>4, <1>8, <2>1
<1>11. T(k) \in Nat /\ T(k - 1) \in Nat /\ T(i) \in Nat
  <2>1. k - 1 \in 1..(Len(s) + 1)
    BY <1>8, <1>2
  <2> QED BY <1>3, <1>8, <2>1
<1>12. T(k) <= T(i)
  <2> HIDE DEF Bad
  <2> QED BY <1>9, <1>10, <1>11
<1> QED BY <1>6, <1>12

---------------------------------------------------------------------------
(* The boundary                                                            *)

\* The first row kept: the least start whose tail fits, or past the end.
LEMMA CutIs ==
  ASSUME NEW s \in Seq(Rows)
  PROVE  /\ CutAt(s) \in 1..(Len(s) + 1)
         /\ CutAt(s) <= Len(s) =>
              CutAt(s) \in Starts(s) /\ Tokens(From(s, CutAt(s))) <= Keep
         /\ \A i \in Starts(s) : Tokens(From(s, i)) <= Keep => CutAt(s) <= i
<1> DEFINE fits == {i \in Starts(s) : Tokens(From(s, i)) <= Keep}
<1>1. Len(s) \in Nat /\ DOMAIN s = 1..Len(s)
  BY RowsAre
<1>2. fits \subseteq 1..Len(s) /\ fits \in SUBSET Nat
  BY <1>1 DEF Starts
<1>3. CutAt(s) = IF fits = {} THEN Len(s) + 1 ELSE CHOOSE i \in fits : \A j \in fits : i <= j
  BY DEF CutAt
<1>4. CASE fits = {}
  <2>1. CutAt(s) = Len(s) + 1
    BY <1>3, <1>4
  <2>2. \A i \in Starts(s) : ~(Tokens(From(s, i)) <= Keep)
    BY <1>4
  <2>3. ~(CutAt(s) <= Len(s)) /\ CutAt(s) \in 1..(Len(s) + 1)
    BY <1>1, <2>1
  <2> QED BY <2>2, <2>3
<1>5. CASE fits # {}
  <2>1. \E i \in fits : \A j \in fits : i <= j
    <3> HIDE DEF fits
    <3> QED BY <1>2, <1>5, LeastOf
  <2>2. CutAt(s) \in fits /\ \A j \in fits : CutAt(s) <= j
    BY <1>3, <1>5, <2>1
  <2>3. CutAt(s) \in 1..Len(s)
    BY <1>2, <2>2
  <2>4. CutAt(s) \in Starts(s) /\ Tokens(From(s, CutAt(s))) <= Keep
    BY <2>2
  <2>5. \A i \in Starts(s) : Tokens(From(s, i)) <= Keep => CutAt(s) <= i
    BY <2>2
  <2>6. CutAt(s) \in 1..(Len(s) + 1)
    BY <1>1, <2>3
  <2> QED BY <2>4, <2>5, <2>6
<1> QED BY <1>4, <1>5

\* The rows past the end weigh nothing.
LEMMA PastTheEnd ==
  ASSUME NEW s \in Seq(Rows)
  PROVE  From(s, Len(s) + 1) = <<>> /\ Tokens(From(s, Len(s) + 1)) = 0
<1>1. Len(s) \in Nat
  BY RowsAre
<1>2. From(s, Len(s) + 1) = <<>>
  BY <1>1, SubSeqEmpty DEF From
<1> QED BY <1>2, TokensAreNat

\* A boundary past the previous one is a row's, and what follows it fits.
LEMMA BoundaryIs ==
  ASSUME NEW s \in Seq(Rows), NEW a \in 0..Len(s), Boundary(s, a) > a
  PROVE  /\ Boundary(s, a) \in 1..Len(s)
         /\ Tokens(From(s, Boundary(s, a) + 1)) <= Keep
<1>1. Len(s) \in Nat /\ a \in Nat /\ a <= Len(s)
  BY RowsAre
<1>2. CutAt(s) \in 1..(Len(s) + 1)
  BY CutIs
<1>3. CASE Boundary(s, a) = Len(s)
  <2>1. Len(s) \in 1..Len(s)
    BY <1>1, <1>3
  <2> QED BY <1>3, <2>1, PastTheEnd
<1>4. CASE Boundary(s, a) = CutAt(s) - 1
  <2>1. CutAt(s) - 1 \in 1..Len(s) /\ (CutAt(s) - 1) + 1 = CutAt(s)
    BY <1>1, <1>2, <1>4
  <2>2. CASE CutAt(s) <= Len(s)
    BY <1>4, <2>1, <2>2, CutIs
  <2>3. CASE CutAt(s) = Len(s) + 1
    BY <1>4, <2>1, <2>3, PastTheEnd
  <2>4. CutAt(s) <= Len(s) \/ CutAt(s) = Len(s) + 1
    BY <1>1, <1>2
  <2> QED BY <2>2, <2>3, <2>4
<1>5. CASE Boundary(s, a) = 0
  BY <1>1, <1>5
<1> QED BY <1>3, <1>4, <1>5 DEF Boundary

\* A cut leaves no reply without its question, or the question is too large.
Whole(s, k) ==
  \/ s[k].role = "assistant"
  \/ s[k].size > Keep
  \/ k < Len(s) /\ s[k + 1].role = "user"

\* A boundary cuts between turns when what follows the previous one does not
\* fit: the case in which everything is summarised does not arise.
LEMMA BoundaryIsWhole ==
  ASSUME NEW s \in Seq(Rows), NEW a \in 0..Len(s), Boundary(s, a) > a,
         Tokens(From(s, a + 1)) > Keep
  PROVE  Whole(s, Boundary(s, a))
<1>1. Len(s) \in Nat /\ a \in Nat /\ a <= Len(s) /\ DOMAIN s = 1..Len(s)
  BY RowsAre
<1>2. CutAt(s) \in 1..(Len(s) + 1) /\ CutAt(s) \in Int
  BY CutIs
<1>3. ~(a > 0 /\ CutAt(s) - 1 <= a)
  <2>1. SUFFICES ASSUME a > 0, CutAt(s) - 1 <= a PROVE FALSE
    OBVIOUS
  <2>2. Boundary(s, a) = Len(s)
    BY <1>1, <2>1 DEF Boundary
  <2>3. a < Len(s) /\ CutAt(s) <= Len(s) /\ a + 1 \in CutAt(s)..(Len(s) + 1)
    BY <1>1, <1>2, <2>1, <2>2
  <2>4. Tokens(From(s, CutAt(s))) <= Keep
    BY <2>3, CutIs
  <2>5. Tokens(From(s, a + 1)) <= Tokens(From(s, CutAt(s)))
    BY <1>2, <2>3, TailsShrink
  <2>6. Tokens(From(s, a + 1)) \in Nat /\ Tokens(From(s, CutAt(s))) \in Nat
    <3>1. a + 1 \in 1..(Len(s) + 1)
      BY <1>1
    <3> QED BY <1>2, <3>1, FromIs, TokensAreNat
  <2> QED BY <2>4, <2>5, <2>6
<1>4. Boundary(s, a) = CutAt(s) - 1 /\ CutAt(s) # 1
  <2>1. Boundary(s, a) # 0
    BY <1>1
  <2>2. Boundary(s, a) = CutAt(s) - 1
    BY <1>3, <2>1 DEF Boundary
  <2> QED BY <2>1, <2>2
<1>5. (CutAt(s) - 1) + 1 = CutAt(s)
  BY <1>2
<1>6. CASE CutAt(s) <= Len(s)
  <2>1. s[CutAt(s)].role = "user"
    BY <1>4, <1>6, CutIs DEF Starts
  <2>2. CutAt(s) - 1 < Len(s)
    BY <1>1, <1>2, <1>6
  <2> QED BY <1>4, <1>5, <2>1, <2>2 DEF Whole
<1>7. CASE CutAt(s) = Len(s) + 1
  <2>1. Boundary(s, a) = Len(s) /\ Len(s) \in 1..Len(s)
    BY <1>1, <1>4, <1>7
  <2>2. CASE s[Len(s)].role = "user"
    <3>1. Len(s) \in Starts(s)
      BY <1>1, <2>1, <2>2 DEF Starts
    <3>2. ~(CutAt(s) <= Len(s))
      BY <1>1, <1>7
    <3>3. ~(Tokens(From(s, Len(s))) <= Keep)
      BY <3>1, <3>2, CutIs
    <3>4. Tokens(From(s, Len(s))) = s[Len(s)].size + Tokens(From(s, Len(s) + 1))
      BY <2>1, TokensFrom
    <3>5. s[Len(s)].size \in Nat
      BY <2>1, RowsAre
    <3>6. s[Len(s)].size > Keep
      BY <3>3, <3>4, <3>5, PastTheEnd
    <3> QED BY <2>1, <3>6 DEF Whole
  <2>3. CASE s[Len(s)].role = "assistant"
    BY <2>1, <2>3 DEF Whole
  <2>4. s[Len(s)].role \in {"user", "assistant"}
    BY <2>1, RowsAre
  <2> QED BY <2>2, <2>3, <2>4
<1>8. CutAt(s) <= Len(s) \/ CutAt(s) = Len(s) + 1
  BY <1>1, <1>2
<1> QED BY <1>6, <1>7, <1>8

---------------------------------------------------------------------------
(* Types                                                                   *)

\* What is read of a stored compaction, what is stored, and what is sent.
Comps     == [index : Nat, absorbed : SUBSET RowIds, raced : BOOLEAN]
Stored    == [boundary : RowIds, absorbed : SUBSET RowIds, raced : BOOLEAN]
Histories == [absorbed : SUBSET RowIds, kept : Seq(Rows), raced : BOOLEAN]
Turns     == [at : {"idle", "loaded", "active", "waiting", "ready", "replying"},
              kind : {"send", "edit", "retry"}, rows : Seq(Rows),
              history : Histories, late : BOOLEAN, failed : BOOLEAN,
              joined : BOOLEAN, lent : BOOLEAN]
Jobs      == [at : {"none", "plan", "summarise", "insert"}, rows : Seq(Rows), from : Nat,
              prev : Comps, upTo : Nat, raced : BOOLEAN, looked : Nat]
Sweeps    == [at : {"due", "read", "waiting", "done"}, rows : Seq(Rows)]

\* A compaction whose boundary has been planned.
Planned == {"summarise", "insert"}

\* Every variable has its type; a message that is to be written has an id, a
\* boundary that has been planned is a row's, and an insert has its place.
TypeInv ==
  /\ thread \in Seq(Rows)
  /\ nextId \in 1..(MaxId + 1)
  /\ stored \in Seq(Stored) /\ Len(stored) <= MaxStored
  /\ turn \in Turns
  /\ turn.at = "loaded" /\ turn.kind # "retry" => nextId <= MaxId
  /\ job \in Jobs
  /\ job.at \in Planned => job.upTo \in 1..Len(job.rows)
  /\ job.at = "insert" => Len(stored) < MaxStored
  /\ sweep \in Sweeps

\* Fields of the records.
LEMMA FieldsAre ==
  /\ \A c \in Comps : c.index \in Nat /\ c.absorbed \in SUBSET RowIds /\ c.raced \in BOOLEAN
  /\ \A c \in Stored : c.boundary \in RowIds /\ c.absorbed \in SUBSET RowIds /\ c.raced \in BOOLEAN
  /\ \A h \in Histories : /\ h.absorbed \in SUBSET RowIds /\ h.kept \in Seq(Rows)
                           /\ h.raced \in BOOLEAN
  /\ \A t \in Turns : /\ t.rows \in Seq(Rows) /\ t.history \in Histories
                      /\ t.late \in BOOLEAN /\ t.failed \in BOOLEAN
                      /\ t.joined \in BOOLEAN /\ t.lent \in BOOLEAN
                      /\ t.kind \in {"send", "edit", "retry"}
                      /\ t.at \in {"idle", "loaded", "active", "waiting", "ready", "replying"}
  /\ \A j \in Jobs : /\ j.rows \in Seq(Rows) /\ j.from \in Nat /\ j.prev \in Comps
                     /\ j.upTo \in Nat /\ j.raced \in BOOLEAN /\ j.looked \in Nat
                     /\ j.at \in {"none", "plan", "summarise", "insert"}
  /\ \A w \in Sweeps : w.rows \in Seq(Rows) /\ w.at \in {"due", "read", "waiting", "done"}
BY DEF Comps, Stored, Histories, Turns, Jobs, Sweeps

\* The ids of rows are ids.
LEMMA IdsAre ==
  ASSUME NEW s \in Seq(Rows)
  PROVE  /\ Ids(s) \in SUBSET RowIds
         /\ Ids(s) = {s[i].id : i \in 1..Len(s)}
BY RowsAre DEF Ids

\* Nothing, and what there is before anything happened.
LEMMA NothingIs ==
  /\ <<>> \in Seq(Rows)
  /\ None \in Comps
  /\ NoJob \in Jobs
  /\ Idle \in Turns
<1>1. <<>> \in Seq(Rows)
  BY EmptySeq
<1>2. None \in Comps
  BY DEF None, Comps
<1>3. From(<<>>, 1) \in Seq(Rows)
  <2>1. Len(<<>>) = 0
    BY EmptySeq
  <2>2. From(<<>>, 1) = <<>>
    BY <2>1, SubSeqEmpty DEF From
  <2> QED BY <1>1, <2>2
<1>4. History(<<>>, None) \in Histories
  BY <1>3 DEF History, None, Histories
<1>5. NoJob \in Jobs
  BY <1>1, <1>2 DEF NoJob, Jobs
<1>6. Idle \in Turns
  BY <1>1, <1>4 DEF Idle, Turns
<1> QED BY <1>1, <1>2, <1>5, <1>6

\* The rows after an index are rows.
LEMMA FromType ==
  ASSUME NEW s \in Seq(Rows), NEW i \in Nat
  PROVE  From(s, i + 1) \in Seq(Rows)
<1>1. Len(s) \in Int /\ i + 1 \in Int /\ \A j \in (i + 1)..Len(s) : s[j] \in Rows
  BY RowsAre
<1> QED BY <1>1, SubSeqProperties DEF From

\* What is sent of a compaction is a history.
LEMMA HistoryType ==
  ASSUME NEW s \in Seq(Rows), NEW c \in Comps
  PROVE  History(s, c) \in Histories
<1>1. c.index \in Nat /\ c.absorbed \in SUBSET RowIds /\ c.raced \in BOOLEAN
  BY FieldsAre
<1>2. From(s, c.index + 1) \in Seq(Rows)
  BY <1>1, FromType
<1> QED BY <1>1, <1>2 DEF History, Histories

\* What is loaded is nothing, or the last one stored at the row it reached.
LEMMA LoadedIs ==
  ASSUME NEW s \in Seq(Rows), stored \in Seq(Stored)
  PROVE  /\ Loaded(s) \in Comps /\ Loaded(s).index \in 0..Len(s)
         /\ \/ Loaded(s) = None
            \/ /\ stored # <<>> /\ Last(stored) \in Stored
               /\ Loaded(s).index \in 1..Len(s)
               /\ s[Loaded(s).index].id = Last(stored).boundary
               /\ Loaded(s).absorbed = Last(stored).absorbed
               /\ Loaded(s).raced = Last(stored).raced
         /\ stored # <<>> /\ Last(stored).boundary \in Ids(s) => Loaded(s) # None
<1>0. Len(s) \in Nat /\ DOMAIN s = 1..Len(s)
  BY RowsAre
<1>1. CASE stored = <<>> \/ Last(stored).boundary \notin Ids(s)
  <2>1. Loaded(s) = None
    BY <1>1 DEF Loaded
  <2>2. None \in Comps /\ None.index = 0 /\ 0 \in 0..Len(s)
    BY <1>0, NothingIs DEF None
  <2> QED BY <1>1, <2>1, <2>2
<1>2. CASE stored # <<>> /\ Last(stored).boundary \in Ids(s)
  <2> DEFINE i == CHOOSE i \in DOMAIN s : s[i].id = Last(stored).boundary
  <2>1. i \in 1..Len(s) /\ s[i].id = Last(stored).boundary
    BY <1>0, <1>2 DEF Ids
  <2>2. Loaded(s) = [index |-> i, absorbed |-> Last(stored).absorbed, raced |-> Last(stored).raced]
    BY <1>2 DEF Loaded
  <2> HIDE DEF i
  <2>3. Last(stored) \in Stored
    <3>1. Len(stored) \in 1..Len(stored)
      BY <1>2, EmptySeq, LenProperties
    <3> QED BY <3>1, ElementOfSeq DEF Last
  <2>4. Last(stored).absorbed \in SUBSET RowIds /\ Last(stored).raced \in BOOLEAN
    BY <2>3, FieldsAre
  <2>5. i \in Nat /\ i \in 0..Len(s) /\ i # 0
    BY <1>0, <2>1
  <2>6. Loaded(s) \in Comps
    BY <2>2, <2>4, <2>5 DEF Comps
  <2>7. Loaded(s).index = i /\ Loaded(s).absorbed = Last(stored).absorbed
        /\ Loaded(s).raced = Last(stored).raced /\ None.index = 0
    BY <2>2 DEF None
  <2> QED BY <1>2, <2>1, <2>3, <2>5, <2>6, <2>7
<1> QED BY <1>1, <1>2

\* What a compaction absorbs are ids.
LEMMA AbsorbsType ==
  ASSUME NEW s \in Seq(Rows), NEW c \in Comps, NEW u \in 0..Len(s)
  PROVE  Absorbs(s, c, u) \in SUBSET RowIds
<1>1. c.index \in Nat /\ Len(s) \in Nat /\ c.absorbed \in SUBSET RowIds
  BY FieldsAre, RowsAre
<1>2. SubSeq(s, c.index + 1, u) \in Seq(Rows)
  <2>1. c.index + 1 \in Int /\ u \in Int
    BY <1>1
  <2>2. \A j \in (c.index + 1)..u : s[j] \in Rows
    <3>1. \A j \in (c.index + 1)..u : j \in 1..Len(s)
      BY <1>1
    <3> QED BY <3>1, RowsAre
  <2> QED BY <2>1, <2>2, SubSeqProperties
<1> QED BY <1>1, <1>2, IdsAre DEF Absorbs

\* A new row.
LEMMA RowType ==
  ASSUME TypeInv, nextId <= MaxId, NEW role \in {"user", "assistant"},
         NEW size \in Sizes \cup {1}
  PROVE  Row(role, size) \in Rows
<1>1. nextId \in RowIds
  BY DEF TypeInv, RowIds
<1> QED BY <1>1 DEF Row, Rows

\* The first rows of a list are rows.
LEMMA FirstRowsType ==
  ASSUME NEW s \in Seq(Rows), NEW m \in 0..Len(s)
  PROVE  /\ SubSeq(s, 1, m) \in Seq(Rows)
         /\ Len(SubSeq(s, 1, m)) = m
         /\ \A i \in 1..m : SubSeq(s, 1, m)[i] = s[i]
<1>1. Len(s) \in Nat /\ m \in Int /\ 1 \in Int
  BY RowsAre
<1>2. \A i \in 1..m : s[i] \in Rows
  BY <1>1, RowsAre
<1>3. /\ SubSeq(s, 1, m) \in Seq(Rows)
      /\ Len(SubSeq(s, 1, m)) = IF 1 <= m THEN m - 1 + 1 ELSE 0
      /\ \A i \in 1..(m - 1 + 1) : SubSeq(s, 1, m)[i] = s[1 + i - 1]
  BY <1>1, <1>2, SubSeqProperties
<1>4. m - 1 + 1 = m /\ \A i \in 1..m : 1 + i - 1 = i
  BY <1>1
<1>5. Len(SubSeq(s, 1, m)) = m
  BY <1>1, <1>3
<1> QED BY <1>3, <1>4, <1>5

\* What a retry keeps: all but the replies at the end, a number of rows.
Kept == Len(thread) - Cardinality(TrailingReplies)

\* Every row is the user's or a reply, and a reply follows a user's row.
Answered(s) == \A i \in 1..Len(s) :
                 s[i].role = "assistant" => i > 1 /\ s[i - 1].role = "user"

\* A settled compaction leaves types, and a turn that does not wait, alone.
LEMMA SettleType ==
  ASSUME TypeInv, NEW c \in Comps, Settle(c)
  PROVE  /\ turn' \in Turns /\ job' \in Jobs /\ sweep' \in Sweeps
         /\ turn'.at = "loaded" => turn' = turn
         /\ job'.at = "none"
<1>1. turn \in Turns /\ job \in Jobs /\ sweep \in Sweeps
  BY DEF TypeInv
<1>2. job' \in Jobs /\ job'.at = "none"
  BY NothingIs DEF Settle, NoJob
<1>3. sweep' \in Sweeps
  BY <1>1 DEF Settle, Sweeps
<1>4. CASE turn.at = "waiting"
  <2> DEFINE h == IF c = None THEN turn.history ELSE History(turn.rows, c)
  <2>1. h \in Histories
    BY <1>1, FieldsAre, HistoryType
  <2>2. turn' = [turn EXCEPT !.at = "ready", !.history = h, !.failed = (c = None)]
    BY <1>4 DEF Settle
  <2> HIDE DEF h
  <2>3. turn' \in Turns
    BY <1>1, <2>1, <2>2 DEF Turns
  <2>4. turn'.at = "ready"
    BY <1>1, <2>2 DEF Turns
  <2> QED BY <1>2, <1>3, <2>3, <2>4
<1>5. CASE turn.at # "waiting"
  <2>1. turn' = turn
    BY <1>5 DEF Settle
  <2> QED BY <1>1, <1>2, <1>3, <2>1
<1> QED BY <1>4, <1>5

\* The turn of a request that has read the rows.
LEMMA LoadType ==
  ASSUME TypeInv, NEW kind \in {"send", "edit", "retry"}, NEW s \in Seq(Rows),
         kind # "retry" => nextId <= MaxId, Load(kind, s)
  PROVE  TypeInv'
<1>1. turn' = [Idle EXCEPT !.at = "loaded", !.kind = kind, !.rows = s]
  BY DEF Load
<1>2. turn' \in Turns /\ turn'.kind = kind
  BY <1>1, NothingIs DEF Turns
<1> QED BY <1>2 DEF TypeInv, Load

\* The next state's trigger decision.
LEMMA BeginType ==
  ASSUME TypeInv, NEW s \in Seq(Rows), Begin(s)
  PROVE  job' \in Jobs /\ (job'.at \in Planned => job' = job)
<1>1. Len(stored) \in Nat
  BY LenProperties DEF TypeInv
<1>2. [NoJob EXCEPT !.at = "plan", !.rows = s, !.from = Len(stored)] \in Jobs
  BY <1>1, NothingIs DEF Jobs
<1>3. [NoJob EXCEPT !.at = "plan", !.rows = s, !.from = Len(stored)].at = "plan"
  BY DEF NoJob
<1> QED BY <1>2, <1>3 DEF Begin, TypeInv, Planned

\* A compaction that is appended.
LEMMA StoredType ==
  ASSUME TypeInv, NEW c \in Stored, Len(stored) < MaxStored
  PROVE  Append(stored, c) \in Seq(Stored) /\ Len(Append(stored, c)) <= MaxStored
<1>1. stored \in Seq(Stored) /\ Len(stored) \in Nat
  BY LenProperties DEF TypeInv
<1>2. Len(Append(stored, c)) = Len(stored) + 1 /\ Append(stored, c) \in Seq(Stored)
  BY <1>1, AppendProperties
<1> QED BY <1>1, <1>2

\* What a retry keeps is a number of the thread's rows.
LEMMA KeptIs ==
  ASSUME thread \in Seq(Rows)
  PROVE  Kept \in Int /\ Kept <= Len(thread)
<1>1. Len(thread) \in Nat /\ DOMAIN thread = 1..Len(thread)
  BY RowsAre
<1>2. IsFiniteSet(TrailingReplies)
  <2>1. TrailingReplies \subseteq 1..Len(thread)
    BY <1>1 DEF TrailingReplies
  <2>2. 1 \in Int /\ Len(thread) \in Int
    BY <1>1
  <2>3. IsFiniteSet(1..Len(thread))
    BY <2>2, FS_Interval
  <2> QED BY <2>1, <2>3, FS_Subset
<1>3. Cardinality(TrailingReplies) \in Nat
  BY <1>2, FS_CardinalityType
<1> QED BY <1>1, <1>3 DEF Kept

\* There is one reply at the end, or none: a retry keeps a thread whose last
\* row is the question.
LEMMA RetryRows ==
  ASSUME thread \in Seq(Rows), Answered(thread)
  PROVE  \/ Kept = Len(thread) /\ (thread # <<>> => thread[Len(thread)].role = "user")
         \/ /\ Kept = Len(thread) - 1 /\ Len(thread) > 1
            /\ thread[Len(thread)].role = "assistant"
            /\ thread[Len(thread) - 1].role = "user"
<1> DEFINE n == Len(thread)
<1>1. n \in Nat /\ DOMAIN thread = 1..n
      /\ \A i \in 1..n : thread[i].role \in {"user", "assistant"}
  BY RowsAre
<1>2. TrailingReplies = {i \in 1..n : \A j \in i..n : thread[j].role = "assistant"}
  BY <1>1 DEF TrailingReplies
<1>3. CASE n = 0
  <2>1. TrailingReplies = {}
    BY <1>1, <1>2, <1>3
  <2>2. Kept = Len(thread)
    BY <1>1, <2>1, FS_EmptySet DEF Kept
  <2>3. thread = <<>>
    BY <1>3, EmptySeq
  <2> QED BY <2>2, <2>3
<1>4. CASE n > 0 /\ thread[n].role = "user"
  <2>1. \A i \in 1..n : n \in i..n
    BY <1>1
  <2>2. TrailingReplies = {}
    BY <1>2, <1>4, <2>1
  <2>3. Kept = Len(thread)
    BY <1>1, <2>2, FS_EmptySet DEF Kept
  <2> QED BY <1>4, <2>3
<1>5. CASE n > 0 /\ thread[n].role = "assistant"
  <2>1. n \in 1..n
    BY <1>1, <1>5
  <2>2. n > 1 /\ thread[n - 1].role = "user"
    BY <1>5, <2>1 DEF Answered
  <2>3. TrailingReplies = {n}
    <3>1. n \in TrailingReplies
      <4>0. n \in Int
        BY <1>1
      <4>1. \A j \in n..n : j = n
        <5> HIDE DEF n
        <5> QED BY <4>0
      <4> QED BY <1>2, <1>5, <2>1, <4>1
    <3>2. ASSUME NEW i \in TrailingReplies PROVE i = n
      <4>1. i \in 1..n /\ \A j \in i..n : thread[j].role = "assistant"
        BY <1>2, <3>2
      <4>2. n - 1 \notin i..n
        BY <2>2, <4>1
      <4>3. n \in Int /\ i \in Int
        BY <1>1, <4>1
      <4> HIDE DEF n
      <4> QED BY <4>1, <4>2, <4>3
    <3> QED BY <3>1, <3>2
  <2>4. Cardinality(TrailingReplies) = 1
    BY <2>3, FS_Singleton
  <2>5. Kept = Len(thread) - 1
    BY <2>4 DEF Kept
  <2> QED BY <1>5, <2>2, <2>5
<1>6. n = 0 \/ (n > 0 /\ thread[n].role \in {"user", "assistant"})
  BY <1>1
<1> QED BY <1>3, <1>4, <1>5, <1>6

\* The first steps of a request keep the types.
LEMMA RequestsKeepTypes ==
  ASSUME TypeInv, Send \/ Edit \/ Retry \/ \E size \in Sizes : Register(size)
  PROVE  TypeInv'
<1>0. /\ thread \in Seq(Rows) /\ Len(thread) \in Nat /\ DOMAIN thread = 1..Len(thread)
      /\ nextId \in Nat
  BY RowsAre DEF TypeInv
<1>1. CASE Send
  <2>1. nextId <= MaxId
    BY <1>0, <1>1 DEF Send
  <2> QED BY <1>0, <1>1, <2>1, LoadType DEF Send
<1>2. CASE Edit
  <2>1. PICK cut \in DOMAIN thread :
          nextId < MaxId /\ Load("edit", SubSeq(thread, 1, cut - 1))
    BY <1>2 DEF Edit
  <2>2. cut - 1 \in 0..Len(thread) /\ nextId <= MaxId
    BY <1>0, <2>1
  <2>3. SubSeq(thread, 1, cut - 1) \in Seq(Rows)
    BY <1>0, <2>2, FirstRowsType
  <2> QED BY <2>1, <2>2, <2>3, LoadType
<1>3. CASE Retry
  <2>1. Load("retry", SubSeq(thread, 1, Kept))
    BY <1>3 DEF Retry, Kept
  <2>2. Kept \in Int /\ Kept <= Len(thread)
    BY <1>0, KeptIs
  <2>3. SubSeq(thread, 1, Kept) \in Seq(Rows)
    <3>1. \A j \in 1..Kept : j \in 1..Len(thread)
      BY <1>0, <2>2
    <3>2. \A j \in 1..Kept : thread[j] \in Rows
      BY <1>0, <3>1, RowsAre
    <3> QED BY <2>2, <3>2, SubSeqProperties
  <2> QED BY <2>1, <2>3, LoadType
<1>4. ASSUME NEW size \in Sizes, Register(size) PROVE TypeInv'
  <2>1. turn \in Turns /\ turn.rows \in Seq(Rows) /\ stored \in Seq(Stored)
    BY FieldsAre DEF TypeInv
  <2>2. History(turn.rows, Loaded(turn.rows)) \in Histories
    BY <2>1, LoadedIs, HistoryType
  <2>3. turn' \in Turns /\ turn'.at = "active"
    <3> DEFINE h == History(turn.rows, Loaded(turn.rows))
    <3>1. turn' = [turn EXCEPT !.at = "active", !.history = h]
      BY <1>4 DEF Register
    <3> HIDE DEF h
    <3>2. h \in Histories
      BY <2>2 DEF h
    <3> QED BY <2>1, <3>1, <3>2 DEF Turns
  <2>4. thread' \in Seq(Rows) /\ nextId' \in 1..(MaxId + 1)
    <3>1. CASE turn.kind = "retry"
      BY <1>4, <3>1 DEF Register, TypeInv
    <3>2. CASE turn.kind # "retry"
      <4>1. nextId <= MaxId
        BY <1>4, <3>2 DEF TypeInv, Register
      <4>2. Row("user", size) \in Rows
        BY <4>1, RowType
      <4>3. thread' = Append(thread, Row("user", size)) /\ nextId' = nextId + 1
        BY <1>4, <3>2 DEF Register
      <4>4. nextId \in 1..(MaxId + 1)
        BY DEF TypeInv
      <4> QED BY <1>0, <4>1, <4>2, <4>3, <4>4, AppendProperties
    <3> QED BY <3>1, <3>2
  <2>5. UNCHANGED <<stored, job, sweep>>
    BY <1>4 DEF Register
  <2> QED BY <2>3, <2>4, <2>5 DEF TypeInv
<1> QED BY <1>1, <1>2, <1>3, <1>4

\* The steps of a compaction keep the types.
LEMMA CompactionsKeepTypes ==
  ASSUME TypeInv, Plan \/ Fail \/ LookForRival \/ Insert \/ Rival
  PROVE  TypeInv'
<1>0. /\ job \in Jobs /\ job.rows \in Seq(Rows) /\ stored \in Seq(Stored)
      /\ thread \in Seq(Rows) /\ job.prev \in Comps /\ job.upTo \in Nat
      /\ job.raced \in BOOLEAN /\ Len(stored) \in Nat
  BY FieldsAre, LenProperties DEF TypeInv
<1>1. CASE Plan
  <2> DEFINE prev == Loaded(job.rows)
             upTo == Boundary(job.rows, prev.index)
  <2>1. prev \in Comps /\ prev.index \in 0..Len(job.rows)
    BY <1>0, LoadedIs
  <2>2. CASE upTo <= prev.index
    <3>1. Settle(None)
      BY <1>1, <2>2 DEF Plan
    <3> QED BY <1>1, <3>1, NothingIs, SettleType DEF TypeInv, Planned, Plan
  <2>3. CASE ~(upTo <= prev.index)
    <3>1. job' = [job EXCEPT !.at = "summarise", !.prev = prev, !.upTo = upTo,
                             !.raced = prev.raced \/ Len(stored) > job.from]
          /\ UNCHANGED <<turn, sweep, thread, nextId, stored>>
      BY <1>1, <2>3 DEF Plan
    <3>2. upTo \in Nat
      <4>1. prev.index \in Nat /\ Len(job.rows) \in Nat
        BY <1>0, <2>1, RowsAre
      <4>2. CutAt(job.rows) \in 1..(Len(job.rows) + 1)
        BY <1>0, CutIs
      <4>3. CutAt(job.rows) - 1 \in Nat
        BY <4>1, <4>2
      <4>4. upTo \in {0, Len(job.rows), CutAt(job.rows) - 1}
        BY DEF Boundary
      <4> QED BY <4>1, <4>3, <4>4
    <3> HIDE DEF prev, upTo
    <3>3. job' \in Jobs /\ job'.upTo = upTo /\ job'.rows = job.rows /\ job'.at = "summarise"
      BY <1>0, <2>1, <3>1, <3>2 DEF Jobs
    <3>4. upTo \in 1..Len(job.rows)
      <4>1. upTo > prev.index
        BY <2>1, <2>3, <3>2, FieldsAre
      <4> QED BY <1>0, <2>1, <4>1, BoundaryIs DEF upTo
    <3> QED BY <3>1, <3>3, <3>4 DEF TypeInv
  <2> QED BY <2>2, <2>3
<1>2. CASE Fail
  BY <1>2, NothingIs, SettleType DEF TypeInv, Planned, Fail
<1>3. CASE LookForRival
  <2>1. CASE Superseded(job.rows)
    <3>1. Settle(Loaded(job.rows)) /\ UNCHANGED <<stored, thread, nextId>>
      BY <1>3, <2>1 DEF LookForRival
    <3>2. Loaded(job.rows) \in Comps
      BY <1>0, LoadedIs
    <3> QED BY <3>1, <3>2, SettleType DEF TypeInv, Planned
  <2>2. CASE ~Superseded(job.rows)
    <3>1. /\ job' = [job EXCEPT !.at = "insert", !.looked = Len(stored)] /\ Room
          /\ job.at = "summarise" /\ UNCHANGED <<turn, sweep, thread, nextId, stored>>
      BY <1>3, <2>2 DEF LookForRival
    <3>2. /\ job' \in Jobs /\ job'.at = "insert" /\ job'.upTo = job.upTo
          /\ job'.rows = job.rows
      BY <1>0, <3>1 DEF Jobs
    <3>3. Len(stored) < MaxStored /\ job.upTo \in 1..Len(job.rows)
      BY <1>0, <3>1 DEF Room, TypeInv, Planned
    <3> QED BY <3>1, <3>2, <3>3 DEF TypeInv
  <2> QED BY <2>1, <2>2
<1>5. CASE Insert
  <2> DEFINE sum == Absorbs(job.rows, job.prev, job.upTo)
             c == [boundary |-> job.rows[job.upTo].id, absorbed |-> sum, raced |-> job.raced]
             d == [index |-> job.upTo, absorbed |-> sum, raced |-> job.raced]
  <2>1. Len(stored) < MaxStored /\ stored' = Append(stored, c) /\ Settle(d)
        /\ UNCHANGED <<thread, nextId>>
    BY <1>5 DEF Insert, TypeInv
  <2>2. sum \in SUBSET RowIds /\ job.rows[job.upTo].id \in RowIds
    <3>1. job.upTo \in 1..Len(job.rows) /\ job.upTo \in 0..Len(job.rows)
      BY <1>0, <1>5, RowsAre DEF Insert, TypeInv, Planned
    <3> QED BY <1>0, <3>1, AbsorbsType, RowsAre
  <2>3. c \in Stored /\ d \in Comps
    <3> HIDE DEF sum
    <3> QED BY <1>0, <2>2 DEF Stored, Comps
  <2> HIDE DEF c, d, sum
  <2>4. stored' \in Seq(Stored) /\ Len(stored') <= MaxStored
    BY <2>1, <2>3, StoredType
  <2> QED BY <2>1, <2>3, <2>4, SettleType DEF TypeInv, Planned
<1>4. CASE Rival
  <2> DEFINE prev == Loaded(thread)
             upTo == Boundary(thread, prev.index)
             c == [boundary |-> thread[upTo].id, absorbed |-> Absorbs(thread, prev, upTo),
                   raced |-> prev.raced]
  <2>1. prev \in Comps /\ prev.index \in 0..Len(thread) /\ prev.raced \in BOOLEAN
    BY <1>0, LoadedIs, FieldsAre
  <2>2. Len(stored) < MaxStored /\ upTo > prev.index /\ stored' = Append(stored, c)
        /\ UNCHANGED <<thread, nextId, turn, job, sweep>>
    BY <1>0, <1>4 DEF Rival, Room
  <2>3. upTo \in 1..Len(thread)
    BY <1>0, <2>1, <2>2, BoundaryIs
  <2>4. upTo \in 0..Len(thread) /\ thread[upTo].id \in RowIds
    BY <1>0, <2>3, RowsAre
  <2>5. Absorbs(thread, prev, upTo) \in SUBSET RowIds
    <3> HIDE DEF prev, upTo
    <3> QED BY <1>0, <2>1, <2>4, AbsorbsType
  <2>6. c \in Stored
    <3> HIDE DEF prev, upTo
    <3> QED BY <2>1, <2>4, <2>5 DEF Stored
  <2>7. stored' \in Seq(Stored) /\ Len(stored') <= MaxStored
    <3> HIDE DEF c
    <3> QED BY <2>2, <2>6, StoredType
  <2>8. job.at = "insert" => Len(stored') < MaxStored
    <3>1. Len(stored') = Len(stored) + 1
      <4> HIDE DEF c
      <4> QED BY <1>0, <2>2, <2>6, AppendProperties
    <3> QED BY <1>0, <1>4, <3>1 DEF Rival, Room
  <2> QED BY <2>2, <2>7, <2>8 DEF TypeInv
<1> QED BY <1>1, <1>2, <1>3, <1>4, <1>5

\* The other steps of a turn and those of the sweep keep the types.
LEMMA TurnsKeepTypes ==
  ASSUME TypeInv, CheckTrigger \/ Prompt \/ EndTurn \/ SweepRead \/ SweepCompact
  PROVE  TypeInv'
<1>0. /\ turn \in Turns /\ turn.rows \in Seq(Rows) /\ thread \in Seq(Rows)
      /\ sweep \in Sweeps /\ sweep.rows \in Seq(Rows) /\ <<>> \in Seq(Rows)
  BY FieldsAre, EmptySeq DEF TypeInv
<1>1. CASE CheckTrigger
  <2>1. CASE turn.rows # <<>> /\ Replayed(turn.rows) >= Trigger
    <3>1. Begin(turn.rows) /\ UNCHANGED <<thread, nextId, stored, sweep>>
      BY <1>1, <2>1 DEF CheckTrigger
    <3>2. PICK a, b \in BOOLEAN : turn' = [turn EXCEPT !.at = "waiting", !.joined = a, !.lent = b]
      <4>1. turn' = [turn EXCEPT !.at = "waiting",
                       !.joined = (job.at # "none" /\ job.rows # turn.rows),
                       !.lent = (job.at # "none" /\ ~IsPrefix(job.rows, turn.rows))]
        BY <1>1, <2>1 DEF CheckTrigger
      <4> QED BY <4>1
    <3>3. turn' \in Turns /\ turn'.at = "waiting"
      BY <1>0, <3>2 DEF Turns
    <3>4. job' \in Jobs /\ (job'.at \in Planned => job' = job)
      BY <1>0, <3>1, BeginType
    <3> QED BY <3>1, <3>3, <3>4 DEF TypeInv, Planned
  <2>2. CASE ~(turn.rows # <<>> /\ Replayed(turn.rows) >= Trigger)
    <3>1. UNCHANGED <<job, thread, nextId, stored, sweep>>
      BY <1>1, <2>2 DEF CheckTrigger
    <3>2. PICK a \in BOOLEAN : turn' = [turn EXCEPT !.at = "ready", !.late = a]
      <4>1. turn' = [turn EXCEPT !.at = "ready",
                       !.late = (turn.history # History(turn.rows, Loaded(turn.rows)))]
        BY <1>1, <2>2 DEF CheckTrigger
      <4> QED BY <4>1
    <3>3. turn' \in Turns /\ turn'.at = "ready"
      BY <1>0, <3>2 DEF Turns
    <3> QED BY <3>1, <3>3 DEF TypeInv
  <2> QED BY <2>1, <2>2
<1>2. CASE Prompt
  <2>1. turn' = [turn EXCEPT !.at = "replying"]
    BY <1>2 DEF Prompt
  <2>2. turn' \in Turns /\ turn'.at = "replying"
    BY <1>0, <2>1 DEF Turns
  <2> QED BY <1>2, <2>2 DEF TypeInv, Prompt
<1>3. CASE EndTurn
  <2>1. turn' \in Turns /\ turn'.at = "idle"
    <3>1. turn' = Idle /\ Idle.at = "idle"
      BY <1>3 DEF EndTurn, Idle
    <3> QED BY <3>1, NothingIs
  <2>2. thread' \in Seq(Rows) /\ nextId' \in 1..(MaxId + 1)
    <3>1. CASE UNCHANGED <<thread, nextId>>
      BY <3>1 DEF TypeInv
    <3>2. CASE nextId <= MaxId /\ thread' = Append(thread, Row("assistant", 1))
               /\ nextId' = nextId + 1
      <4>1. Row("assistant", 1) \in Rows
        <5>1. 1 \in Sizes \cup {1}
          OBVIOUS
        <5> QED BY <3>2, <5>1, RowType
      <4>2. nextId \in 1..(MaxId + 1)
        BY DEF TypeInv
      <4> QED BY <1>0, <3>2, <4>1, <4>2, AppendProperties
    <3> QED BY <1>3, <3>1, <3>2 DEF EndTurn
  <2> QED BY <1>3, <2>1, <2>2 DEF TypeInv, EndTurn
<1>4. CASE SweepRead
  <2>1. sweep' \in Sweeps
    BY <1>0, <1>4 DEF SweepRead, Sweeps
  <2> QED BY <1>4, <2>1 DEF TypeInv, SweepRead
<1>5. CASE SweepCompact
  <2>1. sweep' \in Sweeps
    <3>1. sweep' = [at |-> "waiting", rows |-> <<>>] \/ sweep' = [at |-> "done", rows |-> <<>>]
      BY <1>5 DEF SweepCompact
    <3>2. <<>> \in Seq(Rows)
      BY EmptySeq
    <3>3. \A at \in {"waiting", "done"} : [at |-> at, rows |-> <<>>] \in Sweeps
      BY <3>2 DEF Sweeps
    <3> QED BY <3>1, <3>3
  <2>2. job' \in Jobs /\ (job'.at \in Planned => job' = job)
    <3>1. Begin(sweep.rows) \/ job' = job
      BY <1>5 DEF SweepCompact
    <3> QED BY <1>0, <3>1, BeginType DEF TypeInv
  <2> QED BY <1>5, <2>1, <2>2 DEF TypeInv, Planned, SweepCompact
<1> QED BY <1>1, <1>2, <1>3, <1>4, <1>5

\* Every step keeps the types.
LEMMA StepKeepsTypes ==
  ASSUME TypeInv, [Next]_vars
  PROVE  TypeInv'
<1>1. CASE Next
  <2>1. \/ Send \/ Edit \/ Retry \/ \E size \in Sizes : Register(size)
        \/ Plan \/ Fail \/ LookForRival \/ Insert \/ Rival
        \/ CheckTrigger \/ Prompt \/ EndTurn \/ SweepRead \/ SweepCompact
    BY <1>1 DEF Next
  <2> QED BY <2>1, RequestsKeepTypes, CompactionsKeepTypes, TurnsKeepTypes
<1>2. CASE UNCHANGED vars
  BY <1>2 DEF vars, TypeInv
<1> QED BY <1>1, <1>2

\* The initial state has the types.
LEMMA InitTypes == Init => TypeInv
<1> SUFFICES ASSUME Init PROVE TypeInv
  OBVIOUS
<1>1. <<>> \in Seq(Rows) /\ <<>> \in Seq(Stored) /\ Len(<<>>) = 0
  BY EmptySeq
<1>2. sweep \in Sweeps
  BY <1>1 DEF Init, Sweeps
<1>3. job \in Jobs /\ job.at = "none" /\ turn \in Turns /\ turn.at = "idle"
  BY NothingIs DEF Init, NoJob, Idle
<1>4. nextId \in 1..(MaxId + 1) /\ Len(stored) <= MaxStored
  BY <1>1 DEF Init
<1> QED BY <1>1, <1>2, <1>3, <1>4 DEF Init, TypeInv, Planned

\* The types hold in every state.
LEMMA TypesHold == Spec => []TypeInv
BY InitTypes, StepKeepsTypes, PTL DEF Spec

\* They are what the run checks of the types.
LEMMA TypeInvIsTypeOK == TypeInv => TypeOK
<1> SUFFICES ASSUME TypeInv PROVE TypeOK
  OBVIOUS
<1>1. /\ turn \in Turns /\ job \in Jobs /\ sweep \in Sweeps
      /\ thread \in Seq(Rows) /\ turn.rows \in Seq(Rows) /\ job.rows \in Seq(Rows)
      /\ sweep.rows \in Seq(Rows) /\ turn.history \in Histories
      /\ stored \in Seq(Stored)
  BY FieldsAre DEF TypeInv
<1>2. turn.history.kept \in Seq(Rows) /\ turn.history.absorbed \in SUBSET RowIds
  BY <1>1, FieldsAre
<1>3. ASSUME NEW s \in {thread, turn.rows, job.rows, sweep.rows, turn.history.kept},
             NEW i \in DOMAIN s
      PROVE  /\ s[i].id \in RowIds /\ s[i].role \in {"user", "assistant"}
             /\ s[i].size \in Sizes \cup {1}
  <2>1. s \in Seq(Rows)
    BY <1>1, <1>2
  <2>2. s[i] \in Rows
    BY <2>1, RowsAre
  <2> QED BY <2>2 DEF Rows
<1>4. ASSUME NEW i \in DOMAIN stored
      PROVE  stored[i].boundary \in RowIds /\ stored[i].absorbed \subseteq RowIds
  <2>1. stored[i] \in Stored
    BY <1>1, LenProperties, ElementOfSeq
  <2> QED BY <2>1, FieldsAre
<1>5. /\ turn.at \in {"idle", "loaded", "active", "waiting", "ready", "replying"}
      /\ turn.kind \in {"send", "edit", "retry"}
      /\ job.at \in {"none", "plan", "summarise", "insert"} /\ job.raced \in BOOLEAN
      /\ sweep.at \in {"due", "read", "waiting", "done"}
  BY <1>1, FieldsAre
<1>6. nextId \in 1..(MaxId + 1) /\ Len(stored) <= MaxStored
  BY DEF TypeInv
<1> QED BY <1>2, <1>3, <1>4, <1>5, <1>6 DEF TypeOK

---------------------------------------------------------------------------
(* The copies of the thread: a turn, a compaction and the sweep each read  *)
(* it at a time of their own, and it is cut short and added to since.      *)

\* Ids below a bound, ids in order, and two lists that share what precedes
\* (and includes) any row they share.
Below(s, n) == \A i \in 1..Len(s) : s[i].id < n
Ordered(s)  == \A i, j \in 1..Len(s) : i < j => s[i].id < s[j].id
Alike(s, t) == \A i \in 1..Len(s), j \in 1..Len(t) :
                 s[i].id = t[j].id => i = j /\ \A k \in 1..i : s[k] = t[k]

\* Cutting a list short keeps all three.
LEMMA Truncated ==
  ASSUME NEW s \in Seq(Rows), NEW t \in Seq(Rows), NEW m \in 0..Len(t), NEW n \in Nat
  PROVE  LET u == SubSeq(t, 1, m)
         IN  /\ Below(t, n) => Below(u, n)
             /\ Ordered(t) => Ordered(u)
             /\ Alike(s, t) => Alike(s, u)
             /\ Alike(t, s) => Alike(u, s)
             /\ Alike(t, t) => Alike(u, u)
<1>1. PICK u \in Seq(Rows) : u = SubSeq(t, 1, m)
  BY FirstRowsType
<1>2. Len(u) = m /\ (\A i \in 1..m : u[i] = t[i]) /\ m \in Nat /\ Len(t) \in Nat /\ m <= Len(t)
  BY <1>1, FirstRowsType, RowsAre
<1>3. \A i \in 1..Len(u) : i \in 1..Len(t) /\ u[i] = t[i] /\ \A k \in 1..i : u[k] = t[k]
  BY <1>2
<1>4. (Below(t, n) => Below(u, n)) /\ (Ordered(t) => Ordered(u))
  BY <1>3 DEF Below, Ordered
<1>5. ASSUME Alike(s, t) PROVE Alike(s, u)
  <2>1. SUFFICES ASSUME NEW i \in 1..Len(s), NEW j \in 1..Len(u), s[i].id = u[j].id
                 PROVE  i = j /\ \A k \in 1..i : s[k] = u[k]
    BY DEF Alike
  <2>2. i = j /\ \A k \in 1..i : s[k] = t[k]
    BY <1>3, <1>5, <2>1 DEF Alike
  <2> QED BY <1>3, <2>2
<1>6. ASSUME Alike(t, s) PROVE Alike(u, s)
  <2>1. SUFFICES ASSUME NEW i \in 1..Len(u), NEW j \in 1..Len(s), u[i].id = s[j].id
                 PROVE  i = j /\ \A k \in 1..i : u[k] = s[k]
    BY DEF Alike
  <2>2. i = j /\ \A k \in 1..i : t[k] = s[k]
    BY <1>3, <1>6, <2>1 DEF Alike
  <2> QED BY <1>3, <2>2
<1>7. ASSUME Alike(t, t) PROVE Alike(u, u)
  BY <1>3, <1>7 DEF Alike
<1> QED BY <1>1, <1>4, <1>5, <1>6, <1>7

\* So does adding a row that is newer than all.
LEMMA Extended ==
  ASSUME NEW s \in Seq(Rows), NEW t \in Seq(Rows), NEW r \in Rows,
         Below(s, r.id), Below(t, r.id)
  PROVE  LET u == Append(t, r)
         IN  /\ Below(u, r.id + 1) /\ Below(s, r.id + 1)
             /\ Ordered(t) => Ordered(u)
             /\ Alike(s, t) => Alike(s, u)
             /\ Alike(t, s) => Alike(u, s)
             /\ Alike(t, t) => Alike(u, u)
<1>1. PICK u \in Seq(Rows) : u = Append(t, r)
  BY AppendProperties
<1>2. /\ Len(u) = Len(t) + 1 /\ Len(t) \in Nat /\ Len(s) \in Nat
      /\ \A i \in 1..Len(t) : u[i] = t[i]
      /\ u[Len(t) + 1] = r
  BY <1>1, AppendProperties, RowsAre
<1>3. /\ r.id \in Nat
      /\ \A i \in 1..Len(s) : s[i].id \in Nat
      /\ \A i \in 1..Len(t) : t[i].id \in Nat
  BY RowsAre
<1>4. ASSUME NEW i \in 1..Len(u)
      PROVE  \/ i \in 1..Len(t) /\ u[i] = t[i] /\ \A k \in 1..i : k \in 1..Len(t) /\ u[k] = t[k]
             \/ i = Len(u) /\ u[i] = r /\ i \notin 1..Len(t)
  <2>1. i \in 1..Len(t) \/ i = Len(t) + 1
    BY <1>2
  <2>2. CASE i \in 1..Len(t)
    <3>1. \A k \in 1..i : k \in 1..Len(t)
      BY <1>2, <2>2
    <3> QED BY <1>2, <2>2, <3>1
  <2>3. CASE i = Len(t) + 1
    <3>1. i \notin 1..Len(t)
      BY <1>2, <2>3
    <3> QED BY <1>2, <2>3, <3>1
  <2> QED BY <2>1, <2>2, <2>3
<1>5. Below(u, r.id + 1) /\ Below(s, r.id + 1)
  <2>1. ASSUME NEW i \in 1..Len(u) PROVE u[i].id < r.id + 1
    <3>1. u[i].id = r.id \/ (u[i].id \in Nat /\ u[i].id < r.id)
      BY <1>3, <1>4 DEF Below
    <3> QED BY <1>3, <3>1
  <2>2. ASSUME NEW i \in 1..Len(s) PROVE s[i].id < r.id + 1
    <3>1. s[i].id \in Nat /\ s[i].id < r.id
      BY <1>3 DEF Below
    <3> QED BY <1>3, <3>1
  <2> QED BY <2>1, <2>2 DEF Below
<1>6. ASSUME Ordered(t) PROVE Ordered(u)
  <2>1. SUFFICES ASSUME NEW i \in 1..Len(u), NEW j \in 1..Len(u), i < j
                 PROVE  u[i].id < u[j].id
    BY DEF Ordered
  <2>2. i \in 1..Len(t) /\ u[i] = t[i]
    <3>1. i # Len(u)
      BY <1>2, <2>1
    <3> QED BY <1>4, <3>1
  <2>3. (j \in 1..Len(t) /\ u[j] = t[j]) \/ u[j] = r
    BY <1>4
  <2> QED BY <1>6, <2>1, <2>2, <2>3 DEF Ordered, Below
<1>7. ASSUME Alike(s, t) PROVE Alike(s, u)
  <2>1. SUFFICES ASSUME NEW i \in 1..Len(s), NEW j \in 1..Len(u), s[i].id = u[j].id
                 PROVE  i = j /\ \A k \in 1..i : s[k] = u[k]
    BY DEF Alike
  <2>2. j \in 1..Len(t) /\ u[j] = t[j] /\ \A k \in 1..j : u[k] = t[k]
    <3>1. u[j] # r
      <4>1. s[i].id \in Nat /\ s[i].id < r.id
        BY <1>3 DEF Below
      <4> QED BY <1>3, <2>1, <4>1
    <3> QED BY <1>4, <3>1
  <2>3. i = j /\ \A k \in 1..i : s[k] = t[k]
    BY <1>7, <2>1, <2>2 DEF Alike
  <2> QED BY <2>2, <2>3
<1>8. ASSUME Alike(t, s) PROVE Alike(u, s)
  <2>1. SUFFICES ASSUME NEW i \in 1..Len(u), NEW j \in 1..Len(s), u[i].id = s[j].id
                 PROVE  i = j /\ \A k \in 1..i : u[k] = s[k]
    BY DEF Alike
  <2>2. i \in 1..Len(t) /\ u[i] = t[i] /\ \A k \in 1..i : u[k] = t[k]
    <3>1. u[i] # r
      <4>1. s[j].id \in Nat /\ s[j].id < r.id
        BY <1>3 DEF Below
      <4> QED BY <1>3, <2>1, <4>1
    <3> QED BY <1>4, <3>1
  <2>3. i = j /\ \A k \in 1..i : t[k] = s[k]
    BY <1>8, <2>1, <2>2 DEF Alike
  <2> QED BY <2>2, <2>3
<1>9. ASSUME Alike(t, t) PROVE Alike(u, u)
  <2>1. SUFFICES ASSUME NEW i \in 1..Len(u), NEW j \in 1..Len(u), u[i].id = u[j].id
                 PROVE  i = j
    BY DEF Alike
  <2>2. CASE i \in 1..Len(t) /\ j \in 1..Len(t)
    <3>1. t[i].id = t[j].id
      BY <1>2, <2>1, <2>2
    <3> QED BY <1>9, <2>2, <3>1 DEF Alike
  <2>3. CASE i \in 1..Len(t) /\ j \notin 1..Len(t)
    <3>1. u[j] = r /\ u[i] = t[i]
      BY <1>4, <2>3
    <3> QED BY <1>3, <2>1, <2>3, <3>1 DEF Below
  <2>4. CASE i \notin 1..Len(t) /\ j \in 1..Len(t)
    <3>1. u[i] = r /\ u[j] = t[j]
      BY <1>4, <2>4
    <3> QED BY <1>3, <2>1, <2>4, <3>1 DEF Below
  <2>5. CASE i \notin 1..Len(t) /\ j \notin 1..Len(t)
    BY <1>4, <2>5
  <2> QED BY <2>2, <2>3, <2>4, <2>5
<1> QED BY <1>1, <1>5, <1>6, <1>7, <1>8, <1>9

---------------------------------------------------------------------------
(* What a step does to the thread and to its copies                        *)

\* The rows a request keeps of the thread it loads.
Keeps(kind, m) ==
  \/ kind = "send" /\ m = Len(thread)
  \/ kind = "edit" /\ m < Len(thread) /\ thread[m + 1].role = "user"
  \/ kind = "retry" /\ m = Kept /\ m > 0

\* A request loads the thread.
Loads ==
  \E kind \in {"send", "edit", "retry"}, m \in 0..Len(thread) :
    /\ turn.at = "idle" /\ Keeps(kind, m)
    /\ thread' = SubSeq(thread, 1, m)
    /\ turn'.at = "loaded" /\ turn'.kind = kind /\ turn'.rows = thread'
    /\ UNCHANGED <<nextId, stored, job, sweep>>

\* A request writes its message, unless it is a retry, and becomes active.
Registers ==
  /\ turn.at = "loaded" /\ turn'.at = "active"
  /\ turn'.rows = turn.rows /\ turn'.kind = turn.kind
  /\ \/ turn.kind = "retry" /\ UNCHANGED <<thread, nextId>>
     \/ /\ turn.kind # "retry"
        /\ \E r \in Rows : r.id = nextId /\ r.role = "user" /\ thread' = Append(thread, r)
        /\ nextId' = nextId + 1
  /\ UNCHANGED <<stored, job, sweep>>

\* A turn ends, with a reply or without.
Ends ==
  /\ turn.at = "replying" /\ turn'.at = "idle" /\ turn'.rows = <<>>
  /\ \/ UNCHANGED <<thread, nextId>>
     \/ /\ \E r \in Rows : r.id = nextId /\ r.role = "assistant" /\ thread' = Append(thread, r)
        /\ nextId' = nextId + 1
  /\ UNCHANGED <<stored, job, sweep>>

\* Any other step leaves the thread and the rows of the turn alone.
Tends ==
  /\ UNCHANGED <<thread, nextId>>
  /\ turn'.rows = turn.rows /\ turn'.kind = turn.kind
  /\ turn'.at = turn.at \/ (Active /\ turn'.at \notin {"idle", "loaded"})
  /\ job'.rows \in {job.rows, turn.rows, sweep.rows, <<>>}
  /\ sweep'.rows \in {sweep.rows, thread, <<>>}

\* Settling leaves the rows of the turn and of the sweep alone.
LEMMA SettleTends ==
  ASSUME TypeInv, NEW c \in Comps, Settle(c)
  PROVE  /\ turn'.rows = turn.rows /\ turn'.kind = turn.kind
         /\ turn'.at = turn.at \/ (Active /\ turn'.at \notin {"idle", "loaded"})
         /\ job'.rows = <<>> /\ sweep'.rows = sweep.rows
<1>1. turn \in Turns /\ sweep \in Sweeps
  BY DEF TypeInv
<1>2. job'.rows = <<>>
  BY DEF Settle, NoJob
<1>3. sweep'.rows = sweep.rows
  BY <1>1 DEF Settle, Sweeps
<1>4. CASE turn.at = "waiting"
  <2> DEFINE h == IF c = None THEN turn.history ELSE History(turn.rows, c)
  <2>1. turn' = [turn EXCEPT !.at = "ready", !.history = h, !.failed = (c = None)]
    BY <1>4 DEF Settle
  <2> HIDE DEF h
  <2>2. turn'.rows = turn.rows /\ turn'.kind = turn.kind /\ turn'.at = "ready"
    BY <1>1, <2>1 DEF Turns
  <2> QED BY <1>2, <1>3, <1>4, <2>2 DEF Active
<1>5. CASE turn.at # "waiting"
  BY <1>2, <1>3, <1>5 DEF Settle
<1> QED BY <1>4, <1>5

\* A compaction that is begun reads the rows it is given.
LEMMA BeginTends ==
  ASSUME NEW s, Begin(s)
  PROVE  job'.rows = job.rows \/ job'.rows = s
BY DEF Begin, NoJob

\* The steps of a request are loads and registrations.
LEMMA RequestShape ==
  ASSUME TypeInv
  PROVE  /\ Send \/ Edit \/ Retry => Loads
         /\ (\E size \in Sizes : Register(size)) => Registers
<1>0. /\ thread \in Seq(Rows) /\ Len(thread) \in Nat /\ DOMAIN thread = 1..Len(thread)
      /\ turn \in Turns
  BY RowsAre DEF TypeInv
<1>1. ASSUME NEW kind \in {"send", "edit", "retry"}, NEW m \in 0..Len(thread),
             Keeps(kind, m), Load(kind, SubSeq(thread, 1, m))
      PROVE  Loads
  <2>1. turn'.at = "loaded" /\ turn'.kind = kind /\ turn'.rows = thread'
    BY <1>1 DEF Load, Idle
  <2>2. /\ turn.at = "idle" /\ thread' = SubSeq(thread, 1, m)
        /\ UNCHANGED <<nextId, stored, job, sweep>>
    BY <1>1 DEF Load
  <2> QED BY <1>1, <2>1, <2>2 DEF Loads
<1>2. ASSUME Send PROVE Loads
  <2>1. SubSeq(thread, 1, Len(thread)) = thread
    BY <1>0, SubSeqFull
  <2>2. Len(thread) \in 0..Len(thread)
    BY <1>0
  <2>3. Load("send", SubSeq(thread, 1, Len(thread)))
    BY <1>2, <2>1 DEF Send
  <2> QED BY <1>1, <2>2, <2>3 DEF Keeps
<1>3. ASSUME Edit PROVE Loads
  <2>1. PICK cut \in DOMAIN thread :
          thread[cut].role = "user" /\ Load("edit", SubSeq(thread, 1, cut - 1))
    BY <1>3 DEF Edit
  <2>2. cut - 1 \in 0..Len(thread) /\ cut - 1 < Len(thread) /\ (cut - 1) + 1 = cut
    BY <1>0, <2>1
  <2>3. Keeps("edit", cut - 1)
    BY <2>1, <2>2 DEF Keeps
  <2> QED BY <1>1, <2>1, <2>2, <2>3
<1>4. ASSUME Retry PROVE Loads
  <2>1. Load("retry", SubSeq(thread, 1, Kept)) /\ SubSeq(thread, 1, Kept) # <<>>
    BY <1>4 DEF Retry, Kept
  <2>2. Kept \in Int /\ Kept <= Len(thread)
    BY <1>0, KeptIs
  <2>3. Kept > 0
    <3>1. Kept < 1 => SubSeq(thread, 1, Kept) = <<>>
      BY <2>2, SubSeqEmpty
    <3> QED BY <2>1, <2>2, <3>1
  <2>4. Kept \in 0..Len(thread) /\ Keeps("retry", Kept)
    BY <1>0, <2>2, <2>3 DEF Keeps
  <2> QED BY <1>1, <2>1, <2>4
<1>5. ASSUME NEW size \in Sizes, Register(size) PROVE Registers
  <2> DEFINE h == History(turn.rows, Loaded(turn.rows))
  <2>1. turn' = [turn EXCEPT !.at = "active", !.history = h]
    BY <1>5 DEF Register
  <2> HIDE DEF h
  <2>2. turn'.rows = turn.rows /\ turn'.kind = turn.kind /\ turn'.at = "active"
    BY <1>0, <2>1 DEF Turns
  <2>3. CASE turn.kind = "retry"
    BY <1>5, <2>2, <2>3 DEF Register, Registers
  <2>4. CASE turn.kind # "retry"
    <3>1. thread' = Append(thread, Row("user", size)) /\ nextId' = nextId + 1
          /\ turn.at = "loaded" /\ UNCHANGED <<stored, job, sweep>>
      BY <1>5, <2>4 DEF Register
    <3>2. nextId <= MaxId
      BY <2>4, <3>1 DEF TypeInv
    <3>3. Row("user", size) \in Rows
      BY <3>2, RowType
    <3>4. Row("user", size).id = nextId /\ Row("user", size).role = "user"
      BY DEF Row
    <3> QED BY <2>2, <2>4, <3>1, <3>3, <3>4 DEF Registers
  <2> QED BY <2>3, <2>4
<1> QED BY <1>2, <1>3, <1>4, <1>5

\* The end of a turn.
LEMMA EndShape ==
  ASSUME TypeInv, EndTurn
  PROVE  Ends
<1>1. turn'.at = "idle" /\ turn'.rows = <<>> /\ turn.at = "replying"
      /\ UNCHANGED <<stored, job, sweep>>
  BY DEF EndTurn, Idle
<1>2. CASE UNCHANGED <<thread, nextId>>
  BY <1>1, <1>2 DEF Ends
<1>3. CASE nextId <= MaxId /\ thread' = Append(thread, Row("assistant", 1)) /\ nextId' = nextId + 1
  <2>1. 1 \in Sizes \cup {1}
    OBVIOUS
  <2>2. Row("assistant", 1) \in Rows
    BY <1>3, <2>1, RowType
  <2>3. Row("assistant", 1).id = nextId /\ Row("assistant", 1).role = "assistant"
    BY DEF Row
  <2> QED BY <1>1, <1>3, <2>2, <2>3 DEF Ends
<1> QED BY <1>2, <1>3 DEF EndTurn

\* The other steps.
LEMMA OtherShape ==
  ASSUME TypeInv,
         \/ CheckTrigger \/ Plan \/ Fail \/ LookForRival \/ Insert \/ Rival
         \/ Prompt \/ SweepRead \/ SweepCompact
  PROVE  Tends
<1>0. /\ turn \in Turns /\ job \in Jobs /\ sweep \in Sweeps /\ job.rows \in Seq(Rows)
      /\ stored \in Seq(Stored) /\ None \in Comps
  BY FieldsAre, NothingIs DEF TypeInv
<1>1. ASSUME NEW c \in Comps, Settle(c), UNCHANGED <<thread, nextId>> PROVE Tends
  BY <1>1, SettleTends DEF Tends
<1>2. CASE CheckTrigger
  <2>1. UNCHANGED <<thread, nextId, sweep>> /\ Active
    BY <1>2 DEF CheckTrigger, Active
  <2>2. job' = job \/ Begin(turn.rows)
    BY <1>2 DEF CheckTrigger
  <2>3. job'.rows = job.rows \/ job'.rows = turn.rows
    BY <2>2, BeginTends
  <2>4. turn'.rows = turn.rows /\ turn'.kind = turn.kind /\ turn'.at \in {"waiting", "ready"}
    BY <1>0, <1>2 DEF CheckTrigger, Turns
  <2> QED BY <2>1, <2>3, <2>4 DEF Tends
<1>3. CASE Plan
  <2>1. CASE Settle(None)
    BY <1>0, <1>1, <1>3, <2>1 DEF Plan
  <2>2. CASE ~Settle(None)
    <3>1. UNCHANGED <<turn, sweep, thread, nextId>>
      BY <1>3, <2>2 DEF Plan
    <3>2. job'.rows = job.rows
      BY <1>0, <1>3, <2>2 DEF Plan, Jobs
    <3> QED BY <3>1, <3>2 DEF Tends
  <2> QED BY <2>1, <2>2
<1>4. CASE Fail
  BY <1>0, <1>1, <1>4 DEF Fail
<1>5. CASE LookForRival
  <2>1. CASE Superseded(job.rows)
    <3>1. Settle(Loaded(job.rows)) /\ UNCHANGED <<thread, nextId>>
      BY <1>5, <2>1 DEF LookForRival
    <3>2. Loaded(job.rows) \in Comps
      BY <1>0, LoadedIs
    <3> QED BY <1>1, <3>1, <3>2
  <2>2. CASE ~Superseded(job.rows)
    <3>1. UNCHANGED <<turn, sweep, thread, nextId>>
      BY <1>5, <2>2 DEF LookForRival
    <3>2. job'.rows = job.rows
      BY <1>0, <1>5, <2>2 DEF LookForRival, Jobs
    <3> QED BY <3>1, <3>2 DEF Tends
  <2> QED BY <2>1, <2>2
<1>10. CASE Insert
  <2> DEFINE d == [index |-> job.upTo, absorbed |-> Absorbs(job.rows, job.prev, job.upTo),
                   raced |-> job.raced]
  <2>1. Settle(d) /\ UNCHANGED <<thread, nextId>>
    BY <1>10 DEF Insert
  <2>2. d \in Comps
    <3>1. job.upTo \in 0..Len(job.rows)
      BY <1>0, <1>10, RowsAre DEF Insert, TypeInv, Planned
    <3>2. job.prev \in Comps /\ job.upTo \in Nat /\ job.raced \in BOOLEAN
      BY <1>0, FieldsAre
    <3>3. Absorbs(job.rows, job.prev, job.upTo) \in SUBSET RowIds
      BY <1>0, <3>1, <3>2, AbsorbsType
    <3> QED BY <3>2, <3>3 DEF Comps
  <2> HIDE DEF d
  <2> QED BY <1>1, <2>1, <2>2
<1>6. CASE Rival
  BY <1>6 DEF Rival, Tends
<1>7. CASE Prompt
  <2>1. turn'.rows = turn.rows /\ turn'.kind = turn.kind /\ turn'.at = "replying" /\ Active
    BY <1>0, <1>7 DEF Prompt, Turns, Active
  <2> QED BY <1>7, <2>1 DEF Prompt, Tends
<1>8. CASE SweepRead
  <2>1. sweep'.rows = thread
    BY <1>8 DEF SweepRead
  <2> QED BY <1>8, <2>1 DEF SweepRead, Tends
<1>9. CASE SweepCompact
  <2>1. sweep'.rows = <<>> /\ UNCHANGED <<thread, nextId, turn>>
    BY <1>9 DEF SweepCompact
  <2>2. job' = job \/ Begin(sweep.rows)
    BY <1>9 DEF SweepCompact
  <2>3. job'.rows = job.rows \/ job'.rows = sweep.rows
    BY <2>2, BeginTends
  <2> QED BY <2>1, <2>3 DEF Tends
<1> QED BY <1>2, <1>3, <1>4, <1>5, <1>6, <1>7, <1>8, <1>9, <1>10

\* Every step is one of the four.
LEMMA StepShape ==
  ASSUME TypeInv, [Next]_vars
  PROVE  Loads \/ Registers \/ Ends \/ Tends
<1>1. CASE Next
  <2>1. \/ Send \/ Edit \/ Retry \/ \E size \in Sizes : Register(size)
        \/ CheckTrigger \/ Plan \/ Fail \/ LookForRival \/ Insert \/ Rival
        \/ Prompt \/ SweepRead \/ SweepCompact \/ EndTurn
    BY <1>1 DEF Next
  <2> QED BY <2>1, RequestShape, EndShape, OtherShape
<1>2. CASE UNCHANGED vars
  BY <1>2 DEF vars, Tends
<1> QED BY <1>1, <1>2

---------------------------------------------------------------------------
(* The thread and its copies                                               *)

\* A list with the message that was sent after it.
AskedBy(s, t) ==
  /\ Len(t) = Len(s) + 1 /\ t[Len(t)].role = "user"
  /\ \A k \in 1..Len(s) : t[k] = s[k]

\* Replies follow questions, and the rows of a turn are the thread, without
\* the turn's own message when it has been written.
TurnInv ==
  /\ Answered(thread)
  /\ turn.at = "idle" => turn.rows = <<>>
  /\ turn.at = "loaded" \/ (Active /\ turn.kind = "retry") => turn.rows = thread
  /\ Active /\ turn.kind # "retry" => AskedBy(turn.rows, thread)
  /\ turn.at # "idle" /\ turn.kind = "retry" =>
       turn.rows # <<>> /\ turn.rows[Len(turn.rows)].role = "user"

\* The thread of an active turn ends in a question.
LEMMA ActiveAsks ==
  ASSUME TypeInv, TurnInv, Active
  PROVE  thread # <<>> /\ thread[Len(thread)].role = "user"
<1>1. thread \in Seq(Rows) /\ turn.rows \in Seq(Rows) /\ turn \in Turns
  BY FieldsAre DEF TypeInv
<1>2. CASE turn.kind = "retry"
  BY <1>2 DEF TurnInv, Active
<1>3. CASE turn.kind # "retry"
  <2>1. AskedBy(turn.rows, thread) /\ Len(turn.rows) \in Nat
    BY <1>1, <1>3, RowsAre DEF TurnInv
  <2>2. Len(thread) # 0
    BY <2>1 DEF AskedBy
  <2>3. Len(<<>>) = 0
    BY EmptySeq
  <2> QED BY <2>1, <2>2, <2>3 DEF AskedBy
<1> QED BY <1>2, <1>3

\* Cutting a thread short leaves no reply without its question.
LEMMA AnsweredTruncated ==
  ASSUME NEW t \in Seq(Rows), NEW m \in 0..Len(t), Answered(t)
  PROVE  Answered(SubSeq(t, 1, m))
<1>1. PICK u \in Seq(Rows) : u = SubSeq(t, 1, m)
  BY FirstRowsType
<1>2. Len(u) = m /\ (\A i \in 1..m : u[i] = t[i]) /\ m \in Nat /\ Len(t) \in Nat /\ m <= Len(t)
  BY <1>1, FirstRowsType, RowsAre
<1>3. ASSUME NEW i \in 1..Len(u), u[i].role = "assistant" PROVE i > 1 /\ u[i - 1].role = "user"
  <2>1. i \in 1..Len(t) /\ u[i] = t[i]
    BY <1>2
  <2>2. i > 1 /\ t[i - 1].role = "user"
    BY <1>3, <2>1 DEF Answered
  <2>3. i - 1 \in 1..m
    BY <1>2, <2>1, <2>2
  <2> QED BY <1>2, <2>2, <2>3
<1> QED BY <1>1, <1>3 DEF Answered

\* Nor does a new message, or a reply to one.
LEMMA AnsweredExtended ==
  ASSUME NEW t \in Seq(Rows), NEW r \in Rows, Answered(t),
         r.role = "user" \/ (t # <<>> /\ t[Len(t)].role = "user")
  PROVE  Answered(Append(t, r)) /\ (r.role = "user" => AskedBy(t, Append(t, r)))
<1>1. PICK u \in Seq(Rows) : u = Append(t, r)
  BY AppendProperties
<1>2. /\ Len(u) = Len(t) + 1 /\ Len(t) \in Nat
      /\ \A i \in 1..Len(t) : u[i] = t[i]
      /\ u[Len(t) + 1] = r
  BY <1>1, AppendProperties, RowsAre
<1>3. ASSUME NEW i \in 1..Len(u), u[i].role = "assistant" PROVE i > 1 /\ u[i - 1].role = "user"
  <2>1. CASE i \in 1..Len(t)
    <3>1. i > 1 /\ t[i - 1].role = "user"
      BY <1>2, <1>3, <2>1 DEF Answered
    <3>2. i - 1 \in 1..Len(t)
      BY <1>2, <2>1, <3>1
    <3> QED BY <1>2, <3>1, <3>2
  <2>2. CASE i = Len(t) + 1
    <3>1. t # <<>> /\ t[Len(t)].role = "user"
      BY <1>2, <1>3, <2>2
    <3>2. Len(t) > 0
      BY <1>2, <3>1, EmptySeq
    <3>3. i - 1 = Len(t) /\ Len(t) \in 1..Len(t) /\ i > 1
      BY <1>2, <2>2, <3>2
    <3> QED BY <1>2, <3>1, <3>3
  <2> QED BY <1>2, <2>1, <2>2
<1>4. Answered(u)
  BY <1>3 DEF Answered
<1>5. r.role = "user" => AskedBy(t, u)
  BY <1>2 DEF AskedBy
<1> QED BY <1>1, <1>4, <1>5

\* Every step keeps the thread and the turn's rows together.
LEMMA StepKeepsTurnInv ==
  ASSUME TypeInv, TurnInv, [Next]_vars
  PROVE  TurnInv'
<1>0. /\ thread \in Seq(Rows) /\ Len(thread) \in Nat /\ turn \in Turns
      /\ turn.rows \in Seq(Rows) /\ Answered(thread)
  BY RowsAre, FieldsAre DEF TypeInv, TurnInv
<1>1. CASE Loads
  <2>1. PICK kind \in {"send", "edit", "retry"}, m \in 0..Len(thread) :
          /\ turn.at = "idle" /\ Keeps(kind, m)
          /\ thread' = SubSeq(thread, 1, m)
          /\ turn'.at = "loaded" /\ turn'.kind = kind /\ turn'.rows = thread'
    BY <1>1 DEF Loads
  <2>2. Answered(thread')
    BY <1>0, <2>1, AnsweredTruncated
  <2>3. ASSUME kind = "retry"
        PROVE  turn'.rows # <<>> /\ turn'.rows[Len(turn'.rows)].role = "user"
    <3>1. m = Kept /\ m > 0 /\ m \in Nat
      BY <2>1, <2>3 DEF Keeps
    <3>2. m \in 1..m /\ m <= Len(thread)
      BY <1>0, <3>1
    <3>3. Len(thread') = m /\ thread'[m] = thread[m]
      BY <1>0, <2>1, <3>2, FirstRowsType
    <3>4. thread[m].role = "user"
      <4>1. \/ Kept = Len(thread) /\ (thread # <<>> => thread[Len(thread)].role = "user")
            \/ Kept = Len(thread) - 1 /\ thread[Len(thread) - 1].role = "user"
        BY <1>0, RetryRows
      <4>2. thread # <<>>
        BY <3>1, <3>2, EmptySeq
      <4> QED BY <3>1, <4>1, <4>2
    <3>5. thread' # <<>>
      BY <3>1, <3>3, EmptySeq
    <3> QED BY <2>1, <3>3, <3>4, <3>5
  <2> QED BY <2>1, <2>2, <2>3 DEF TurnInv, Active
<1>2. CASE Registers
  <2>1. /\ turn.at = "loaded" /\ turn'.at = "active" /\ turn.rows = thread
        /\ turn'.rows = turn.rows /\ turn'.kind = turn.kind
    BY <1>2 DEF Registers, TurnInv
  <2>2. CASE turn.kind = "retry" /\ UNCHANGED <<thread, nextId>>
    BY <2>1, <2>2 DEF TurnInv, Active
  <2>3. CASE turn.kind # "retry" /\ \E r \in Rows : r.role = "user" /\ thread' = Append(thread, r)
    <3>1. PICK r \in Rows : r.role = "user" /\ thread' = Append(thread, r)
      BY <2>3
    <3>2. Answered(thread') /\ AskedBy(turn'.rows, thread')
      BY <1>0, <2>1, <3>1, AnsweredExtended
    <3> QED BY <2>1, <2>3, <3>2 DEF TurnInv, Active
  <2> QED BY <1>2, <2>2, <2>3 DEF Registers
<1>3. CASE Ends
  <2>1. turn'.at = "idle" /\ turn'.rows = <<>> /\ Active
    BY <1>3 DEF Ends, Active
  <2>2. Answered(thread')
    <3>1. CASE UNCHANGED <<thread, nextId>>
      BY <1>0, <3>1
    <3>2. CASE \E r \in Rows : thread' = Append(thread, r)
      BY <1>0, <2>1, <3>2, ActiveAsks, AnsweredExtended
    <3> QED BY <1>3, <3>1, <3>2 DEF Ends
  <2> QED BY <2>1, <2>2 DEF TurnInv, Active
<1>4. CASE Tends
  BY <1>4 DEF Tends, TurnInv, Active
<1> QED BY <1>1, <1>2, <1>3, <1>4, StepShape

\* The turn's rows and the thread agree in every state.
LEMMA TurnInvHolds == Spec => []TurnInv
<1>1. Init => TurnInv
  <2> SUFFICES ASSUME Init PROVE TurnInv
    OBVIOUS
  <2>1. thread = <<>> /\ turn.at = "idle" /\ turn.rows = <<>>
    BY DEF Init, Idle
  <2>2. Answered(<<>>)
    <3>1. Len(<<>>) = 0
      BY EmptySeq
    <3> QED BY <3>1 DEF Answered
  <2> QED BY <2>1, <2>2 DEF TurnInv, Active
<1>2. TypeInv /\ TurnInv /\ [Next]_vars => TurnInv'
  BY StepKeepsTurnInv
<1> QED BY <1>1, <1>2, TypesHold, PTL DEF Spec

\* The thread and all that was read of it.
Lists == {thread, turn.rows, job.rows, sweep.rows, <<>>}

\* Ids are given out in order, and rows that two lists share are at the same
\* place, after the same rows.
ListsInv ==
  \A s \in Lists : /\ Below(s, nextId) /\ Ordered(s)
                   /\ \A t \in Lists : Alike(s, t)

\* They are lists of rows.
LEMMA ListsAre ==
  ASSUME TypeInv
  PROVE  \A s \in Lists : s \in Seq(Rows)
BY FieldsAre, EmptySeq DEF TypeInv, Lists

\* Whatever the thread becomes, the new list goes with the ones there are.
LEMMA ThreadGoesOn ==
  ASSUME TypeInv, ListsInv,
         \/ UNCHANGED <<thread, nextId>>
         \/ UNCHANGED nextId /\ \E m \in 0..Len(thread) : thread' = SubSeq(thread, 1, m)
         \/ nextId' = nextId + 1 /\ \E r \in Rows : r.id = nextId /\ thread' = Append(thread, r)
  PROVE  /\ Below(thread', nextId') /\ Ordered(thread') /\ Alike(thread', thread')
         /\ \A s \in Lists : /\ Below(s, nextId')
                             /\ Alike(s, thread') /\ Alike(thread', s)
<1>0. nextId \in Nat /\ thread \in Lists /\ thread \in Seq(Rows)
  BY DEF TypeInv, Lists
<1>1. CASE UNCHANGED <<thread, nextId>>
  BY <1>0, <1>1 DEF ListsInv
<1>2. CASE UNCHANGED nextId /\ \E m \in 0..Len(thread) : thread' = SubSeq(thread, 1, m)
  <2>1. PICK m \in 0..Len(thread) : thread' = SubSeq(thread, 1, m)
    BY <1>2
  <2>2. ASSUME NEW s \in Lists
        PROVE  /\ Below(thread', nextId) /\ Ordered(thread') /\ Alike(thread', thread')
               /\ Below(s, nextId) /\ Alike(s, thread') /\ Alike(thread', s)
    <3>1. s \in Seq(Rows)
      BY ListsAre
    <3>2. /\ Below(thread, nextId) /\ Ordered(thread) /\ Alike(thread, thread)
          /\ Below(s, nextId) /\ Alike(s, thread) /\ Alike(thread, s)
      BY <1>0 DEF ListsInv
    <3> QED BY <1>0, <2>1, <3>1, <3>2, Truncated
  <2> QED BY <1>0, <1>2, <2>2
<1>3. CASE nextId' = nextId + 1 /\ \E r \in Rows : r.id = nextId /\ thread' = Append(thread, r)
  <2>1. PICK r \in Rows : r.id = nextId /\ thread' = Append(thread, r)
    BY <1>3
  <2>2. ASSUME NEW s \in Lists
        PROVE  /\ Below(thread', nextId + 1) /\ Ordered(thread') /\ Alike(thread', thread')
               /\ Below(s, nextId + 1) /\ Alike(s, thread') /\ Alike(thread', s)
    <3>1. s \in Seq(Rows)
      BY ListsAre
    <3>2. /\ Below(thread, r.id) /\ Ordered(thread) /\ Alike(thread, thread)
          /\ Below(s, r.id) /\ Alike(s, thread) /\ Alike(thread, s)
      BY <1>0, <2>1 DEF ListsInv
    <3> QED BY <1>0, <2>1, <3>1, <3>2, Extended
  <2> QED BY <1>0, <1>3, <2>2
<1> QED BY <1>1, <1>2, <1>3

\* Every list after a step was there before it, or is the new thread.
LEMMA ListsStep ==
  ASSUME TypeInv, [Next]_vars
  PROVE  /\ \A s \in Lists' : s \in Lists \/ s = thread'
         /\ \/ UNCHANGED <<thread, nextId>>
            \/ UNCHANGED nextId /\ \E m \in 0..Len(thread) : thread' = SubSeq(thread, 1, m)
            \/ nextId' = nextId + 1 /\ \E r \in Rows : r.id = nextId /\ thread' = Append(thread, r)
<1>1. CASE Loads
  BY <1>1 DEF Loads, Lists
<1>2. CASE Registers
  BY <1>2 DEF Registers, Lists
<1>3. CASE Ends
  BY <1>3 DEF Ends, Lists
<1>4. CASE Tends
  BY <1>4 DEF Tends, Lists
<1> QED BY <1>1, <1>2, <1>3, <1>4, StepShape

\* Every step keeps the lists alike.
LEMMA StepKeepsLists ==
  ASSUME TypeInv, ListsInv, [Next]_vars
  PROVE  ListsInv'
<1>1. ASSUME NEW s \in Lists', NEW t \in Lists'
      PROVE  Below(s, nextId') /\ Ordered(s) /\ Alike(s, t)
  <2>1. (s \in Lists \/ s = thread') /\ (t \in Lists \/ t = thread')
    BY ListsStep
  <2>2. /\ Below(thread', nextId') /\ Ordered(thread') /\ Alike(thread', thread')
        /\ \A l \in Lists : Below(l, nextId') /\ Alike(l, thread') /\ Alike(thread', l)
    BY ListsStep, ThreadGoesOn
  <2>3. \A l \in Lists, k \in Lists : Ordered(l) /\ Alike(l, k)
    BY DEF ListsInv
  <2> QED BY <2>1, <2>2, <2>3
<1> QED BY <1>1 DEF ListsInv

\* The lists are alike in every state.
LEMMA ListsHold == Spec => []ListsInv
<1>1. Init => ListsInv
  <2> SUFFICES ASSUME Init PROVE ListsInv
    OBVIOUS
  <2>1. Lists = {<<>>}
    BY DEF Init, Lists, Idle, NoJob
  <2>2. Len(<<>>) = 0
    BY EmptySeq
  <2> QED BY <2>1, <2>2 DEF ListsInv, Below, Ordered, Alike
<1>2. TypeInv /\ ListsInv /\ [Next]_vars => ListsInv'
  BY StepKeepsLists
<1> QED BY <1>1, <1>2, TypesHold, PTL DEF Spec

---------------------------------------------------------------------------
(* What is stored, and what is being summarised                            *)

\* The ids of the first rows.
First(s, k) == {s[i].id : i \in 1..k}

\* The newest compaction has absorbed its boundary row and all before it, in
\* every list that has that row.
NewestInv ==
  stored # <<>> =>
    /\ Last(stored).boundary < nextId
    /\ \A s \in Lists : \A p \in 1..Len(s) :
         s[p].id = Last(stored).boundary => Last(stored).absorbed = First(s, p)

\* A summary has room beside the kept tail, what limits.ts:103 means the clamp of
\* Keep to half the trigger to see to: without it a compaction may leave the
\* prompt over the trigger, and be run again on a tail that fits.
Roomy == SummarySize + Keep < Trigger

\* The compaction in flight goes on from where the one it read ended, leaves a
\* tail that fits and, when nothing was stored since it was begun, cuts between
\* turns.  One that found no rival reaches as far as what it then found.
JobInv ==
  /\ job.from <= Len(stored)
  /\ job.at = "plan" /\ Len(stored) = job.from => Replayed(job.rows) >= Trigger
  /\ job.at = "insert" =>
       /\ job.looked <= Len(stored)
       /\ job.looked > 0 /\ stored[job.looked].boundary \in Ids(job.rows)
            => stored[job.looked].boundary <= job.rows[job.upTo].id
  /\ job.at \in Planned =>
       /\ job.prev.index < job.upTo
       /\ job.prev.absorbed = First(job.rows, job.prev.index)
       /\ Tokens(From(job.rows, job.upTo + 1)) <= Keep
       /\ Len(stored) = job.from => job.prev = Loaded(job.rows)
       /\ Roomy /\ ~job.raced => Whole(job.rows, job.upTo)

\* The first rows of a list that goes on the same way are the same.
LEMMA FirstSame ==
  ASSUME NEW s, NEW t, NEW p \in Nat, \A k \in 1..p : s[k] = t[k]
  PROVE  First(s, p) = First(t, p)
BY DEF First

\* A compaction absorbs the rows up to its boundary, on top of the first ones.
LEMMA AbsorbsFirst ==
  ASSUME NEW s \in Seq(Rows), NEW c \in Comps, NEW u \in 0..Len(s), c.index <= u,
         c.absorbed = First(s, c.index)
  PROVE  Absorbs(s, c, u) = First(s, u)
<1>1. c.index \in Nat /\ Len(s) \in Nat /\ u \in Nat /\ u <= Len(s)
  BY FieldsAre, RowsAre
<1> DEFINE a == c.index
           t == SubSeq(s, a + 1, u)
<1>2. /\ t \in Seq(Rows)
      /\ Len(t) = IF a + 1 <= u THEN u - (a + 1) + 1 ELSE 0
      /\ \A i \in 1..(u - (a + 1) + 1) : t[i] = s[a + 1 + i - 1]
  <2>1. a + 1 \in Int /\ u \in Int
    BY <1>1
  <2>2. \A j \in (a + 1)..u : s[j] \in Rows
    <3>1. \A j \in (a + 1)..u : j \in 1..Len(s)
      BY <1>1
    <3> QED BY <3>1, RowsAre
  <2> QED BY <2>1, <2>2, SubSeqProperties
<1>3. Len(t) = u - a /\ \A i \in 1..(u - a) : t[i] = s[a + i]
  <2>1. u - (a + 1) + 1 = u - a /\ \A i \in 1..(u - a) : a + 1 + i - 1 = a + i
    BY <1>1
  <2>2. Len(t) = u - a
    BY <1>1, <1>2
  <2> QED BY <1>2, <2>1, <2>2
<1>4. Ids(t) = {t[i].id : i \in 1..(u - a)}
  BY <1>2, <1>3, IdsAre
<1> HIDE DEF t
<1>5. First(s, u) \subseteq First(s, a) \cup Ids(t)
  <2>1. SUFFICES ASSUME NEW i \in 1..u PROVE s[i].id \in First(s, a) \cup Ids(t)
    BY DEF First
  <2>2. CASE i <= a
    <3>1. i \in 1..a
      BY <1>1, <2>2
    <3> QED BY <3>1 DEF First
  <2>3. CASE ~(i <= a)
    <3>1. i - a \in 1..(u - a) /\ a + (i - a) = i
      BY <1>1, <2>3
    <3>2. t[i - a] = s[i]
      BY <1>3, <3>1
    <3> QED BY <1>4, <3>1, <3>2
  <2> QED BY <2>2, <2>3
<1>6. First(s, a) \subseteq First(s, u)
  <2>1. \A i \in 1..a : i \in 1..u
    BY <1>1
  <2> QED BY <2>1 DEF First
<1>7. Ids(t) \subseteq First(s, u)
  <2>1. SUFFICES ASSUME NEW i \in 1..(u - a) PROVE t[i].id \in First(s, u)
    BY <1>4
  <2>2. a + i \in 1..u
    BY <1>1
  <2> QED BY <1>3, <2>2 DEF First
<1>8. Absorbs(s, c, u) = First(s, a) \cup Ids(t)
  BY DEF Absorbs, t
<1> QED BY <1>5, <1>6, <1>7, <1>8

\* What is loaded has absorbed the rows up to its index.
LEMMA LoadedFirst ==
  ASSUME TypeInv, NewestInv, NEW s \in Lists
  PROVE  Loaded(s).absorbed = First(s, Loaded(s).index)
<1>1. s \in Seq(Rows) /\ stored \in Seq(Stored)
  BY ListsAre DEF TypeInv
<1>2. CASE Loaded(s) = None
  <2>1. First(s, 0) = {}
    BY DEF First
  <2> QED BY <1>2, <2>1 DEF None
<1>3. CASE Loaded(s) # None
  BY <1>1, <1>3, LoadedIs DEF NewestInv
<1> QED BY <1>2, <1>3

\* What is stored or planned cuts between turns when it was decided on from
\* the compaction it goes on from.
LEMMA PlannedIsWhole ==
  ASSUME TypeInv, NEW s \in Seq(Rows), Replayed(s) >= Trigger, Roomy,
         Boundary(s, Loaded(s).index) > Loaded(s).index
  PROVE  Whole(s, Boundary(s, Loaded(s).index))
<1>1. stored \in Seq(Stored)
  BY DEF TypeInv
<1>2. PICK c \in Comps : c = Loaded(s)
  BY <1>1, LoadedIs
<1>3. c.index \in 0..Len(s) /\ c.index \in Nat /\ Len(s) \in Nat
  BY <1>1, <1>2, LoadedIs, RowsAre, FieldsAre
<1>4. Replayed(s) = (IF c.absorbed = {} THEN 0 ELSE SummarySize) + Tokens(From(s, c.index + 1))
  BY <1>2 DEF Replayed, Weight, History
<1>5. Tokens(From(s, c.index + 1)) \in Nat
  BY <1>3, FromType, TokensAreNat
<1>6. Tokens(From(s, c.index + 1)) > Keep
  BY <1>4, <1>5 DEF Roomy
<1> QED BY <1>2, <1>3, <1>6, BoundaryIsWhole

\* The last of an extended sequence.
LEMMA LastAppended ==
  ASSUME NEW c \in Stored, stored \in Seq(Stored)
  PROVE  /\ Last(Append(stored, c)) = c /\ Append(stored, c) # <<>>
         /\ Len(Append(stored, c)) = Len(stored) + 1
BY AppendProperties DEF Last

\* What a compaction that completes stores.
Completes(c) ==
  /\ job.at = "insert"
  /\ c \in Stored /\ stored' = Append(stored, c)
  /\ c.boundary = job.rows[job.upTo].id /\ c.raced = job.raced
  /\ c.absorbed = Absorbs(job.rows, job.prev, job.upTo)

\* What a rival stores.
Rivals(c) ==
  /\ Replayed(thread) >= Trigger
  /\ Boundary(thread, Loaded(thread).index) > Loaded(thread).index
  /\ c \in Stored /\ stored' = Append(stored, c)
  /\ c.boundary = thread[Boundary(thread, Loaded(thread).index)].id
  /\ c.raced = Loaded(thread).raced
  /\ c.absorbed = Absorbs(thread, Loaded(thread), Boundary(thread, Loaded(thread).index))

\* Nothing else is ever stored.
LEMMA StoredShape ==
  ASSUME TypeInv, [Next]_vars
  PROVE  \/ UNCHANGED stored
         \/ Insert /\ \E c : Completes(c)
         \/ Rival /\ \E c : Rivals(c)
<1>0. /\ job \in Jobs /\ job.rows \in Seq(Rows) /\ stored \in Seq(Stored)
      /\ thread \in Seq(Rows) /\ job.prev \in Comps /\ job.upTo \in Nat
      /\ job.raced \in BOOLEAN /\ Len(stored) \in Nat
  BY FieldsAre, LenProperties DEF TypeInv
<1>1. CASE Insert
  <2> DEFINE sum == Absorbs(job.rows, job.prev, job.upTo)
             c == [boundary |-> job.rows[job.upTo].id, absorbed |-> sum, raced |-> job.raced]
  <2>1. stored' = Append(stored, c) /\ job.at = "insert"
    BY <1>1 DEF Insert
  <2>2. job.upTo \in 1..Len(job.rows) /\ job.upTo \in 0..Len(job.rows)
    BY <1>0, <2>1, RowsAre DEF TypeInv, Planned
  <2>3. sum \in SUBSET RowIds /\ job.rows[job.upTo].id \in RowIds
    BY <1>0, <2>2, AbsorbsType, RowsAre
  <2>4. c \in Stored
    <3> HIDE DEF sum
    <3> QED BY <1>0, <2>3 DEF Stored
  <2>5. Completes(c)
    BY <1>1, <2>1, <2>4 DEF Completes
  <2> HIDE DEF c
  <2> QED BY <1>1, <2>5
<1>2. CASE Rival
  <2> DEFINE prev == Loaded(thread)
             upTo == Boundary(thread, prev.index)
             c == [boundary |-> thread[upTo].id, absorbed |-> Absorbs(thread, prev, upTo),
                   raced |-> prev.raced]
  <2>1. prev \in Comps /\ prev.index \in 0..Len(thread) /\ prev.raced \in BOOLEAN
    BY <1>0, LoadedIs, FieldsAre
  <2>2. upTo > prev.index /\ stored' = Append(stored, c) /\ Replayed(thread) >= Trigger
    BY <1>2 DEF Rival
  <2>3. upTo \in 1..Len(thread)
    BY <1>0, <2>1, <2>2, BoundaryIs
  <2>4. upTo \in 0..Len(thread) /\ thread[upTo].id \in RowIds
    BY <1>0, <2>3, RowsAre
  <2>5. Absorbs(thread, prev, upTo) \in SUBSET RowIds
    <3> HIDE DEF prev, upTo
    <3> QED BY <1>0, <2>1, <2>4, AbsorbsType
  <2>6. c \in Stored
    <3> HIDE DEF prev, upTo
    <3> QED BY <2>1, <2>4, <2>5 DEF Stored
  <2>7. Rivals(c)
    BY <2>2, <2>6 DEF Rivals
  <2> HIDE DEF c
  <2> QED BY <1>2, <2>7
<1>3. CASE ~Insert /\ ~Rival
  <2>1. CASE Next
    <3>1. CASE LookForRival
      BY <3>1 DEF LookForRival
    <3>2. CASE Send \/ Edit \/ Retry
      BY <3>2 DEF Send, Edit, Retry, Load
    <3>3. CASE \E size \in Sizes : Register(size)
      BY <3>3 DEF Register
    <3>4. CASE CheckTrigger \/ Plan \/ Fail
      BY <3>4 DEF CheckTrigger, Plan, Fail
    <3>5. CASE Prompt \/ EndTurn \/ SweepRead \/ SweepCompact
      BY <3>5 DEF Prompt, EndTurn, SweepRead, SweepCompact
    <3> QED BY <1>3, <2>1, <3>1, <3>2, <3>3, <3>4, <3>5 DEF Next
  <2>2. CASE UNCHANGED vars
    BY <2>2 DEF vars
  <2> QED BY <2>1, <2>2
<1> QED BY <1>1, <1>2, <1>3

\* A compaction that has absorbed the rows up to its boundary in one list has
\* done so in all.
LEMMA NewestIsFirst ==
  ASSUME TypeInv, ListsInv, NEW l \in Lists, NEW u \in 1..Len(l),
         NEW s \in Lists, NEW p \in 1..Len(s), s[p].id = l[u].id
  PROVE  p = u /\ First(l, u) = First(s, p) /\ \A k \in 1..u : l[k] = s[k]
<1>1. Alike(l, s)
  BY DEF ListsInv
<1>2. p = u /\ \A k \in 1..u : l[k] = s[k]
  BY <1>1 DEF Alike
<1>3. u \in Nat
  BY ListsAre, RowsAre
<1> QED BY <1>2, <1>3, FirstSame

\* A new compaction is of the rows up to its boundary.
LEMMA NewestStored ==
  ASSUME TypeInv, ListsInv, NEW l \in Lists, NEW u \in 1..Len(l), NEW c \in Stored,
         stored' = Append(stored, c), c.boundary = l[u].id, c.absorbed = First(l, u),
         \A s \in Lists' : s \in Lists, nextId' = nextId
  PROVE  NewestInv'
<1>1. Last(stored') = c
  BY LastAppended DEF TypeInv
<1>2. c.boundary < nextId
  BY DEF ListsInv, Below
<1>3. ASSUME NEW s \in Lists', NEW p \in 1..Len(s), s[p].id = c.boundary
      PROVE  c.absorbed = First(s, p)
  BY <1>3, NewestIsFirst
<1> QED BY <1>1, <1>2, <1>3 DEF NewestInv

\* What is in flight or stored stays what it says, step by step: the newest.
LEMMA StepKeepsNewest ==
  ASSUME TypeInv, ListsInv, NewestInv, JobInv, [Next]_vars
  PROVE  NewestInv'
<1>0. /\ stored \in Seq(Stored) /\ thread \in Seq(Rows) /\ nextId \in Nat
      /\ job \in Jobs /\ job.rows \in Seq(Rows) /\ job.prev \in Comps /\ Len(thread) \in Nat
  BY FieldsAre, RowsAre DEF TypeInv
<1>1. CASE UNCHANGED stored
  <2>1. SUFFICES ASSUME stored # <<>>
                 PROVE  /\ Last(stored).boundary < nextId'
                        /\ \A s \in Lists' : \A p \in 1..Len(s) :
                             s[p].id = Last(stored).boundary
                               => Last(stored).absorbed = First(s, p)
    BY <1>1 DEF NewestInv
  <2> DEFINE b == Last(stored).boundary
             a == Last(stored).absorbed
  <2>2. b < nextId /\ \A s \in Lists : \A p \in 1..Len(s) : s[p].id = b => a = First(s, p)
    BY <2>1 DEF NewestInv
  <2>3. b \in Nat
    <3>1. Len(stored) \in 1..Len(stored)
      BY <1>0, <2>1, EmptySeq, LenProperties
    <3>2. Last(stored) \in Stored
      BY <1>0, <3>1, ElementOfSeq DEF Last
    <3> QED BY <3>2, FieldsAre DEF RowIds
  <2> HIDE DEF a, b
  <2>4. b < nextId'
    <3>1. nextId' = nextId \/ nextId' = nextId + 1
      BY ListsStep
    <3> QED BY <1>0, <2>2, <2>3, <3>1
  <2>5. ASSUME NEW p \in 1..Len(thread'), thread'[p].id = b
        PROVE  a = First(thread', p)
    <3>1. CASE UNCHANGED <<thread, nextId>>
      BY <2>2, <2>5, <3>1 DEF Lists
    <3>2. CASE \E m \in 0..Len(thread) : thread' = SubSeq(thread, 1, m)
      <4>1. PICK m \in 0..Len(thread) : thread' = SubSeq(thread, 1, m)
        BY <3>2
      <4>2. Len(thread') = m /\ \A i \in 1..m : thread'[i] = thread[i]
        BY <1>0, <4>1, FirstRowsType
      <4>3. p \in 1..Len(thread) /\ p \in Nat /\ \A k \in 1..p : thread'[k] = thread[k]
        BY <1>0, <4>2
      <4>4. thread[p].id = b
        BY <2>5, <4>2
      <4>5. a = First(thread, p)
        BY <2>2, <4>3, <4>4 DEF Lists
      <4> QED BY <4>3, <4>5, FirstSame
    <3>3. CASE nextId' = nextId + 1 /\ \E r \in Rows : r.id = nextId /\ thread' = Append(thread, r)
      <4>1. PICK r \in Rows : r.id = nextId /\ thread' = Append(thread, r)
        BY <3>3
      <4>2. /\ Len(thread') = Len(thread) + 1
            /\ \A i \in 1..Len(thread) : thread'[i] = thread[i]
            /\ thread'[Len(thread) + 1] = r
        BY <1>0, <4>1, AppendProperties
      <4>3. p # Len(thread) + 1
        BY <1>0, <2>2, <2>3, <2>5, <4>1, <4>2
      <4>4. p \in 1..Len(thread) /\ p \in Nat
        BY <1>0, <4>2, <4>3
      <4>5. \A k \in 1..p : thread'[k] = thread[k]
        BY <1>0, <4>2, <4>4
      <4>6. thread[p].id = b
        BY <2>5, <4>2, <4>4
      <4>7. a = First(thread, p)
        BY <2>2, <4>4, <4>6 DEF Lists
      <4> QED BY <4>4, <4>5, <4>7, FirstSame
    <3> QED BY <3>1, <3>2, <3>3, ListsStep
  <2>6. ASSUME NEW s \in Lists', NEW p \in 1..Len(s), s[p].id = b
        PROVE  a = First(s, p)
    BY <2>2, <2>5, <2>6, ListsStep
  <2> QED BY <2>4, <2>6 DEF a, b
<1>2. ASSUME Insert, NEW c, Completes(c) PROVE NewestInv'
  <2>1. Tends
    BY <1>2, OtherShape
  <2>2. (\A s \in Lists' : s \in Lists) /\ nextId' = nextId
    BY <2>1 DEF Tends, Lists
  <2>3. job.upTo \in 1..Len(job.rows) /\ job.upTo \in 0..Len(job.rows)
        /\ job.prev.index <= job.upTo /\ job.prev.absorbed = First(job.rows, job.prev.index)
    <3>1. job.upTo \in 1..Len(job.rows) /\ job.prev.index < job.upTo
          /\ job.prev.absorbed = First(job.rows, job.prev.index)
      BY <1>2 DEF Completes, JobInv, TypeInv, Planned
    <3>2. job.prev.index \in Nat /\ Len(job.rows) \in Nat
      BY <1>0, FieldsAre, RowsAre
    <3> QED BY <3>1, <3>2
  <2>4. Absorbs(job.rows, job.prev, job.upTo) = First(job.rows, job.upTo)
    BY <1>0, <2>3, AbsorbsFirst
  <2>5. job.rows \in Lists
    BY DEF Lists
  <2> QED BY <1>2, <2>2, <2>3, <2>4, <2>5, NewestStored DEF Completes
<1>3. ASSUME Rival, NEW c, Rivals(c) PROVE NewestInv'
  <2>1. Tends
    BY <1>3, OtherShape
  <2>2. (\A s \in Lists' : s \in Lists) /\ nextId' = nextId
    BY <2>1 DEF Tends, Lists
  <2>3. thread \in Lists
    BY DEF Lists
  <2>4. PICK d \in Comps : d = Loaded(thread)
    BY <1>0, LoadedIs
  <2>5. PICK u \in Int : u = Boundary(thread, d.index)
    <3>1. Boundary(thread, d.index) \in {0, Len(thread), CutAt(thread) - 1}
      BY DEF Boundary
    <3>2. CutAt(thread) \in 1..(Len(thread) + 1)
      BY <1>0, CutIs
    <3>3. CutAt(thread) - 1 \in Int
      BY <3>2
    <3> QED BY <1>0, <3>1, <3>3
  <2>6. d.index \in 0..Len(thread) /\ u > d.index /\ d.absorbed = First(thread, d.index)
    BY <1>0, <1>3, <2>3, <2>4, <2>5, LoadedIs, LoadedFirst DEF Rivals
  <2>7. u \in 1..Len(thread)
    BY <1>0, <2>5, <2>6, BoundaryIs
  <2>8. u \in 0..Len(thread) /\ d.index <= u
    BY <1>0, <2>6, <2>7
  <2>9. Absorbs(thread, d, u) = First(thread, u)
    BY <1>0, <2>6, <2>8, AbsorbsFirst
  <2>10. c \in Stored /\ stored' = Append(stored, c) /\ c.boundary = thread[u].id
         /\ c.absorbed = First(thread, u)
    BY <1>3, <2>4, <2>5, <2>9 DEF Rivals
  <2> QED BY <2>2, <2>3, <2>7, <2>10, NewestStored
<1> QED BY <1>1, <1>2, <1>3, StoredShape

\* What was read of the stored compactions is read again while none is added.
LEMMA LoadedSame ==
  ASSUME UNCHANGED stored, NEW s
  PROVE  Loaded(s)' = Loaded(s)
BY DEF Loaded

\* A compaction that is begun over the trigger keeps the invariant.
LEMMA BeginKeepsJobInv ==
  ASSUME TypeInv, JobInv, NEW s \in Seq(Rows), Replayed(s) >= Trigger, Begin(s),
         UNCHANGED stored
  PROVE  JobInv'
<1>1. Len(stored) \in Nat
  BY LenProperties DEF TypeInv
<1>2. CASE job.at = "none"
  <2>1. job' = [NoJob EXCEPT !.at = "plan", !.rows = s, !.from = Len(stored)]
    BY <1>2 DEF Begin
  <2>2. job'.at = "plan" /\ job'.rows = s /\ job'.from = Len(stored)
    BY <2>1 DEF NoJob
  <2>3. Replayed(job.rows)' = Replayed(s)
    BY <2>2 DEF Replayed, Loaded
  <2> QED BY <1>1, <2>2, <2>3 DEF JobInv, Planned
<1>3. CASE job.at # "none"
  <2>1. job' = job
    BY <1>3 DEF Begin
  <2> QED BY <2>1 DEF JobInv, Replayed, Loaded
<1> QED BY <1>2, <1>3

\* A compaction that has settled keeps the invariant.
LEMMA SettleKeepsJobInv ==
  ASSUME TypeInv, JobInv, NEW c, Settle(c),
         UNCHANGED stored \/ \E d \in Stored : stored' = Append(stored, d)
  PROVE  JobInv'
<1>1. job' = NoJob
  BY DEF Settle
<1>2. job'.at = "none" /\ job'.from = 0
  BY <1>1 DEF NoJob
<1>3. stored' \in Seq(Stored)
  BY AppendProperties DEF TypeInv
<1>4. Len(stored') \in Nat
  BY <1>3, LenProperties
<1> QED BY <1>2, <1>4 DEF JobInv, Planned

\* A plan goes on from the compaction it reads.
LEMMA PlanKeepsJobInv ==
  ASSUME TypeInv, NewestInv, JobInv, Plan
  PROVE  JobInv'
<1>0. /\ stored \in Seq(Stored) /\ job \in Jobs /\ job.rows \in Seq(Rows)
      /\ Len(job.rows) \in Nat /\ Len(stored) \in Nat /\ job.from \in Nat
      /\ job.rows \in Lists
  BY FieldsAre, RowsAre, LenProperties DEF TypeInv, Lists
<1>1. PICK c \in Comps : c = Loaded(job.rows)
  BY <1>0, LoadedIs
<1>2. c.index \in 0..Len(job.rows) /\ c.absorbed = First(job.rows, c.index)
      /\ c.raced \in BOOLEAN /\ c.index \in Nat
  BY <1>0, <1>1, LoadedIs, LoadedFirst, FieldsAre
<1>3. PICK u \in Int : u = Boundary(job.rows, c.index)
  <2>1. Boundary(job.rows, c.index) \in {0, Len(job.rows), CutAt(job.rows) - 1}
    BY DEF Boundary
  <2>2. CutAt(job.rows) \in 1..(Len(job.rows) + 1)
    BY <1>0, CutIs
  <2>3. CutAt(job.rows) - 1 \in Int
    BY <2>2
  <2> QED BY <1>0, <2>1, <2>3
<1>4. CASE u <= c.index
  <2>1. Settle(None) /\ UNCHANGED stored
    BY <1>1, <1>3, <1>4 DEF Plan
  <2> QED BY <2>1, SettleKeepsJobInv
<1>5. CASE ~(u <= c.index)
  <2>1. job' = [job EXCEPT !.at = "summarise", !.prev = c, !.upTo = u,
                           !.raced = (c.raced \/ Len(stored) > job.from)]
        /\ UNCHANGED stored
    BY <1>1, <1>3, <1>5 DEF Plan
  <2>2. /\ job'.at = "summarise" /\ job'.prev = c /\ job'.upTo = u
        /\ job'.raced = (c.raced \/ Len(stored) > job.from)
        /\ job'.rows = job.rows /\ job'.from = job.from
    BY <1>0, <2>1 DEF Jobs
  <2>3. c.index < u /\ u > c.index
    BY <1>2, <1>5
  <2>4. Tokens(From(job.rows, u + 1)) <= Keep
    BY <1>0, <1>2, <1>3, <2>3, BoundaryIs
  <2>5. ASSUME Roomy, ~job'.raced PROVE Whole(job.rows, u)
    <3>1. Len(stored) = job.from
      <4>1. ~(Len(stored) > job.from)
        BY <2>2, <2>5
      <4>2. job.from <= Len(stored)
        BY DEF JobInv
      <4> QED BY <1>0, <4>1, <4>2
    <3>2. Replayed(job.rows) >= Trigger
      BY <3>1 DEF JobInv, Plan
    <3> QED BY <1>0, <1>1, <1>3, <2>3, <2>5, <3>2, PlannedIsWhole
  <2>6. c = Loaded(job.rows)'
    BY <1>1, <2>1, <2>2 DEF Loaded
  <2>7. job.from <= Len(stored)
    BY DEF JobInv
  <2> QED BY <1>2, <2>1, <2>2, <2>3, <2>4, <2>5, <2>6, <2>7 DEF JobInv, Planned
<1> QED BY <1>4, <1>5

\* A compaction that found no rival reaches as far as the newest stored one.
LEMMA LookKeepsJobInv ==
  ASSUME TypeInv, ListsInv, JobInv, LookForRival
  PROVE  JobInv'
<1>0. /\ stored \in Seq(Stored) /\ job \in Jobs /\ job.rows \in Seq(Rows)
      /\ job.rows \in Lists /\ Len(stored) \in Nat /\ job.from \in Nat /\ job.upTo \in Nat
      /\ Len(job.rows) \in Nat
  BY FieldsAre, RowsAre, LenProperties DEF TypeInv, Lists
<1>1. CASE Superseded(job.rows)
  BY <1>1, SettleKeepsJobInv DEF LookForRival
<1>2. CASE ~Superseded(job.rows)
  <2>1. /\ job' = [job EXCEPT !.at = "insert", !.looked = Len(stored)]
        /\ job.at = "summarise" /\ UNCHANGED stored
    BY <1>2 DEF LookForRival
  <2>2. /\ job'.at = "insert" /\ job'.looked = Len(stored) /\ job'.rows = job.rows
        /\ job'.from = job.from /\ job'.prev = job.prev /\ job'.upTo = job.upTo
        /\ job'.raced = job.raced
    BY <1>0, <2>1 DEF Jobs
  <2>3. ASSUME Len(stored) > 0, stored[Len(stored)].boundary \in Ids(job.rows)
        PROVE  stored[Len(stored)].boundary <= job.rows[job.upTo].id
    <3>1. stored # <<>> /\ Last(stored) = stored[Len(stored)]
      BY <1>0, <2>3, EmptySeq DEF Last
    <3>2. PICK d \in Comps : d = Loaded(job.rows)
      BY <1>0, LoadedIs
    <3>3. d.index \in 1..Len(job.rows) /\ job.rows[d.index].id = Last(stored).boundary
      BY <1>0, <2>3, <3>1, <3>2, LoadedIs
    <3>4. d.index < job.upTo
      <4>1. CASE Len(stored) = job.from
        BY <2>1, <3>2, <4>1 DEF JobInv, Planned
      <4>2. CASE Len(stored) # job.from
        <5>1. Len(stored) > job.from
          BY <1>0, <4>2 DEF JobInv
        <5>2. ~(d.index >= job.upTo)
          BY <1>2, <3>2, <5>1 DEF Superseded
        <5> QED BY <1>0, <3>3, <5>2
      <4> QED BY <4>1, <4>2
    <3>5. job.upTo \in 1..Len(job.rows)
      BY <2>1 DEF TypeInv, Planned
    <3>6. job.rows[d.index].id < job.rows[job.upTo].id
      BY <1>0, <3>3, <3>4, <3>5 DEF ListsInv, Ordered
    <3>7. job.rows[d.index].id \in Nat /\ job.rows[job.upTo].id \in Nat
      BY <1>0, <3>3, <3>5, RowsAre
    <3> QED BY <3>1, <3>3, <3>6, <3>7
  <2>4. Loaded(job.rows)' = Loaded(job.rows)
    BY <2>1, <2>2 DEF Loaded
  <2>5. Len(stored') = Len(stored) /\ stored' = stored
    BY <2>1
  <2>6. job.prev.index < job.upTo /\ job.prev.absorbed = First(job.rows, job.prev.index)
        /\ Tokens(From(job.rows, job.upTo + 1)) <= Keep
        /\ (Len(stored) = job.from => job.prev = Loaded(job.rows))
        /\ (Roomy /\ ~job.raced => Whole(job.rows, job.upTo)) /\ job.from <= Len(stored)
    BY <2>1 DEF JobInv, Planned
  <2> QED BY <1>0, <2>2, <2>3, <2>4, <2>5, <2>6 DEF JobInv
<1> QED BY <1>1, <1>2

\* Another process' summary leaves the one in flight as it was.
LEMMA RivalKeepsJobInv ==
  ASSUME TypeInv, JobInv, Rival, NEW c, Rivals(c)
  PROVE  JobInv'
<1>1. stored \in Seq(Stored) /\ Len(stored) \in Nat /\ job.from \in Nat
  BY FieldsAre, LenProperties DEF TypeInv
<1>2. Len(stored') = Len(stored) + 1 /\ job' = job
  BY <1>1, LastAppended DEF Rivals, Rival
<1>3. job.from <= Len(stored') /\ Len(stored') # job.from
  BY <1>1, <1>2 DEF JobInv
<1>4. ASSUME job.at = "insert", job.looked > 0
      PROVE  job.looked <= Len(stored') /\ stored'[job.looked] = stored[job.looked]
  <2>1. job.looked \in 1..Len(stored) /\ c \in Stored /\ stored' = Append(stored, c)
    BY <1>1, <1>4, FieldsAre DEF JobInv, TypeInv, Rivals
  <2> QED BY <1>1, <1>2, <2>1, AppendProperties
<1>5. job.at = "insert" => job.looked <= Len(stored')
  BY <1>1, <1>2, FieldsAre DEF JobInv, TypeInv
<1> QED BY <1>2, <1>3, <1>4, <1>5 DEF JobInv

\* Every step keeps what is said of the compaction in flight.
LEMMA StepKeepsJobInv ==
  ASSUME TypeInv, ListsInv, NewestInv, JobInv, [Next]_vars
  PROVE  JobInv'
<1>0. turn.rows \in Seq(Rows) /\ sweep.rows \in Seq(Rows)
  BY FieldsAre DEF TypeInv
<1>1. CASE Next
  <2>1. CASE Send \/ Edit \/ Retry \/ Prompt \/ EndTurn \/ SweepRead
    <3>1. UNCHANGED <<job, stored>>
      BY <2>1 DEF Send, Edit, Retry, Load, Prompt, EndTurn, SweepRead
    <3> QED BY <3>1 DEF JobInv, Replayed, Loaded
  <2>2. CASE \E size \in Sizes : Register(size)
    <3>1. UNCHANGED <<job, stored>>
      BY <2>2 DEF Register
    <3> QED BY <3>1 DEF JobInv, Replayed, Loaded
  <2>3. CASE CheckTrigger
    <3>1. CASE Replayed(turn.rows) >= Trigger /\ Begin(turn.rows)
      BY <1>0, <2>3, <3>1, BeginKeepsJobInv DEF CheckTrigger
    <3>2. CASE UNCHANGED job
      <4>1. UNCHANGED <<job, stored>>
        BY <2>3, <3>2 DEF CheckTrigger
      <4> QED BY <4>1 DEF JobInv, Replayed, Loaded
    <3> QED BY <2>3, <3>1, <3>2 DEF CheckTrigger
  <2>4. CASE SweepCompact
    <3>1. CASE Replayed(sweep.rows) >= Trigger /\ Begin(sweep.rows)
      BY <1>0, <2>4, <3>1, BeginKeepsJobInv DEF SweepCompact
    <3>2. CASE UNCHANGED job
      <4>1. UNCHANGED <<job, stored>>
        BY <2>4, <3>2 DEF SweepCompact
      <4> QED BY <4>1 DEF JobInv, Replayed, Loaded
    <3> QED BY <2>4, <3>1, <3>2 DEF SweepCompact
  <2>5. CASE Plan
    BY <2>5, PlanKeepsJobInv
  <2>6. CASE Fail
    BY <2>6, SettleKeepsJobInv DEF Fail
  <2>7. CASE LookForRival
    BY <2>7, LookKeepsJobInv
  <2>8. CASE Insert
    <3>1. \E c : Settle(c)
      BY <2>8 DEF Insert
    <3>2. UNCHANGED stored \/ (\E d \in Stored : stored' = Append(stored, d))
      BY StoredShape DEF Completes, Rivals
    <3> QED BY <3>1, <3>2, SettleKeepsJobInv
  <2>9. CASE Rival
    <3>1. CASE UNCHANGED stored
      <4>1. UNCHANGED <<job, stored>>
        BY <2>9, <3>1 DEF Rival
      <4> QED BY <4>1 DEF JobInv, Replayed, Loaded
    <3>2. CASE Insert
      <4>1. \E c : Settle(c)
        BY <3>2 DEF Insert
      <4>2. UNCHANGED stored \/ (\E d \in Stored : stored' = Append(stored, d))
        BY StoredShape DEF Completes, Rivals
      <4> QED BY <4>1, <4>2, SettleKeepsJobInv
    <3>3. CASE \E c : Rivals(c)
      BY <2>9, <3>3, RivalKeepsJobInv
    <3> QED BY <3>1, <3>2, <3>3, StoredShape
  <2> QED BY <1>1, <2>1, <2>2, <2>3, <2>4, <2>5, <2>6, <2>7, <2>8, <2>9 DEF Next
<1>2. CASE UNCHANGED vars
  <2>1. UNCHANGED <<job, stored>>
    BY <1>2 DEF vars
  <2> QED BY <2>1 DEF JobInv, Replayed, Loaded
<1> QED BY <1>1, <1>2

\* The stored and the planned compactions are what they say in every state.
LEMMA CompactionsHold == Spec => [](NewestInv /\ JobInv)
<1>1. Init => NewestInv /\ JobInv
  <2> SUFFICES ASSUME Init PROVE NewestInv /\ JobInv
    OBVIOUS
  <2>1. stored = <<>> /\ job.at = "none" /\ job.from = 0
    BY DEF Init, NoJob
  <2>2. Len(<<>>) = 0
    BY EmptySeq
  <2> QED BY <2>1, <2>2 DEF NewestInv, JobInv, Planned
<1>2. TypeInv /\ ListsInv /\ (NewestInv /\ JobInv) /\ [Next]_vars => (NewestInv /\ JobInv)'
  BY StepKeepsNewest, StepKeepsJobInv
<1> QED BY <1>1, <1>2, TypesHold, ListsHold, PTL DEF Spec

---------------------------------------------------------------------------
(* The boundary advances                                                   *)

\* A compaction that is inserted reaches as far as what it found when it looked.
LEMMA StepAdvances ==
  ASSUME TypeInv, JobInv, [Next]_vars,
         job.at = "insert", job' = NoJob, job.looked > 0,
         stored[job.looked].boundary \in Ids(job.rows)
  PROVE  stored[job.looked].boundary <= Last(stored').boundary
<1>0. job # NoJob /\ stored \in Seq(Stored)
  BY DEF NoJob, TypeInv
<1>1. Insert
  <2>1. CASE Next
    <3>1. CASE \/ Send \/ Edit \/ Retry \/ (\E size \in Sizes : Register(size))
               \/ Prompt \/ EndTurn \/ SweepRead \/ Rival
      BY <1>0, <3>1 DEF Send, Edit, Retry, Load, Register, Prompt, EndTurn, SweepRead, Rival
    <3>2. CASE CheckTrigger \/ SweepCompact
      BY <1>0, <3>2 DEF CheckTrigger, SweepCompact, Begin
    <3>3. CASE Plan \/ Fail \/ LookForRival
      BY <3>3 DEF Plan, Fail, LookForRival
    <3> QED BY <2>1, <3>1, <3>2, <3>3 DEF Next
  <2>2. CASE UNCHANGED vars
    BY <1>0, <2>2 DEF vars
  <2> QED BY <2>1, <2>2
<1>2. Last(stored').boundary = job.rows[job.upTo].id
  <2>1. PICK b : b = [boundary |-> job.rows[job.upTo].id,
                      absorbed |-> Absorbs(job.rows, job.prev, job.upTo), raced |-> job.raced]
    OBVIOUS
  <2>2. stored' = Append(stored, b)
    BY <1>1, <2>1 DEF Insert
  <2>3. Last(Append(stored, b)) = b
    BY <1>0, AppendProperties DEF Last
  <2> QED BY <2>1, <2>2, <2>3
<1> QED BY <1>2 DEF JobInv

\* For every thread, trigger and kept tail: a compaction never covers less than
\* the newest one it found when it looked for a rival, if it knows the row that
\* one reached (compaction.ts:238-247).
THEOREM BoundaryNeverRetreats == Spec => BoundaryAdvances
<1>1. TypeInv /\ JobInv /\ [Next]_vars
        => [(/\ job.at = "insert" /\ job' = NoJob /\ job.looked > 0
             /\ stored[job.looked].boundary \in Ids(job.rows))
             => stored[job.looked].boundary <= Last(stored').boundary]_vars
  BY StepAdvances
<1> QED BY <1>1, TypesHold, CompactionsHold, PTL DEF Spec, BoundaryAdvances

---------------------------------------------------------------------------
(* A turn that waits                                                       *)

\* A turn waits for a compaction of its own rows, unless it joined another's,
\* and of the first of its rows, unless it was lent one of others.
WaitInv ==
  turn.at = "waiting" =>
    /\ job.at # "none"
    /\ ~turn.joined => job.rows = turn.rows
    /\ ~turn.lent => IsPrefix(job.rows, turn.rows)

\* What a list that begins with another shares with it.
LEMMA PrefixIs ==
  ASSUME NEW s \in Seq(Rows), NEW t \in Seq(Rows)
  PROVE  /\ IsPrefix(s, t) => Len(s) <= Len(t) /\ \A k \in 1..Len(s) : s[k] = t[k]
         /\ IsPrefix(s, s)
<1>1. Len(s) \in Nat /\ Len(t) \in Nat
  BY RowsAre
<1>2. ASSUME IsPrefix(s, t)
      PROVE  Len(s) <= Len(t) /\ \A k \in 1..Len(s) : s[k] = t[k]
  <2>1. Len(s) <= Len(t) /\ SubSeq(s, 1, Len(s)) = SubSeq(t, 1, Len(s))
    BY <1>2 DEF IsPrefix
  <2>2. Len(s) \in 0..Len(s) /\ Len(s) \in 0..Len(t)
    BY <1>1, <2>1
  <2>3. \A k \in 1..Len(s) : SubSeq(s, 1, Len(s))[k] = s[k] /\ SubSeq(t, 1, Len(s))[k] = t[k]
    BY <2>2, FirstRowsType
  <2> QED BY <2>1, <2>3
<1>3. IsPrefix(s, s)
  BY <1>1 DEF IsPrefix
<1> QED BY <1>2, <1>3

\* Once its compaction has settled a turn does not wait.
LEMMA SettleAnswers ==
  ASSUME TypeInv, NEW c, Settle(c)
  PROVE  turn'.at # "waiting"
<1>1. turn \in Turns
  BY DEF TypeInv
<1>2. CASE turn.at = "waiting"
  <2> DEFINE h == IF c = None THEN turn.history ELSE History(turn.rows, c)
  <2>1. turn' = [turn EXCEPT !.at = "ready", !.history = h, !.failed = (c = None)]
    BY <1>2 DEF Settle
  <2> HIDE DEF h
  <2> QED BY <1>1, <2>1 DEF Turns
<1>3. CASE turn.at # "waiting"
  BY <1>3 DEF Settle
<1> QED BY <1>2, <1>3

\* A compaction in flight is not begun again.
LEMMA BeginJoins ==
  ASSUME NEW s, Begin(s)
  PROVE  IF job.at = "none" THEN job'.at = "plan" /\ job'.rows = s ELSE job' = job
BY DEF Begin, NoJob

\* A turn that begins to wait knows whose rows it waits for.
LEMMA CheckWaits ==
  ASSUME TypeInv, CheckTrigger
  PROVE  WaitInv'
<1>1. turn \in Turns /\ turn.rows \in Seq(Rows) /\ job.rows \in Seq(Rows)
  BY FieldsAre DEF TypeInv
<1>2. CASE Begin(turn.rows)
           /\ turn' = [turn EXCEPT !.at = "waiting",
                                   !.joined = job.at # "none" /\ job.rows # turn.rows,
                                   !.lent = job.at # "none" /\ ~IsPrefix(job.rows, turn.rows)]
  <2>1. /\ turn'.joined = (job.at # "none" /\ job.rows # turn.rows)
        /\ turn'.lent = (job.at # "none" /\ ~IsPrefix(job.rows, turn.rows))
        /\ turn'.rows = turn.rows
    BY <1>1, <1>2 DEF Turns
  <2>2. CASE job.at = "none"
    <3>1. job'.at = "plan" /\ job'.rows = turn.rows
      BY <1>2, <2>2, BeginJoins
    <3>2. IsPrefix(turn.rows, turn.rows)
      BY <1>1, PrefixIs
    <3>3. IsPrefix(job.rows, turn.rows)'
      BY <2>1, <3>1, <3>2 DEF IsPrefix
    <3> QED BY <2>1, <3>1, <3>3 DEF WaitInv
  <2>3. CASE job.at # "none"
    <3>1. job' = job
      BY <1>2, <2>3, BeginJoins
    <3>2. IsPrefix(job.rows, turn.rows)' = IsPrefix(job.rows, turn.rows)
      BY <2>1, <3>1 DEF IsPrefix
    <3> QED BY <2>1, <2>3, <3>1, <3>2 DEF WaitInv
  <2> QED BY <2>2, <2>3
<1>3. CASE turn' = [turn EXCEPT !.at = "ready",
                      !.late = turn.history # History(turn.rows, Loaded(turn.rows))]
  <2> DEFINE l == turn.history # History(turn.rows, Loaded(turn.rows))
  <2>1. turn' = [turn EXCEPT !.at = "ready", !.late = l]
    BY <1>3
  <2> HIDE DEF l
  <2>2. turn'.at = "ready"
    BY <1>1, <2>1 DEF Turns
  <2> QED BY <2>2 DEF WaitInv
<1> QED BY <1>2, <1>3 DEF CheckTrigger

\* Every step keeps a waiting turn with the compaction it waits for.
LEMMA StepKeepsWait ==
  ASSUME TypeInv, WaitInv, [Next]_vars
  PROVE  WaitInv'
<1>0. turn \in Turns /\ job \in Jobs
  BY DEF TypeInv
<1>a. ASSUME turn' = turn, job'.rows = job.rows, job.at # "none" => job'.at # "none"
      PROVE  WaitInv'
  BY <1>a DEF WaitInv, IsPrefix
<1>b. ASSUME NEW c, Settle(c) PROVE WaitInv'
  BY <1>b, SettleAnswers DEF WaitInv
<1>1. CASE Send \/ Edit \/ Retry
  <2>1. turn'.at = "loaded"
    BY <1>1 DEF Send, Edit, Retry, Load, Idle
  <2> QED BY <2>1 DEF WaitInv
<1>2. CASE \E size \in Sizes : Register(size)
  <2>1. Registers
    BY <1>2, RequestShape
  <2> QED BY <2>1 DEF Registers, WaitInv
<1>3. CASE CheckTrigger
  BY <1>3, CheckWaits
<1>4. CASE Plan
  <2>1. CASE \E c : Settle(c)
    BY <1>b, <2>1
  <2>2. CASE ~\E c : Settle(c)
    <3>1. turn' = turn /\ job'.rows = job.rows /\ job'.at = "summarise"
      BY <1>0, <1>4, <2>2 DEF Plan, Jobs
    <3> QED BY <1>a, <3>1
  <2> QED BY <2>1, <2>2
<1>5. CASE Fail \/ Insert
  BY <1>b, <1>5 DEF Fail, Insert
<1>11. CASE LookForRival
  <2>1. CASE Superseded(job.rows)
    BY <1>b, <1>11, <2>1 DEF LookForRival
  <2>2. CASE ~Superseded(job.rows)
    <3>1. turn' = turn /\ job'.rows = job.rows /\ job'.at = "insert"
      BY <1>0, <1>11, <2>2 DEF LookForRival, Jobs
    <3> QED BY <1>a, <3>1
  <2> QED BY <2>1, <2>2
<1>6. CASE Rival \/ SweepRead
  BY <1>a, <1>6 DEF Rival, SweepRead
<1>7. CASE Prompt
  <2>1. turn'.at = "replying"
    BY <1>0, <1>7 DEF Prompt, Turns
  <2> QED BY <2>1 DEF WaitInv
<1>8. CASE EndTurn
  BY <1>8 DEF EndTurn, Idle, WaitInv
<1>9. CASE SweepCompact
  <2>1. turn' = turn /\ (job' = job \/ Begin(sweep.rows))
    BY <1>9 DEF SweepCompact
  <2>2. CASE job' = job
    BY <1>a, <2>1, <2>2
  <2>3. CASE Begin(sweep.rows)
    <3>1. job.at # "none" => job' = job
      BY <2>3, BeginJoins
    <3> QED BY <1>a, <2>1, <3>1 DEF WaitInv
  <2> QED BY <2>1, <2>2, <2>3
<1>10. CASE UNCHANGED vars
  BY <1>a, <1>10 DEF vars
<1> QED BY <1>1, <1>2, <1>3, <1>4, <1>5, <1>6, <1>7, <1>8, <1>9, <1>10, <1>11 DEF Next

\* A turn that waits is answered by the compaction it waits for.
LEMMA WaitsHold == Spec => []WaitInv
<1>1. Init => WaitInv
  BY DEF Init, Idle, WaitInv
<1>2. TypeInv /\ WaitInv /\ [Next]_vars => WaitInv'
  BY StepKeepsWait
<1> QED BY <1>1, <1>2, TypesHold, PTL DEF Spec

---------------------------------------------------------------------------
(* What follows a row                                                      *)

\* The row at a place has a question after it, or had one that an edit is
\* about to write again.
Followed(i) ==
  \/ i < Len(thread) /\ thread[i + 1].role = "user"
  \/ i = Len(thread) /\ turn.at = "loaded" /\ turn.kind = "edit"

\* A row that any list has a question after is followed, as long as it is
\* there; so is the boundary of the newest compaction, or it is a reply, or it
\* is larger than the kept tail.
FollowInv ==
  /\ \A s \in Lists : \A i \in 1..Len(thread) :
       i < Len(s) /\ s[i + 1].role = "user" /\ s[i].id = thread[i].id => Followed(i)
  /\ Roomy /\ stored # <<>> /\ ~Last(stored).raced =>
       \A i \in 1..Len(thread) : thread[i].id = Last(stored).boundary =>
         thread[i].role = "assistant" \/ thread[i].size > Keep \/ Followed(i)

\* A row that is still there, or that was there before, is the same.
LEMMA OldRows ==
  ASSUME TypeInv, ListsInv, [Next]_vars, NEW i \in 1..Len(thread'), thread'[i].id < nextId
  PROVE  i \in 1..Len(thread) /\ thread'[i] = thread[i]
<1>0. thread \in Seq(Rows) /\ Len(thread) \in Nat /\ nextId \in Nat
  BY RowsAre DEF TypeInv
<1>1. CASE UNCHANGED <<thread, nextId>>
  BY <1>1
<1>2. CASE \E m \in 0..Len(thread) : thread' = SubSeq(thread, 1, m)
  <2>1. PICK m \in 0..Len(thread) : thread' = SubSeq(thread, 1, m)
    BY <1>2
  <2>2. Len(thread') = m /\ \A k \in 1..m : thread'[k] = thread[k]
    BY <1>0, <2>1, FirstRowsType
  <2> QED BY <1>0, <2>2
<1>3. CASE \E r \in Rows : r.id = nextId /\ thread' = Append(thread, r)
  <2>1. PICK r \in Rows : r.id = nextId /\ thread' = Append(thread, r)
    BY <1>3
  <2>2. /\ Len(thread') = Len(thread) + 1
        /\ \A k \in 1..Len(thread) : thread'[k] = thread[k]
        /\ thread'[Len(thread) + 1] = r
    BY <1>0, <2>1, AppendProperties
  <2>3. i # Len(thread) + 1
    BY <1>0, <2>1, <2>2
  <2> QED BY <1>0, <2>2, <2>3
<1> QED BY <1>1, <1>2, <1>3, ListsStep

\* What is followed stays followed while it is there.
LEMMA FollowedStays ==
  ASSUME TypeInv, TurnInv, [Next]_vars,
         NEW i \in 1..Len(thread), i \in 1..Len(thread'), Followed(i)
  PROVE  Followed(i)'
<1>0. /\ thread \in Seq(Rows) /\ Len(thread) \in Nat /\ i \in Nat /\ i <= Len(thread)
      /\ turn \in Turns
  BY RowsAre DEF TypeInv
<1>1. CASE Loads
  <2>1. PICK kind \in {"send", "edit", "retry"}, m \in 0..Len(thread) :
          /\ turn.at = "idle" /\ Keeps(kind, m)
          /\ thread' = SubSeq(thread, 1, m)
          /\ turn'.at = "loaded" /\ turn'.kind = kind
    BY <1>1 DEF Loads
  <2>2. Len(thread') = m /\ (\A k \in 1..m : thread'[k] = thread[k]) /\ m \in Nat /\ i <= m
    BY <1>0, <2>1, FirstRowsType
  <2>3. i < Len(thread) /\ thread[i + 1].role = "user"
    BY <2>1 DEF Followed
  <2>4. CASE i < m
    <3>1. i + 1 \in 1..m
      BY <1>0, <2>2, <2>4
    <3>2. thread'[i + 1].role = "user"
      BY <2>2, <2>3, <3>1
    <3> QED BY <2>2, <2>4, <3>2 DEF Followed
  <2>5. CASE i = m
    <3>1. kind = "edit"
      <4>1. kind # "send"
        BY <1>0, <2>1, <2>3, <2>5 DEF Keeps
      <4>2. kind # "retry"
        <5>1. SUFFICES ASSUME kind = "retry" PROVE FALSE
          OBVIOUS
        <5>2. m = Kept /\ Kept < Len(thread)
          BY <2>1, <2>3, <2>5, <5>1 DEF Keeps
        <5>3. Kept = Len(thread) - 1 /\ thread[Len(thread)].role = "assistant"
          <6>1. \/ Kept = Len(thread)
                \/ Kept = Len(thread) - 1 /\ thread[Len(thread)].role = "assistant"
            BY <1>0, RetryRows DEF TurnInv
          <6> QED BY <1>0, <5>2, <6>1
        <5>4. i + 1 = Len(thread)
          BY <1>0, <2>5, <5>2, <5>3
        <5> QED BY <2>3, <5>3, <5>4
      <4> QED BY <4>1, <4>2
    <3> QED BY <2>1, <2>2, <2>5, <3>1 DEF Followed
  <2> QED BY <1>0, <2>2, <2>4, <2>5
<1>2. ASSUME NEW r \in Rows, thread' = Append(thread, r),
             r.role = "user" \/ ~(turn.at = "loaded")
      PROVE  Followed(i)'
  <2>1. /\ Len(thread') = Len(thread) + 1
        /\ \A k \in 1..Len(thread) : thread'[k] = thread[k]
        /\ thread'[Len(thread) + 1] = r
    BY <1>0, <1>2, AppendProperties
  <2>2. CASE i < Len(thread) /\ thread[i + 1].role = "user"
    <3>1. i + 1 \in 1..Len(thread) /\ i < Len(thread')
      BY <1>0, <2>1, <2>2
    <3> QED BY <2>1, <2>2, <3>1 DEF Followed
  <2>3. CASE i = Len(thread) /\ turn.at = "loaded"
    <3>1. i < Len(thread') /\ thread'[i + 1].role = "user"
      BY <1>0, <1>2, <2>1, <2>3
    <3> QED BY <3>1 DEF Followed
  <2> QED BY <2>2, <2>3 DEF Followed
<1>3. CASE Registers
  <2>1. CASE turn.kind = "retry" /\ UNCHANGED <<thread, nextId>>
    BY <2>1 DEF Followed
  <2>2. CASE \E r \in Rows : r.role = "user" /\ thread' = Append(thread, r)
    BY <1>2, <2>2
  <2> QED BY <1>3, <2>1, <2>2 DEF Registers
<1>4. CASE Ends
  <2>1. CASE UNCHANGED <<thread, nextId>>
    BY <1>4, <2>1 DEF Ends, Followed
  <2>2. CASE \E r \in Rows : thread' = Append(thread, r)
    <3>1. ~(turn.at = "loaded")
      BY <1>4 DEF Ends
    <3> QED BY <1>2, <2>2, <3>1
  <2> QED BY <1>4, <2>1, <2>2 DEF Ends
<1>5. CASE Tends
  <2>1. turn.at = "loaded" => turn'.at = "loaded"
    BY <1>5 DEF Tends, Active
  <2> QED BY <1>5, <2>1 DEF Tends, Followed
<1> QED BY <1>1, <1>3, <1>4, <1>5, StepShape

\* Every step keeps what is said of the lists.
LEMMA ListsStayFollowed ==
  ASSUME TypeInv, TurnInv, ListsInv, FollowInv, [Next]_vars,
         NEW s \in Lists', NEW i \in 1..Len(thread'),
         i < Len(s), s[i + 1].role = "user", s[i].id = thread'[i].id
  PROVE  Followed(i)'
<1>1. CASE s = thread'
  BY <1>1 DEF Followed
<1>2. CASE s \in Lists
  <2>1. s \in Seq(Rows) /\ Len(s) \in Nat
    BY <1>2, ListsAre, RowsAre
  <2>2. i \in 1..Len(s)
    BY <2>1
  <2>3. thread'[i].id < nextId
    BY <1>2, <2>2 DEF ListsInv, Below
  <2>4. i \in 1..Len(thread) /\ thread'[i] = thread[i]
    BY <2>3, OldRows
  <2>5. Followed(i)
    BY <1>2, <2>4 DEF FollowInv
  <2> QED BY <2>4, <2>5, FollowedStays
<1> QED BY <1>1, <1>2, ListsStep

\* A compaction that cuts between turns of a list does so in the thread.
LEMMA WholeIsFollowed ==
  ASSUME TypeInv, ListsInv, FollowInv, NEW s \in Lists, NEW u \in 1..Len(s), Whole(s, u),
         NEW i \in 1..Len(thread), thread[i].id = s[u].id
  PROVE  thread[i].role = "assistant" \/ thread[i].size > Keep \/ Followed(i)
<1>1. thread \in Lists
  BY DEF Lists
<1>2. i = u /\ \A k \in 1..u : s[k] = thread[k]
  BY <1>1, NewestIsFirst
<1>3. u \in 1..u
  BY ListsAre, RowsAre
<1>4. thread[i] = s[u]
  BY <1>2, <1>3
<1>5. CASE u < Len(s) /\ s[u + 1].role = "user"
  BY <1>2, <1>4, <1>5 DEF FollowInv
<1> QED BY <1>4, <1>5 DEF Whole

\* Every step keeps what is said of the newest compaction.
LEMMA NewestStaysFollowed ==
  ASSUME TypeInv, TurnInv, ListsInv, NewestInv, JobInv, FollowInv, [Next]_vars,
         Roomy, stored' # <<>>, ~Last(stored').raced,
         NEW i \in 1..Len(thread'), thread'[i].id = Last(stored').boundary
  PROVE  thread'[i].role = "assistant" \/ thread'[i].size > Keep \/ Followed(i)'
<1>0. /\ stored \in Seq(Stored) /\ thread \in Seq(Rows) /\ job \in Jobs
      /\ job.rows \in Seq(Rows) /\ job.rows \in Lists /\ thread \in Lists
  BY FieldsAre DEF TypeInv, Lists
<1>a. ASSUME thread'[i].id < nextId,
             \A k \in 1..Len(thread) : thread[k].id = Last(stored').boundary =>
               thread[k].role = "assistant" \/ thread[k].size > Keep \/ Followed(k)
      PROVE  thread'[i].role = "assistant" \/ thread'[i].size > Keep \/ Followed(i)'
  <2>1. i \in 1..Len(thread) /\ thread'[i] = thread[i]
    BY <1>a, OldRows
  <2>2. thread[i].role = "assistant" \/ thread[i].size > Keep \/ Followed(i)
    BY <1>a, <2>1
  <2> QED BY <2>1, <2>2, FollowedStays
<1>1. CASE UNCHANGED stored
  BY <1>a, <1>1 DEF FollowInv, NewestInv
<1>2. ASSUME NEW s \in Lists, NEW u \in 1..Len(s), NEW c \in Stored,
             stored' = Append(stored, c), c.boundary = s[u].id, Whole(s, u)
      PROVE  thread'[i].role = "assistant" \/ thread'[i].size > Keep \/ Followed(i)'
  <2>1. Last(stored') = c
    BY <1>0, <1>2, LastAppended
  <2>2. c.boundary < nextId
    BY <1>2 DEF ListsInv, Below
  <2>3. \A k \in 1..Len(thread) : thread[k].id = c.boundary =>
          thread[k].role = "assistant" \/ thread[k].size > Keep \/ Followed(k)
    BY <1>2, WholeIsFollowed
  <2> QED BY <1>a, <2>1, <2>2, <2>3
<1>3. ASSUME NEW c, Completes(c)
      PROVE  thread'[i].role = "assistant" \/ thread'[i].size > Keep \/ Followed(i)'
  <2>1. Last(stored') = c /\ c \in Stored /\ stored' = Append(stored, c)
        /\ c.boundary = job.rows[job.upTo].id /\ c.raced = job.raced /\ job.at = "insert"
    BY <1>0, <1>3, LastAppended DEF Completes
  <2>2. job.upTo \in 1..Len(job.rows) /\ Whole(job.rows, job.upTo)
    BY <2>1 DEF TypeInv, JobInv, Planned
  <2> QED BY <1>0, <1>2, <2>1, <2>2
<1>4. ASSUME NEW c, Rivals(c)
      PROVE  thread'[i].role = "assistant" \/ thread'[i].size > Keep \/ Followed(i)'
  <2>1. c \in Stored /\ stored' = Append(stored, c)
        /\ c.boundary = thread[Boundary(thread, Loaded(thread).index)].id
    BY <1>4 DEF Rivals
  <2>2. Whole(thread, Boundary(thread, Loaded(thread).index))
    BY <1>0, <1>4, PlannedIsWhole DEF Rivals
  <2>3. Boundary(thread, Loaded(thread).index) \in 1..Len(thread)
    BY <1>0, <1>4, LoadedIs, BoundaryIs DEF Rivals
  <2> QED BY <1>0, <1>2, <2>1, <2>2, <2>3
<1> QED BY <1>1, <1>3, <1>4, StoredShape

\* What follows the newest boundary is a question in every state.
LEMMA FollowHolds == Spec => []FollowInv
<1>1. Init => FollowInv
  <2> SUFFICES ASSUME Init PROVE FollowInv
    OBVIOUS
  <2>1. stored = <<>> /\ Len(thread) = 0
    BY EmptySeq DEF Init
  <2> QED BY <2>1 DEF FollowInv
<1>2. ASSUME TypeInv, TurnInv, ListsInv, NewestInv, JobInv, FollowInv, [Next]_vars
      PROVE  FollowInv'
  <2>1. \A s \in Lists' : \A i \in 1..Len(thread') :
          i < Len(s) /\ s[i + 1].role = "user" /\ s[i].id = thread'[i].id => Followed(i)'
    BY <1>2, ListsStayFollowed
  <2>2. Roomy /\ stored' # <<>> /\ ~Last(stored').raced =>
          \A i \in 1..Len(thread') : thread'[i].id = Last(stored').boundary =>
            thread'[i].role = "assistant" \/ thread'[i].size > Keep \/ Followed(i)'
    BY <1>2, NewestStaysFollowed
  <2> QED BY <2>1, <2>2 DEF FollowInv
<1> QED BY <1>1, <1>2, TypesHold, TurnInvHolds, ListsHold, CompactionsHold, PTL DEF Spec

---------------------------------------------------------------------------
(* What a turn sends                                                       *)

\* A history of a turn's rows: the first k summarised, the others verbatim.
\* Unless the summary was planned from one stored meanwhile, it ends with a
\* whole turn, or with all the rows when a new message follows them.
Splits(h, k) ==
  /\ h.absorbed = First(turn.rows, k)
  /\ h.kept = From(turn.rows, k + 1)
  /\ Roomy /\ ~h.raced /\ k > 0 =>
       Whole(turn.rows, k) \/ (k = Len(turn.rows) /\ turn.kind # "retry")

\* An active turn has such a history, unless it was lent one of other rows.
HistoryInv ==
  Active /\ (turn.at = "active" \/ ~turn.lent) =>
    \E k \in 0..Len(turn.rows) : Splits(turn.history, k)

\* The rows of an active turn are the first of the thread, all of them when it
\* retries.
LEMMA TurnRowsAre ==
  ASSUME TypeInv, TurnInv, turn.at # "idle"
  PROVE  /\ Len(turn.rows) <= Len(thread)
         /\ \A k \in 1..Len(turn.rows) : turn.rows[k] = thread[k]
         /\ turn.at = "loaded" \/ turn.kind = "retry" => turn.rows = thread
         /\ Answered(turn.rows)
<1>1. /\ thread \in Seq(Rows) /\ turn.rows \in Seq(Rows) /\ turn \in Turns
      /\ Len(turn.rows) \in Nat /\ Len(thread) \in Nat
  BY FieldsAre, RowsAre DEF TypeInv
<1>2. CASE turn.rows = thread
  BY <1>1, <1>2 DEF TurnInv
<1>3. CASE AskedBy(turn.rows, thread) /\ ~(turn.at = "loaded") /\ turn.kind # "retry"
  <2>1. Len(thread) = Len(turn.rows) + 1 /\ \A k \in 1..Len(turn.rows) : thread[k] = turn.rows[k]
    BY <1>3 DEF AskedBy
  <2>2. ASSUME NEW i \in 1..Len(turn.rows), turn.rows[i].role = "assistant"
        PROVE  i > 1 /\ turn.rows[i - 1].role = "user"
    <3>1. i \in 1..Len(thread) /\ thread[i].role = "assistant"
      BY <1>1, <2>1, <2>2
    <3>2. i > 1 /\ thread[i - 1].role = "user"
      BY <3>1 DEF TurnInv, Answered
    <3>3. i - 1 \in 1..Len(turn.rows)
      BY <1>1, <3>2
    <3> QED BY <2>1, <3>2, <3>3
  <2> QED BY <1>1, <1>3, <2>1, <2>2 DEF Answered
<1> QED BY <1>2, <1>3 DEF TurnInv, Active

\* The newest compaction cuts the rows of a turn as it cuts the thread.
LEMMA NewestSplits ==
  ASSUME TypeInv, TurnInv, FollowInv, turn.at # "idle",
         ~(Active /\ turn.at = "loaded"),
         NEW k \in 1..Len(turn.rows), stored # <<>>, ~Last(stored).raced, Roomy,
         turn.rows[k].id = Last(stored).boundary
  PROVE  Whole(turn.rows, k) \/ (k = Len(turn.rows) /\ turn.kind # "retry")
<1>1. /\ Len(turn.rows) \in Nat /\ Len(thread) \in Nat /\ turn \in Turns
  BY FieldsAre, RowsAre DEF TypeInv
<1>2. /\ Len(turn.rows) <= Len(thread)
      /\ \A i \in 1..Len(turn.rows) : turn.rows[i] = thread[i]
      /\ turn.at = "loaded" \/ turn.kind = "retry" => turn.rows = thread
  BY TurnRowsAre
<1>3. k \in 1..Len(thread) /\ thread[k] = turn.rows[k] /\ k \in Nat /\ k <= Len(turn.rows)
  BY <1>1, <1>2
<1>4. thread[k].role = "assistant" \/ thread[k].size > Keep \/ Followed(k)
  BY <1>3 DEF FollowInv
<1>5. CASE k < Len(thread) /\ thread[k + 1].role = "user"
  <2>1. CASE k < Len(turn.rows)
    <3>1. k + 1 \in 1..Len(turn.rows)
      BY <1>1, <1>3, <2>1
    <3> QED BY <1>2, <1>5, <2>1, <3>1 DEF Whole
  <2>2. CASE ~(k < Len(turn.rows))
    <3>1. k = Len(turn.rows)
      BY <1>1, <1>3, <2>2
    <3>2. turn.rows # thread
      BY <1>5, <3>1
    <3> QED BY <1>2, <3>1, <3>2
  <2> QED BY <2>1, <2>2
<1>6. CASE k = Len(thread) /\ turn.at = "loaded" /\ turn.kind = "edit"
  BY <1>2, <1>6
<1> QED BY <1>3, <1>4, <1>5, <1>6 DEF Whole, Followed

\* What is loaded for a turn splits its rows.
LEMMA LoadedSplits ==
  ASSUME TypeInv, TurnInv, NewestInv, FollowInv, turn.at # "idle"
  PROVE  \E k \in 0..Len(turn.rows) : Splits(History(turn.rows, Loaded(turn.rows)), k)
<1>0. turn.rows \in Seq(Rows) /\ stored \in Seq(Stored) /\ turn.rows \in Lists
      /\ Len(turn.rows) \in Nat
  BY FieldsAre, RowsAre DEF TypeInv, Lists
<1>1. PICK c \in Comps : c = Loaded(turn.rows)
  BY <1>0, LoadedIs
<1>2. c.index \in 0..Len(turn.rows) /\ c.absorbed = First(turn.rows, c.index)
  BY <1>0, <1>1, LoadedIs, LoadedFirst
<1>3. ASSUME Roomy, ~c.raced, c.index > 0
      PROVE  Whole(turn.rows, c.index) \/ (c.index = Len(turn.rows) /\ turn.kind # "retry")
  <2>1. c # None
    BY <1>3 DEF None
  <2>2. /\ stored # <<>> /\ c.index \in 1..Len(turn.rows)
        /\ turn.rows[c.index].id = Last(stored).boundary /\ c.raced = Last(stored).raced
    BY <1>0, <1>1, <2>1, LoadedIs
  <2> QED BY <1>3, <2>2, NewestSplits DEF Active
<1>4. Splits(History(turn.rows, c), c.index)
  BY <1>2, <1>3 DEF Splits, History
<1> QED BY <1>1, <1>2, <1>4

\* What a compaction that settles hands to those who wait for it.
Answers(c) ==
  /\ c.index \in 1..Len(job.rows) /\ c.index >= job.upTo
  /\ c.absorbed = First(job.rows, c.index)
  /\ \/ c.index = job.upTo /\ c.raced = job.raced
     \/ /\ stored # <<>> /\ job.rows[c.index].id = Last(stored).boundary
        /\ c.raced = Last(stored).raced

\* It is the rival's that covers as much ...
LEMMA LookAnswers ==
  ASSUME TypeInv, NewestInv, LookForRival, Superseded(job.rows)
  PROVE  \E c \in Comps : Settle(c) /\ c # None /\ Answers(c)
<1>0. /\ job.rows \in Seq(Rows) /\ stored \in Seq(Stored) /\ job.upTo \in Nat
      /\ job.rows \in Lists /\ Len(job.rows) \in Nat /\ job.at = "summarise"
  BY FieldsAre, RowsAre DEF TypeInv, Lists, LookForRival
<1>1. job.upTo \in 1..Len(job.rows)
  BY <1>0 DEF TypeInv, Planned
<1>2. PICK c \in Comps : c = Loaded(job.rows)
  BY <1>0, LoadedIs
<1>3. Settle(c) /\ c.index >= job.upTo
  BY <1>2 DEF LookForRival, Superseded
<1>4. c.index \in 0..Len(job.rows) /\ c.absorbed = First(job.rows, c.index)
  BY <1>0, <1>2, LoadedIs, LoadedFirst
<1>5. c.index \in 1..Len(job.rows)
  BY <1>0, <1>1, <1>3, <1>4
<1>6. c # None
  BY <1>5 DEF None
<1>7. stored # <<>> /\ job.rows[c.index].id = Last(stored).boundary
      /\ c.raced = Last(stored).raced
  BY <1>0, <1>2, <1>6, LoadedIs
<1> QED BY <1>3, <1>4, <1>5, <1>6, <1>7 DEF Answers

\* ... or its own result, when it is inserted.
LEMMA InsertAnswers ==
  ASSUME TypeInv, JobInv, Insert
  PROVE  \E c \in Comps : Settle(c) /\ c # None /\ Answers(c)
<1>0. /\ job \in Jobs /\ job.rows \in Seq(Rows) /\ job.prev \in Comps /\ job.upTo \in Nat
      /\ job.raced \in BOOLEAN /\ Len(job.rows) \in Nat /\ job.at = "insert"
  BY FieldsAre, RowsAre DEF TypeInv, Insert
<1>1. job.upTo \in 1..Len(job.rows) /\ job.prev.index < job.upTo
      /\ job.prev.absorbed = First(job.rows, job.prev.index)
  BY <1>0 DEF TypeInv, JobInv, Planned
<1>2. job.prev.index <= job.upTo /\ job.upTo \in 0..Len(job.rows)
  BY <1>0, <1>1, FieldsAre
<1>3. Absorbs(job.rows, job.prev, job.upTo) = First(job.rows, job.upTo)
  BY <1>0, <1>1, <1>2, AbsorbsFirst
<1> DEFINE c == [index |-> job.upTo, absorbed |-> First(job.rows, job.upTo),
                 raced |-> job.raced]
<1>4. Settle(c)
  BY <1>3 DEF Insert
<1>5. First(job.rows, job.upTo) \in SUBSET RowIds
  BY <1>0, <1>2, <1>3, AbsorbsType
<1>6. c \in Comps
  BY <1>0, <1>5 DEF Comps
<1>7. c.index = job.upTo /\ c.absorbed = First(job.rows, job.upTo) /\ c.raced = job.raced
  OBVIOUS
<1> HIDE DEF c
<1>8. c # None
  <2>1. job.upTo # 0
    BY <1>1
  <2> QED BY <1>7, <2>1 DEF None
<1>9. Answers(c)
  BY <1>0, <1>1, <1>7 DEF Answers
<1> QED BY <1>4, <1>6, <1>8, <1>9

\* A compaction of the first of a turn's rows splits them.
LEMMA AnswerSplits ==
  ASSUME TypeInv, TurnInv, ListsInv, JobInv, FollowInv, turn.at = "waiting",
         IsPrefix(job.rows, turn.rows), job.at \in Planned,
         NEW c \in Comps, Answers(c)
  PROVE  c.index \in 0..Len(turn.rows) /\ Splits(History(turn.rows, c), c.index)
<1>0. /\ job.rows \in Seq(Rows) /\ turn.rows \in Seq(Rows)
      /\ Len(job.rows) \in Nat /\ Len(turn.rows) \in Nat
  BY FieldsAre, RowsAre DEF TypeInv
<1>1. Len(job.rows) <= Len(turn.rows) /\ \A k \in 1..Len(job.rows) : job.rows[k] = turn.rows[k]
  BY <1>0, PrefixIs
<1>2. /\ c.index \in 1..Len(turn.rows) /\ c.index \in 0..Len(turn.rows) /\ c.index \in Nat
      /\ c.index \in 1..Len(job.rows)
      /\ \A k \in 1..c.index : job.rows[k] = turn.rows[k]
  BY <1>0, <1>1 DEF Answers
<1>3. c.absorbed = First(turn.rows, c.index)
  BY <1>2, FirstSame DEF Answers
<1>4. ASSUME Roomy, ~c.raced
      PROVE  Whole(turn.rows, c.index) \/ (c.index = Len(turn.rows) /\ turn.kind # "retry")
  <2>1. CASE c.index = job.upTo /\ c.raced = job.raced
    <3>1. Whole(job.rows, c.index)
      BY <1>4, <2>1 DEF JobInv
    <3>2. job.rows[c.index] = turn.rows[c.index]
      BY <1>1, <1>2
    <3>3. CASE c.index < Len(job.rows) /\ job.rows[c.index + 1].role = "user"
      <4>1. c.index + 1 \in 1..Len(job.rows) /\ c.index < Len(turn.rows)
        BY <1>0, <1>1, <1>2, <3>3
      <4> QED BY <1>1, <3>3, <4>1 DEF Whole
    <3> QED BY <3>1, <3>2, <3>3 DEF Whole
  <2>2. CASE /\ stored # <<>> /\ job.rows[c.index].id = Last(stored).boundary
             /\ c.raced = Last(stored).raced
    <3>1. turn.rows[c.index].id = Last(stored).boundary /\ ~Last(stored).raced
      BY <1>1, <1>2, <1>4, <2>2
    <3> QED BY <1>2, <1>4, <2>2, <3>1, NewestSplits DEF Active
  <2> QED BY <2>1, <2>2 DEF Answers
<1>5. Splits(History(turn.rows, c), c.index)
  BY <1>3, <1>4 DEF Splits, History
<1> QED BY <1>2, <1>5

\* What a turn that is answered holds.
LEMMA AnsweredTurn ==
  ASSUME TypeInv, NEW c, Settle(c), turn.at = "waiting"
  PROVE  /\ turn'.at = "ready" /\ turn'.rows = turn.rows /\ turn'.kind = turn.kind
         /\ turn'.lent = turn.lent /\ turn'.joined = turn.joined /\ turn'.late = turn.late
         /\ turn'.failed = (c = None)
         /\ turn'.history = IF c = None THEN turn.history ELSE History(turn.rows, c)
<1>1. turn \in Turns
  BY DEF TypeInv
<1> DEFINE h == IF c = None THEN turn.history ELSE History(turn.rows, c)
           f == c = None
<1>2. turn' = [turn EXCEPT !.at = "ready", !.history = h, !.failed = f]
  BY DEF Settle
<1> HIDE DEF h, f
<1>3. /\ turn'.at = "ready" /\ turn'.rows = turn.rows /\ turn'.kind = turn.kind
      /\ turn'.lent = turn.lent /\ turn'.joined = turn.joined /\ turn'.late = turn.late
      /\ turn'.failed = f /\ turn'.history = h
  BY <1>1, <1>2 DEF Turns
<1> QED BY <1>3 DEF h, f

\* A turn that is not answered, loaded, checked or ended keeps its history.
LEMMA SplitsSame ==
  ASSUME HistoryInv, turn'.rows = turn.rows, turn'.kind = turn.kind,
         turn'.lent = turn.lent, turn'.history = turn.history, Active, turn'.at # "active"
  PROVE  HistoryInv'
BY DEF HistoryInv, Splits

\* Every step keeps the history of a turn a split of its rows.
LEMMA StepKeepsHistory ==
  ASSUME TypeInv, TurnInv, ListsInv, NewestInv, JobInv, FollowInv, WaitInv, HistoryInv,
         [Next]_vars
  PROVE  HistoryInv'
<1>0. turn \in Turns /\ None \in Comps
  BY NothingIs DEF TypeInv
<1>a. ASSUME turn' = turn PROVE HistoryInv'
  BY <1>a DEF HistoryInv, Splits, Active
<1>b. ASSUME Settle(None) PROVE HistoryInv'
  <2>1. CASE turn.at = "waiting"
    BY <1>b, <2>1, AnsweredTurn, SplitsSame DEF Active
  <2>2. CASE turn.at # "waiting"
    BY <1>a, <1>b, <2>2 DEF Settle
  <2> QED BY <2>1, <2>2
<1>1. CASE Send \/ Edit \/ Retry
  <2>1. turn'.at = "loaded"
    BY <1>1 DEF Send, Edit, Retry, Load, Idle
  <2> QED BY <2>1 DEF HistoryInv, Active
<1>2. CASE \E size \in Sizes : Register(size)
  <2> DEFINE h == History(turn.rows, Loaded(turn.rows))
  <2>1. turn' = [turn EXCEPT !.at = "active", !.history = h] /\ turn.at = "loaded"
    BY <1>2 DEF Register
  <2>2. PICK k \in 0..Len(turn.rows) : Splits(h, k)
    BY <2>1, LoadedSplits
  <2> HIDE DEF h
  <2>3. turn'.rows = turn.rows /\ turn'.kind = turn.kind /\ turn'.history = h
    BY <1>0, <2>1 DEF Turns
  <2>4. Splits(turn.history, k)'
    BY <2>2, <2>3 DEF Splits
  <2> QED BY <2>2, <2>3, <2>4 DEF HistoryInv
<1>3. CASE CheckTrigger
  <2>1. turn'.rows = turn.rows /\ turn'.kind = turn.kind /\ turn'.history = turn.history
    BY <1>0, <1>3 DEF CheckTrigger, Turns
  <2>2. PICK k \in 0..Len(turn.rows) : Splits(turn.history, k)
    BY <1>3 DEF HistoryInv, CheckTrigger, Active
  <2>3. Splits(turn.history, k)'
    BY <2>1, <2>2 DEF Splits
  <2> QED BY <2>1, <2>2, <2>3 DEF HistoryInv
<1>4. CASE Plan
  <2>1. CASE Settle(None)
    BY <1>b, <2>1
  <2>2. CASE ~Settle(None)
    BY <1>a, <1>4, <2>2 DEF Plan
  <2> QED BY <2>1, <2>2
<1>5. CASE Fail
  BY <1>b, <1>5 DEF Fail
<1>11. CASE LookForRival /\ ~Superseded(job.rows)
  BY <1>a, <1>11 DEF LookForRival
<1>6. CASE (LookForRival /\ Superseded(job.rows)) \/ Insert
  <2>1. PICK c \in Comps : Settle(c) /\ c # None /\ Answers(c)
    BY <1>6, LookAnswers, InsertAnswers
  <2>5. job.at \in Planned
    BY <1>6 DEF LookForRival, Insert, Planned
  <2>2. CASE turn.at = "waiting" /\ ~turn.lent
    <3>1. c.index \in 0..Len(turn.rows) /\ Splits(History(turn.rows, c), c.index)
      BY <2>1, <2>2, <2>5, AnswerSplits DEF WaitInv
    <3>2. turn'.rows = turn.rows /\ turn'.kind = turn.kind
          /\ turn'.history = History(turn.rows, c)
      BY <2>1, <2>2, AnsweredTurn
    <3>3. PICK h : h = History(turn.rows, c)
      OBVIOUS
    <3>4. PICK k \in 0..Len(turn.rows) : k = c.index
      BY <3>1
    <3>5. Splits(turn.history, k)'
      BY <3>1, <3>2, <3>3, <3>4 DEF Splits
    <3> QED BY <3>2, <3>4, <3>5 DEF HistoryInv
  <2>3. CASE turn.at = "waiting" /\ turn.lent
    <3>1. turn'.lent /\ turn'.at = "ready"
      BY <2>1, <2>3, AnsweredTurn
    <3> QED BY <3>1 DEF HistoryInv
  <2>4. CASE turn.at # "waiting"
    BY <1>a, <2>1, <2>4 DEF Settle
  <2> QED BY <2>2, <2>3, <2>4
<1>7. CASE Rival \/ SweepRead \/ SweepCompact
  BY <1>a, <1>7 DEF Rival, SweepRead, SweepCompact
<1>8. CASE Prompt
  <2>1. turn'.rows = turn.rows /\ turn'.kind = turn.kind /\ turn'.history = turn.history
        /\ turn'.lent = turn.lent /\ Active /\ turn'.at = "replying"
    BY <1>0, <1>8 DEF Prompt, Turns, Active
  <2> QED BY <2>1, SplitsSame
<1>9. CASE EndTurn
  <2>1. turn'.at = "idle"
    BY <1>9 DEF EndTurn, Idle
  <2> QED BY <2>1 DEF HistoryInv, Active
<1>10. CASE UNCHANGED vars
  BY <1>a, <1>10 DEF vars
<1> QED BY <1>1, <1>2, <1>3, <1>4, <1>5, <1>6, <1>7, <1>8, <1>9, <1>10, <1>11 DEF Next

\* The history of a turn splits its rows in every state.
LEMMA HistoryHolds == Spec => []HistoryInv
<1>1. Init => HistoryInv
  BY DEF Init, Idle, HistoryInv, Active
<1>2. TypeInv /\ TurnInv /\ ListsInv /\ (NewestInv /\ JobInv) /\ FollowInv /\ WaitInv
        /\ HistoryInv /\ [Next]_vars => HistoryInv'
  BY StepKeepsHistory
<1> QED BY <1>1, <1>2, TypesHold, TurnInvHolds, ListsHold, CompactionsHold, FollowHolds,
           WaitsHold, PTL DEF Spec

---------------------------------------------------------------------------
(* The weight of what a turn sends                                         *)

\* Where a turn that is about to reply was promised a light history.
Promised ==
  turn.at \in {"ready", "replying"} /\ ~turn.failed /\ ~turn.joined /\ ~turn.late

LightInv == Roomy /\ Promised => Weight(turn.history) < Trigger

\* What is replayed weighs a number of tokens.
LEMMA HistoryWeighs ==
  ASSUME NEW s \in Seq(Rows), NEW c \in Comps
  PROVE  /\ Weight(History(s, c)) \in Nat /\ Tokens(From(s, c.index + 1)) \in Nat
         /\ Weight(History(s, c)) = (IF c.absorbed = {} THEN 0 ELSE SummarySize)
                                      + Tokens(From(s, c.index + 1))
<1>1. c.index \in Nat
  BY FieldsAre
<1>2. Tokens(From(s, c.index + 1)) \in Nat
  BY <1>1, FromType, TokensAreNat
<1>3. Weight(History(s, c)) = (IF c.absorbed = {} THEN 0 ELSE SummarySize)
                                + Tokens(From(s, c.index + 1))
  BY DEF Weight, History
<1> QED BY <1>2, <1>3

\* A turn below the trigger sends what it was found to weigh.
LEMMA CheckIsLight ==
  ASSUME TypeInv, CheckTrigger, Roomy, Promised'
  PROVE  Weight(turn.history)' < Trigger
<1>0. turn \in Turns /\ turn.rows \in Seq(Rows) /\ stored \in Seq(Stored)
  BY FieldsAre DEF TypeInv
<1>1. PICK c \in Comps : c = Loaded(turn.rows)
  BY <1>0, LoadedIs
<1> DEFINE h == History(turn.rows, c)
           l == turn.history # h
<1>2. turn' = [turn EXCEPT !.at = "ready", !.late = l]
      /\ ~(turn.rows # <<>> /\ Replayed(turn.rows) >= Trigger)
  <2>1. CASE turn.rows # <<>> /\ Replayed(turn.rows) >= Trigger
    <3>1. turn'.at = "waiting"
      BY <1>0, <2>1 DEF CheckTrigger, Turns
    <3> QED BY <3>1 DEF Promised
  <2> QED BY <1>1, <2>1 DEF CheckTrigger
<1>3. turn.history = h
  <2> HIDE DEF l
  <2>1. turn'.late = l
    BY <1>0, <1>2 DEF Turns
  <2>2. ~l
    BY <2>1 DEF Promised
  <2> QED BY <2>2 DEF l
<1>4. turn'.history = h
  <2> HIDE DEF h, l
  <2>1. turn'.history = turn.history
    BY <1>0, <1>2 DEF Turns
  <2> QED BY <1>3, <2>1
<1>5. Weight(h) < Trigger
  <2>1. Replayed(turn.rows) = Weight(h) /\ Weight(h) \in Nat
    BY <1>0, <1>1, HistoryWeighs DEF Replayed
  <2>2. CASE turn.rows # <<>>
    <3>1. ~(Weight(h) >= Trigger)
      BY <1>2, <2>1, <2>2
    <3> HIDE DEF h
    <3> QED BY <2>1, <3>1
  <2>3. CASE turn.rows = <<>>
    <3>1. c = None
      <4>1. Ids(<<>>) = {}
        <5>1. Len(<<>>) = 0 /\ <<>> \in Seq(Rows)
          BY NothingIs, EmptySeq
        <5>2. DOMAIN <<>> = {}
          BY <5>1, RowsAre
        <5> QED BY <5>2 DEF Ids
      <4> QED BY <1>1, <2>3, <4>1 DEF Loaded
    <3>2. c.index = 0 /\ c.absorbed = {} /\ Len(turn.rows) = 0
      BY <2>3, <3>1, EmptySeq DEF None
    <3>3. Tokens(From(turn.rows, c.index + 1)) = 0
      BY <1>0, <3>2, PastTheEnd
    <3>4. Weight(h) = 0
      BY <1>0, <3>2, <3>3, HistoryWeighs
    <3>5. 0 < Trigger
      BY DEF Roomy
    <3> QED BY <3>4, <3>5
  <2> QED BY <2>2, <2>3
<1> QED BY <1>4, <1>5

\* A turn that is answered of its own rows sends a summary and a tail that fits.
LEMMA AnswerIsLight ==
  ASSUME TypeInv, JobInv, WaitInv, turn.at = "waiting", ~turn.joined, job.at \in Planned,
         NEW c \in Comps, Answers(c), Roomy
  PROVE  Weight(History(turn.rows, c)) < Trigger
<1>0. /\ turn.rows \in Seq(Rows) /\ Len(turn.rows) \in Nat /\ job.upTo \in Nat
      /\ job.rows = turn.rows
  BY FieldsAre, RowsAre DEF TypeInv, WaitInv
<1>1. job.upTo \in 1..Len(turn.rows) /\ Tokens(From(turn.rows, job.upTo + 1)) <= Keep
  BY <1>0 DEF TypeInv, JobInv
<1>2. c.index \in 1..Len(turn.rows) /\ c.index >= job.upTo
  BY <1>0 DEF Answers
<1>3. job.upTo + 1 \in 1..(Len(turn.rows) + 1)
      /\ c.index + 1 \in (job.upTo + 1)..(Len(turn.rows) + 1)
  BY <1>0, <1>1, <1>2
<1>4. Tokens(From(turn.rows, c.index + 1)) <= Tokens(From(turn.rows, job.upTo + 1))
      /\ Tokens(From(turn.rows, job.upTo + 1)) \in Nat
  BY <1>0, <1>3, TailsShrink, FromIs, TokensAreNat
<1>5. Weight(History(turn.rows, c)) <= SummarySize + Tokens(From(turn.rows, c.index + 1))
      /\ Tokens(From(turn.rows, c.index + 1)) \in Nat
      /\ Weight(History(turn.rows, c)) \in Nat
  BY <1>0, HistoryWeighs
<1> QED BY <1>1, <1>4, <1>5 DEF Roomy

\* Every step keeps a promised history light.
LEMMA StepKeepsLight ==
  ASSUME TypeInv, NewestInv, JobInv, WaitInv, LightInv, [Next]_vars
  PROVE  LightInv'
<1> SUFFICES ASSUME Roomy, Promised' PROVE Weight(turn.history)' < Trigger
  BY DEF LightInv, Roomy
<1>0. turn \in Turns /\ None \in Comps
  BY NothingIs DEF TypeInv
<1>a. ASSUME turn' = turn PROVE Weight(turn.history)' < Trigger
  BY <1>a DEF LightInv, Promised
<1>b. ASSUME Settle(None) PROVE Weight(turn.history)' < Trigger
  <2>1. CASE turn.at = "waiting"
    <3>1. turn'.failed
      BY <1>b, <2>1, AnsweredTurn
    <3> QED BY <3>1 DEF Promised
  <2>2. CASE turn.at # "waiting"
    BY <1>a, <1>b, <2>2 DEF Settle
  <2> QED BY <2>1, <2>2
<1>1. CASE Send \/ Edit \/ Retry
  <2>1. turn'.at = "loaded"
    BY <1>1 DEF Send, Edit, Retry, Load, Idle
  <2> QED BY <2>1 DEF Promised
<1>2. CASE \E size \in Sizes : Register(size)
  <2>1. Registers
    BY <1>2, RequestShape
  <2> QED BY <2>1 DEF Registers, Promised
<1>3. CASE CheckTrigger
  BY <1>3, CheckIsLight
<1>4. CASE Plan
  <2>1. CASE Settle(None)
    BY <1>b, <2>1
  <2>2. CASE ~Settle(None)
    BY <1>a, <1>4, <2>2 DEF Plan
  <2> QED BY <2>1, <2>2
<1>5. CASE Fail
  BY <1>b, <1>5 DEF Fail
<1>11. CASE LookForRival /\ ~Superseded(job.rows)
  BY <1>a, <1>11 DEF LookForRival
<1>6. CASE (LookForRival /\ Superseded(job.rows)) \/ Insert
  <2>1. PICK c \in Comps : Settle(c) /\ c # None /\ Answers(c)
    BY <1>6, LookAnswers, InsertAnswers
  <2>5. job.at \in Planned
    BY <1>6 DEF LookForRival, Insert, Planned
  <2>2. CASE turn.at = "waiting"
    <3>1. turn'.joined = turn.joined /\ turn'.history = History(turn.rows, c)
      BY <2>1, <2>2, AnsweredTurn
    <3>2. Weight(History(turn.rows, c)) < Trigger
      BY <2>1, <2>2, <2>5, <3>1, AnswerIsLight DEF Promised
    <3> QED BY <3>1, <3>2
  <2>3. CASE turn.at # "waiting"
    BY <1>a, <2>1, <2>3 DEF Settle
  <2> QED BY <2>2, <2>3
<1>7. CASE Rival \/ SweepRead \/ SweepCompact
  BY <1>a, <1>7 DEF Rival, SweepRead, SweepCompact
<1>8. CASE Prompt
  <2>1. /\ turn'.history = turn.history /\ turn.at = "ready"
        /\ turn'.failed = turn.failed /\ turn'.joined = turn.joined /\ turn'.late = turn.late
    BY <1>0, <1>8 DEF Prompt, Turns
  <2>2. Promised
    BY <2>1 DEF Promised
  <2> QED BY <2>1, <2>2 DEF LightInv
<1>9. CASE EndTurn
  <2>1. turn'.at = "idle"
    BY <1>9 DEF EndTurn, Idle
  <2> QED BY <2>1 DEF Promised
<1>10. CASE UNCHANGED vars
  BY <1>a, <1>10 DEF vars
<1> QED BY <1>1, <1>2, <1>3, <1>4, <1>5, <1>6, <1>7, <1>8, <1>9, <1>10, <1>11 DEF Next

\* A promised history is light in every state.
LEMMA LightHolds == Spec => []LightInv
<1>1. Init => LightInv
  BY DEF Init, Idle, LightInv, Promised
<1>2. TypeInv /\ (NewestInv /\ JobInv) /\ WaitInv /\ LightInv /\ [Next]_vars => LightInv'
  BY StepKeepsLight
<1> QED BY <1>1, <1>2, TypesHold, CompactionsHold, WaitsHold, PTL DEF Spec

---------------------------------------------------------------------------
(* The properties                                                          *)

\* The first rows of a list and those after them are its rows, each once.
LEMMA SplitIsAll ==
  ASSUME NEW s \in Seq(Rows), NEW k \in 0..Len(s)
  PROVE  /\ Ids(s) \subseteq First(s, k) \cup Ids(From(s, k + 1))
         /\ First(s, k) \subseteq Ids(s)
         /\ Alike(s, s) => First(s, k) \cap Ids(From(s, k + 1)) = {}
<1>0. Len(s) \in Nat /\ k \in Nat /\ k <= Len(s) /\ k + 1 \in 1..(Len(s) + 1)
  BY RowsAre
<1>1. PICK t \in Seq(Rows) : t = From(s, k + 1)
  BY <1>0, FromIs
<1>2. Len(t) = Len(s) - k /\ \A j \in 1..(Len(s) - k) : t[j] = s[k + j]
  <2>1. Len(s) - (k + 1) + 1 = Len(s) - k /\ \A j \in 1..(Len(s) - k) : (k + 1) + j - 1 = k + j
    BY <1>0
  <2>2. Len(t) = Len(s) - (k + 1) + 1
        /\ \A j \in 1..(Len(s) - (k + 1) + 1) : t[j] = s[(k + 1) + j - 1]
    BY <1>0, <1>1, FromIs
  <2> QED BY <2>1, <2>2
<1>3. Ids(s) = {s[i].id : i \in 1..Len(s)} /\ Ids(t) = {t[j].id : j \in 1..(Len(s) - k)}
  BY <1>2, IdsAre
<1>4. ASSUME NEW i \in 1..Len(s) PROVE s[i].id \in First(s, k) \cup Ids(t)
  <2>1. CASE i <= k
    <3>1. i \in 1..k
      BY <1>0, <2>1
    <3> QED BY <3>1 DEF First
  <2>2. CASE ~(i <= k)
    <3>1. i - k \in 1..(Len(s) - k) /\ k + (i - k) = i
      BY <1>0, <2>2
    <3>2. t[i - k] = s[i]
      BY <1>2, <3>1
    <3> QED BY <1>3, <3>1, <3>2
  <2> QED BY <2>1, <2>2
<1>5. First(s, k) \subseteq Ids(s)
  <2>1. \A i \in 1..k : i \in 1..Len(s)
    BY <1>0
  <2> QED BY <1>3, <2>1 DEF First
<1>6. ASSUME Alike(s, s), NEW i \in 1..k, NEW j \in 1..(Len(s) - k), s[i].id = t[j].id
      PROVE  FALSE
  <2>1. i \in 1..Len(s) /\ k + j \in 1..Len(s) /\ i # k + j
    BY <1>0
  <2>2. t[j] = s[k + j]
    BY <1>2
  <2> QED BY <1>6, <2>1, <2>2 DEF Alike
<1>7. Alike(s, s) => First(s, k) \cap Ids(t) = {}
  BY <1>3, <1>6 DEF First
<1> QED BY <1>1, <1>3, <1>4, <1>5, <1>7

\* A row of a list is found at its place.
LEMMA FoundAt ==
  ASSUME NEW s \in Seq(Rows), Alike(s, s), NEW i \in 1..Len(s)
  PROVE  (CHOOSE j \in DOMAIN s : s[j] = s[i]) = i
<1>1. DOMAIN s = 1..Len(s)
  BY RowsAre
<1>2. \A j \in 1..Len(s) : s[j] = s[i] => j = i
  BY DEF Alike
<1> QED BY <1>1, <1>2

\* What a turn that is prompted sends, from the split of its rows.
LEMMA PromptSplits ==
  ASSUME TypeInv, TurnInv, ListsInv, HistoryInv, Prompted, ~turn.lent
  PROVE  /\ NothingLost /\ NothingDeletedReturns
         /\ turn.history.absorbed \cap Ids(turn.history.kept) = {}
         /\ Roomy => WholeTurns /\ RetryAsks
<1>0. /\ turn.rows \in Seq(Rows) /\ turn.rows \in Lists /\ Len(turn.rows) \in Nat
      /\ Active /\ turn.at # "idle" /\ turn \in Turns
  BY FieldsAre, RowsAre DEF TypeInv, Lists, Prompted, Active
<1>1. PICK k \in 0..Len(turn.rows) : Splits(turn.history, k)
  BY <1>0 DEF HistoryInv
<1>2. turn.history.absorbed = First(turn.rows, k) /\ turn.history.kept = From(turn.rows, k + 1)
  BY <1>1 DEF Splits
<1>3. Alike(turn.rows, turn.rows)
  BY <1>0 DEF ListsInv
<1>4. NothingLost /\ NothingDeletedReturns
      /\ turn.history.absorbed \cap Ids(turn.history.kept) = {}
  BY <1>0, <1>2, <1>3, SplitIsAll DEF NothingLost, NothingDeletedReturns
<1>5. /\ k \in Nat /\ k <= Len(turn.rows) /\ k + 1 \in 1..(Len(turn.rows) + 1)
      /\ Len(turn.history.kept) = Len(turn.rows) - k
      /\ \A j \in 1..(Len(turn.rows) - k) : turn.history.kept[j] = turn.rows[k + j]
  <2>1. k \in Nat /\ k <= Len(turn.rows) /\ k + 1 \in 1..(Len(turn.rows) + 1)
    BY <1>0
  <2>2. /\ Len(turn.rows) - (k + 1) + 1 = Len(turn.rows) - k
        /\ \A j \in 1..(Len(turn.rows) - k) : (k + 1) + j - 1 = k + j
    BY <1>0, <2>1
  <2>3. /\ Len(turn.history.kept) = Len(turn.rows) - (k + 1) + 1
        /\ \A j \in 1..(Len(turn.rows) - (k + 1) + 1) :
             turn.history.kept[j] = turn.rows[(k + 1) + j - 1]
    BY <1>0, <1>2, <2>1, FromIs
  <2> QED BY <2>1, <2>2, <2>3
<1>6. turn.history.kept # <<>> <=> k < Len(turn.rows)
  <2>1. turn.history.kept \in Seq(Rows)
    BY <1>0, FieldsAre
  <2>2. turn.history.kept # <<>> <=> Len(turn.history.kept) # 0
    BY <2>1, EmptySeq
  <2> QED BY <1>0, <1>5, <2>2
<1>7. ASSUME Roomy, turn.history.kept # <<>>, turn.history.absorbed # {},
             Head(turn.history.kept).role = "assistant", ~turn.history.raced
      PROVE  LET q == Cut(turn.rows, turn.history.kept)
             IN q.role = "user" /\ q.size > Keep
  <2>1. k > 0
    <3>1. k = 0 => First(turn.rows, k) = {}
      BY DEF First
    <3> QED BY <1>2, <1>5, <1>7, <3>1
  <2>2. /\ k < Len(turn.rows) /\ k + 1 \in 1..Len(turn.rows) /\ k \in 1..Len(turn.rows)
        /\ 1 \in 1..(Len(turn.rows) - k) /\ (k + 1) - 1 = k
    BY <1>0, <1>5, <1>6, <1>7, <2>1
  <2>3. Head(turn.history.kept) = turn.rows[k + 1]
    BY <1>5, <2>2
  <2>4. Cut(turn.rows, turn.history.kept) = turn.rows[k]
    BY <1>0, <1>3, <2>2, <2>3, FoundAt DEF Cut
  <2>5. turn.rows[k].role = "user"
    <3>1. Answered(turn.rows)
      BY <1>0, TurnRowsAre
    <3> QED BY <1>7, <2>2, <2>3, <3>1 DEF Answered
  <2>6. Whole(turn.rows, k)
    BY <1>1, <1>5, <1>7, <2>1, <2>2 DEF Splits
  <2>7. turn.rows[k].size > Keep
    BY <1>7, <2>3, <2>5, <2>6 DEF Whole
  <2> QED BY <2>4, <2>5, <2>7
<1>8. Roomy => WholeTurns
  BY <1>4, <1>7 DEF WholeTurns
<1>9. ASSUME Roomy, turn.kind = "retry", ~turn.history.raced
      PROVE  \/ turn.history.kept # <<>> /\ Last(turn.history.kept) = Last(turn.rows)
             \/ Last(turn.rows).size > Keep
  <2>1. turn.rows # <<>> /\ turn.rows[Len(turn.rows)].role = "user"
    BY <1>0, <1>9 DEF TurnInv
  <2>2. Len(turn.rows) > 0
    BY <1>0, <2>1, EmptySeq
  <2>3. CASE k < Len(turn.rows)
    <3>1. /\ Len(turn.rows) - k \in 1..(Len(turn.rows) - k)
          /\ k + (Len(turn.rows) - k) = Len(turn.rows)
      BY <1>0, <1>5, <2>3
    <3>2. Last(turn.history.kept) = Last(turn.rows)
      BY <1>5, <3>1 DEF Last
    <3> QED BY <1>6, <2>3, <3>2
  <2>4. CASE k = Len(turn.rows)
    <3>1. Whole(turn.rows, Len(turn.rows))
      BY <1>1, <1>9, <2>2, <2>4 DEF Splits
    <3>2. ~(Len(turn.rows) < Len(turn.rows))
      BY <1>0
    <3> QED BY <2>1, <3>1, <3>2 DEF Whole, Last
  <2> QED BY <1>0, <1>5, <2>3, <2>4
<1>10. Roomy => RetryAsks
  BY <1>9 DEF RetryAsks
<1> QED BY <1>4, <1>8, <1>10

\* Every variable of a compacted chat has its type.
THEOREM CompactionTyped == Spec => []TypeOK
<1> QED BY TypesHold, TypeInvIsTypeOK, PTL

\* For every trigger, kept tail and weight of a summary, and however turns,
\* edits, retries, the sweep and another process interleave: each row a turn
\* loaded is sent, once, verbatim or in the summary, and the summary holds none
\* that an edit or a retry had deleted (compactedHistory, compaction.ts).
THEOREM PromptIsEachRowOnce ==
  Spec => [](/\ NothingLost /\ NothingDeletedReturns
             /\ Prompted /\ ~turn.lent =>
                  turn.history.absorbed \cap Ids(turn.history.kept) = {})
<1>1. TypeInv /\ TurnInv /\ ListsInv /\ HistoryInv
        => /\ NothingLost /\ NothingDeletedReturns
           /\ Prompted /\ ~turn.lent =>
                turn.history.absorbed \cap Ids(turn.history.kept) = {}
  <2>1. CASE Prompted /\ ~turn.lent
    BY <2>1, PromptSplits
  <2>2. CASE ~(Prompted /\ ~turn.lent)
    BY <2>2 DEF NothingLost, NothingDeletedReturns
  <2> QED BY <2>1, <2>2
<1> QED BY <1>1, TypesHold, TurnInvHolds, ListsHold, HistoryHolds, PTL

\* When a summary and the kept tail fit under the trigger, what a turn sends is
\* the thread it loaded, a turn at a time: no reply is kept without its question
\* unless that question alone outweighs the tail (selectBoundary).
THEOREM PromptIsTheThread ==
  ASSUME Roomy
  PROVE  Spec => []PromptIsThread
<1>1. TypeInv /\ TurnInv /\ ListsInv /\ HistoryInv => PromptIsThread
  <2>1. CASE Prompted /\ ~turn.lent
    BY <2>1, PromptSplits, TypeInvIsTypeOK DEF PromptIsThread
  <2>2. CASE ~(Prompted /\ ~turn.lent)
    BY <2>2, TypeInvIsTypeOK
       DEF PromptIsThread, NothingLost, NothingDeletedReturns, WholeTurns
  <2> QED BY <2>1, <2>2
<1> QED BY <1>1, TypesHold, TurnInvHolds, ListsHold, HistoryHolds, PTL

\* Under the same condition, a question that is retried is the last message the
\* model reads, or larger than the kept tail.
THEOREM RetriesAsk ==
  ASSUME Roomy
  PROVE  Spec => []RetryAsks
<1>1. TypeInv /\ TurnInv /\ ListsInv /\ HistoryInv => RetryAsks
  <2>1. CASE Prompted /\ ~turn.lent
    BY <2>1, PromptSplits
  <2>2. CASE ~(Prompted /\ ~turn.lent)
    BY <2>2 DEF RetryAsks
  <2> QED BY <2>1, <2>2
<1> QED BY <1>1, TypesHold, TurnInvHolds, ListsHold, HistoryHolds, PTL

\* Under the same condition, the history a reply is sent -- the summary and the
\* rows loaded before the new message, which comes on top of it -- weighs less
\* than the trigger, whatever the messages weigh: for a turn whose summarising
\* did not fail, that did not wait for a compaction of other rows than its own,
\* and after whose mapping of the history none was stored (chat-turn.ts:576-592).
THEOREM HistoriesAreLight ==
  ASSUME Roomy
  PROVE  Spec => []HistoryUnderTrigger
<1>1. LightInv => HistoryUnderTrigger
  BY DEF LightInv, Promised, HistoryUnderTrigger, Prompted
<1> QED BY <1>1, LightHolds, PTL

=============================================================================
