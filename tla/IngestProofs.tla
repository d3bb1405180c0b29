---------------------------- MODULE IngestProofs ----------------------------
(***************************************************************************)
(* File ingestion, for any number of names, rows, threads, reconciliations *)
(* and crashes.  PoolInv orders what the parts know of a file: nobody has a*)
(* version that was not there before (Was), a row that was never crossed   *)
(* has one thread, whose text is at least as new as the row's size, and    *)
(* claims count against attempts.                                          *)
(***************************************************************************)
EXTENDS Ingest, FiniteSetTheorems, WellFoundedInduction, TLAPS

-----------------------------------------------------------------------------
(* The invariant *)

\* Ids are handed out once: what refers to a row refers to one that was made.
IdsOK ==
  /\ \E b \in Ids \cup {0} : \A i \in used : i <= b
  /\ \A i \in Ids \ used : handled[i] = 0
  /\ \A w \in Workers : Busy(w) => job[w].id \in used
  /\ \A s \in Syncs : \A t \in sync[s].todo : t.op /= "create" => t.id \in used

\* Version v was in the pool under name n, now or before what is there now.
Was(n, v) == v <= version /\ (disk[n] = 0 \/ v <= disk[n])

\* What an upload, a row, a job, a walk or a plan says of a name was there.
VersionsOK ==
  /\ \A n \in Names : Was(n, arriving[n]) /\ disk[n] <= version
  /\ \A i \in Ids : artifact[i] <= version
  /\ \A i \in Ids : Exists(i) => rows[i].size > 0 /\ Was(rows[i].name, rows[i].size)
  /\ \A w \in Workers : Busy(w) => Was(job[w].name, job[w].text)
  /\ \A s \in Syncs : \A n \in Names : Was(n, sync[s].listing[n])
  /\ \A s \in Syncs : \A t \in sync[s].todo :
       Was(t.name, t.size) /\ (t.op \in {"create", "reingest"} => t.size > 0)

\* The name of a row never changes: jobs and plans have the row's.
NamesOK ==
  /\ \A w \in Workers : Busy(w) => \A i \in Ids :
       job[w].id = i /\ Exists(i) => job[w].name = rows[i].name
  /\ \A s \in Syncs : \A t \in sync[s].todo : \A i \in Ids :
       t.op = "reingest" /\ t.id = i /\ Exists(i) => t.name = rows[i].name

\* A row that was never crossed has one thread at most, and that thread's claim
\* is as old as the row says.
ClaimOK(i) ==
  /\ \A v, w \in Holders(i) : v = w
  /\ Exists(i) =>
       /\ rows[i].status = "pending" => \A w \in Holders(i) : job[w].remarked
       /\ rows[i].status = "processing" =>
            \A w \in Holders(i) : ~job[w].remarked /\ job[w].age = rows[i].age
       /\ rows[i].status \in {"ready", "unsupported"} => Holders(i) = {}

\* Its thread's text, and its prepared text, is at least as new as its size says.
TextOK(i) ==
  Exists(i) =>
    /\ \A w \in Holders(i) : ~job[w].remarked =>
         /\ job[w].stage \in {"read", "handled"} => rows[i].size <= job[w].text
         /\ job[w].stage = "handled" /\ job[w].result = "ready" => artifact[i] = job[w].text
    /\ rows[i].status = "ready" =>
         rows[i].size <= artifact[i] /\ Was(rows[i].name, artifact[i])

\* The claims of a row that may yet be handed to a handler.
Ahead(i) == {w \in Holders(i) : /\ ~job[w].remarked /\ job[w].stage = "claimed"
                                /\ job[w].attempts <= MaxAttempts}
AttemptsOK(i) ==
  /\ handled[i] + Cardinality(Ahead(i)) <= MaxAttempts
  /\ Exists(i) => handled[i] + Cardinality(Ahead(i)) <= rows[i].attempts

PoolInv ==
  /\ TypeOK /\ IdsOK /\ VersionsOK /\ NamesOK
  /\ \A i \in Ids \ crossed : ClaimOK(i) /\ TextOK(i)
  /\ \A i \in Ids : AttemptsOK(i)

-----------------------------------------------------------------------------
(* Numbers and sets *)

\* A set of naturals that is not empty has a smallest element.
LEMMA SmallestOf ==
  ASSUME NEW S \in SUBSET Nat, S # {}
  PROVE  \E n \in S : \A m \in S : n <= m
<1> DEFINE R == OpToRel(<, Nat)
<1>1. IsWellFoundedOn(R, Nat)
  BY NatLessThanWellFounded
<1>2. \A m, n \in Nat : <<m, n>> \in R <=> m < n
  BY DEF OpToRel
<1> HIDE DEF R
<1>3. PICK n \in S : \A m \in S : ~(<<m, n>> \in R)
  BY <1>1, WFMin
<1>4. ASSUME NEW m \in S PROVE n <= m
  <2>1. m \in Nat /\ n \in Nat
    OBVIOUS
  <2>2. ~(m < n)
    BY <1>2, <1>3, <2>1
  <2> QED BY <2>1, <2>2
<1> QED BY <1>4

One(p) == IF p THEN 1 ELSE 0

\* Two sets that agree but for one element.
LEMMA ButOne ==
  ASSUME NEW S, IsFiniteSet(S), NEW T, NEW a, S \ {a} = T \ {a}
  PROVE  IsFiniteSet(T) /\ Cardinality(T) = Cardinality(S) - One(a \in S) + One(a \in T)
<1>1. /\ IsFiniteSet(S \ {a})
      /\ Cardinality(S \ {a}) = IF a \in S THEN Cardinality(S) - 1 ELSE Cardinality(S)
  BY FS_RemoveElement
<1>2. Cardinality(S) \in Nat
  BY FS_CardinalityType
<1>3. CASE a \in T
  <2>1. T = (S \ {a}) \cup {a} /\ a \notin S \ {a}
    BY <1>3
  <2>2. /\ IsFiniteSet((S \ {a}) \cup {a})
        /\ Cardinality((S \ {a}) \cup {a})
             = IF a \in S \ {a} THEN Cardinality(S \ {a}) ELSE Cardinality(S \ {a}) + 1
    BY <1>1, FS_AddElement
  <2>3. IsFiniteSet(T) /\ Cardinality(T) = Cardinality(S \ {a}) + 1
    BY <2>1, <2>2
  <2> QED BY <1>1, <1>2, <1>3, <2>3 DEF One
<1>4. CASE a \notin T
  <2>1. T = S \ {a}
    BY <1>4
  <2> QED BY <1>1, <1>2, <1>4, <2>1 DEF One
<1> QED BY <1>3, <1>4

\* A set of naturals that is not empty and has a bound has a largest element.
LEMMA LargestOf ==
  ASSUME NEW S \in SUBSET Nat, S # {}, NEW b \in Nat, \A n \in S : n <= b
  PROVE  \E n \in S : \A m \in S : m <= n
<1> DEFINE U == {u \in Nat : \A n \in S : n <= u}
<1>1. U \in SUBSET Nat /\ U # {}
  BY b \in U
<1> HIDE DEF U
<1>2. PICK u \in U : \A v \in U : u <= v
  BY <1>1, SmallestOf
<1>3. u \in Nat /\ \A n \in S : n \in Nat /\ n <= u
  BY <1>2 DEF U
<1>4. u \in S
  <2> SUFFICES ASSUME u \notin S PROVE FALSE
    OBVIOUS
  <2>1. \A n \in S : n <= u - 1
    BY <1>3
  <2>2. u - 1 \in Nat
    <3>1. PICK n \in S : TRUE
      OBVIOUS
    <3> QED BY <1>3, <2>1, <3>1
  <2>3. u - 1 \in U
    BY <2>1, <2>2 DEF U
  <2>4. u <= u - 1
    BY <1>2, <2>3
  <2> QED BY <1>3, <2>4
<1> QED BY <1>3, <1>4

\* The bounds are numbers.
LEMMA NumbersOK == /\ MaxVersion \in Nat /\ MaxAttempts \in Nat \ {0} /\ MaxLosses \in Nat
                   /\ Window \in Nat /\ Headroom \in Nat /\ Headroom < Window
                   /\ Ids \subseteq Nat /\ Versions \subseteq Nat /\ 0 \in Versions
BY IngestAssumption DEF Versions

\* The absence of a row or a job is not one.
LEMMA NotRecords == NoRow \notin Row /\ Idle \notin Job
<1>1. ASSUME NEW r \in Row PROVE r # NoRow
  <2>1. DOMAIN r = {"name", "kind", "status", "size", "attempts", "age", "prepared"}
    BY DEF Row
  <2>2. DOMAIN NoRow = {"name"}
    BY DEF NoRow
  <2> QED BY <2>1, <2>2
<1>2. ASSUME NEW k \in Job PROVE k # Idle
  <2>1. DOMAIN k = {"stage", "id", "name", "attempts", "age", "text", "result", "remarked"}
    BY DEF Job
  <2>2. DOMAIN Idle = {"stage"}
    BY DEF Idle
  <2> QED BY <2>1, <2>2
<1> QED BY <1>1, <1>2

\* The id a new row gets was never used.
LEMMA NextIdFresh ==
  ASSUME Fresh # {}
  PROVE  NextId \in Ids \ used
<1>1. Fresh \in SUBSET Nat
  BY NumbersOK DEF Fresh
<1>2. \E n \in Fresh : \A m \in Fresh : n <= m
  BY <1>1, SmallestOf
<1> QED BY <1>2 DEF NextId, Min, Fresh

\* So is the row a thread claims one that may be claimed, and the row a plan
\* ingests again one of that name.
LEMMA ClaimedIsClaimable ==
  ASSUME Claimable # {}
  PROVE  Min(Claimable) \in Claimable
<1>1. Claimable \in SUBSET Nat
  BY NumbersOK DEF Claimable
<1>2. \E n \in Claimable : \A m \in Claimable : n <= m
  BY <1>1, SmallestOf
<1> QED BY <1>2 DEF Min

\* The row a name stands for is one of its rows.
LEMMA LastNamed ==
  ASSUME TypeOK, IdsOK, NEW n, RowsNamed(n) # {}
  PROVE  Max(RowsNamed(n)) \in RowsNamed(n)
<1>1. PICK b \in Ids \cup {0} : \A i \in used : i <= b
  BY DEF IdsOK
<1>2. RowsNamed(n) \in SUBSET Nat /\ b \in Nat /\ \A i \in RowsNamed(n) : i <= b
  BY <1>1, NumbersOK DEF RowsNamed, Exists, TypeOK
<1>3. \E i \in RowsNamed(n) : \A j \in RowsNamed(n) : j <= i
  BY <1>2, LargestOf
<1> QED BY <1>3 DEF Max

-----------------------------------------------------------------------------
(* What a step may do to a row, a job and a reconciliation *)

Ages == 0 .. Window

\* What the steps write into a row leaves it a row.
LEMMA NewRowIsRow ==
  ASSUME NEW n \in Names, NEW kind \in {"upload", "generated"}, NEW v \in Versions
  PROVE  NewRow(n, kind, v) \in Row
<1> DEFINE st == "pending"
           z == 0
           g == FALSE
<1>1. st \in Statuses /\ z \in Nat /\ z \in Ages /\ g \in BOOLEAN
  BY NumbersOK DEF Statuses, Ages
<1> HIDE DEF st, z, g
<1>2. [name |-> n, kind |-> kind, status |-> st, size |-> v, attempts |-> z, age |-> z,
       prepared |-> g] \in Row
  BY <1>1 DEF Row, Ages
<1> QED BY <1>2 DEF NewRow, st, z, g

LEMMA RowReset ==
  ASSUME NEW r \in Row, NEW st \in Statuses, NEW v \in Versions, NEW k \in Nat, NEW g \in Ages,
         NEW p \in BOOLEAN
  PROVE  [r EXCEPT !.size = v, !.status = st, !.attempts = k, !.prepared = p, !.age = g] \in Row
BY DEF Row, Ages

LEMMA RowClaimed ==
  ASSUME NEW r \in Row, NEW st \in Statuses, NEW g \in Ages, NEW k \in Nat
  PROVE  [r EXCEPT !.status = st, !.age = g, !.attempts = k] \in Row
BY DEF Row, Ages

LEMMA RowFinished ==
  ASSUME NEW r \in Row, NEW st \in Statuses, NEW g \in Ages, NEW p \in BOOLEAN
  PROVE  [r EXCEPT !.status = st, !.prepared = p, !.age = g] \in Row
BY DEF Row, Ages

LEMMA RowStamped ==
  ASSUME NEW r \in Row, NEW st \in Statuses, NEW g \in Ages
  PROVE  [r EXCEPT !.status = st, !.age = g] \in Row
BY DEF Row, Ages

LEMMA RowMarked ==
  ASSUME NEW r \in Row, NEW st \in Statuses
  PROVE  [r EXCEPT !.status = st] \in Row
BY DEF Row, Ages

LEMMA RowAged ==
  ASSUME NEW r \in Row, NEW g \in Ages
  PROVE  [r EXCEPT !.age = g] \in Row
BY DEF Row, Ages

\* What the types say of one row, job or reconciliation.
LEMMA Typed ==
  ASSUME TypeOK
  PROVE  /\ rows \in [Ids -> Row \cup {NoRow}] /\ job \in [Workers -> Job \cup {Idle}]
         /\ disk \in [Names -> Versions] /\ arriving \in [Names -> Versions]
         /\ artifact \in [Ids -> Versions] /\ handled \in [Ids -> Nat]
         /\ version \in Nat /\ used \in SUBSET Ids
         /\ \A i \in Ids : Exists(i) => rows[i] \in Row /\ i \in used
         /\ \A w \in Workers : Busy(w) => job[w] \in Job /\ job[w].id \in Ids
                                          /\ job[w].name \in Names /\ job[w].text \in Nat
         /\ sync \in [Syncs -> SyncRec]
<1>1. \A i \in Ids : Exists(i) => rows[i] \in Row /\ i \in used
  BY DEF TypeOK, Exists
<1>2. \A w \in Workers : Busy(w) => job[w] \in Job
  BY DEF TypeOK, Busy
<1>3. \A k \in Job : k.id \in Ids /\ k.name \in Names /\ k.text \in Nat
  BY NumbersOK DEF Job
<1> QED BY <1>1, <1>2, <1>3, NumbersOK DEF TypeOK

\* The thread's record of an outcome, in its row and nowhere else.
Recorded(w, i) ==
  \/ rows' = rows
  \/ /\ Held(i)
     /\ \E st \in {"ready", "unsupported", "failed"} :
          /\ rows' = [rows EXCEPT ![i].status = st, ![i].prepared = (st = "ready"), ![i].age = 0]
          /\ st = "ready" => job[w].stage = "handled" /\ job[w].result = "ready"
  \/ /\ Held(i) /\ job[w].stage = "handled"
     /\ rows' = [rows EXCEPT ![i].status = "pending", ![i].age = 0]

\* A job that ends is recorded in its row and forgotten.
LEMMA RecordedBy ==
  ASSUME TypeOK, NEW w \in Workers, GiveUp(w) \/ Record(w)
  PROVE  Busy(w) /\ Recorded(w, job[w].id) /\ job' = [job EXCEPT ![w] = Idle]
<1>0. Busy(w) => job[w].result \in Results
  BY Typed DEF Job
<1>1. CASE GiveUp(w)
  BY <1>1 DEF GiveUp, FinishRow, Recorded
<1>2. CASE Record(w)
  <2> DEFINE result == job[w].result
             again == result = "retry" /\ job[w].attempts < MaxAttempts
             status == IF result = "retry" THEN "failed" ELSE result
  <2>1. Busy(w) /\ job[w].stage = "handled" /\ job' = [job EXCEPT ![w] = Idle]
        /\ rows' = IF again THEN RequeueRow(job[w].id)
                            ELSE FinishRow(job[w].id, status, status = "ready")
    BY <1>2 DEF Record
  <2>2. CASE again
    BY <2>1, <2>2 DEF RequeueRow, Recorded
  <2>3. CASE ~again
    <3>1. status \in {"ready", "unsupported", "failed"} /\ (status = "ready" => result = "ready")
      BY <1>0, <2>1 DEF Results
    <3> HIDE DEF status, again
    <3>2. rows' = IF Held(job[w].id) THEN [rows EXCEPT ![job[w].id].status = status,
                        ![job[w].id].prepared = (status = "ready"), ![job[w].id].age = 0] ELSE rows
      BY <2>1, <2>3 DEF FinishRow
    <3> QED BY <2>1, <3>1, <3>2 DEF Recorded
  <2> QED BY <2>1, <2>2, <2>3
<1> QED BY <1>1, <1>2

\* The steps that leave rows, jobs and reconciliations alone.
DiskStep ==
  \/ \E n \in Names : SaveUpload(n) \/ DeleteBytes(n) \/ SandboxWrite(n) \/ SandboxRemove(n)
  \/ UNCHANGED vars

\* The steps, by what they change.
LEMMA NextSteps ==
  [Next]_vars =>
    \/ DiskStep \/ Tick
    \/ \E n \in Names : RecordUpload(n)
    \/ \E i \in Ids : DeleteFile(i)
    \/ \E s \in Syncs : WalkPool(s) \/ ReadRows(s)
    \/ \E s \in Syncs : \E t \in sync[s].todo :
         ApplyDelete(s, t) \/ ApplyFlag(s, t) \/ ApplyCreate(s, t) \/ ApplyReingest(s, t)
    \/ \E w \in Workers : Claim(w) \/ GiveUp(w) \/ Record(w) \/ ReadFile(w) \/ Handle(w) \/ Lose(w)
BY DEF Next, People, Sandbox, Reconcile, Apply, Work, DiskStep

\* What was in the pool stays what was.
LEMMA WasKept ==
  ASSUME TypeOK, \A n \in Names : disk[n] <= version, [Next]_vars
  PROVE  /\ version' \in Nat /\ version <= version' /\ disk' \in [Names -> Versions]
         /\ \A n \in Names : disk'[n] <= version'
         /\ \A n \in Names, v \in Nat : Was(n, v) => Was(n, v)'
<1>0. version \in Nat /\ disk \in [Names -> Nat] /\ disk \in [Names -> Versions]
      /\ \A n \in Names : disk[n] \in Nat
  BY Typed, NumbersOK
<1>1. ASSUME disk' = disk, version' = version
      PROVE  /\ version' \in Nat /\ version <= version' /\ disk' \in [Names -> Versions]
             /\ \A n \in Names : disk'[n] <= version'
             /\ \A n \in Names, v \in Nat : Was(n, v) => Was(n, v)'
  BY <1>0, <1>1 DEF Was
<1>2. ASSUME NEW n \in Names, SaveUpload(n) \/ SandboxWrite(n)
      PROVE  /\ version' \in Nat /\ version <= version' /\ disk' \in [Names -> Versions]
             /\ \A m \in Names : disk'[m] <= version'
             /\ \A m \in Names, v \in Nat : Was(m, v) => Was(m, v)'
  <2>1. version' = version + 1 /\ version' \in Versions /\ disk' = [disk EXCEPT ![n] = version + 1]
    BY <1>0, <1>2, NumbersOK DEF SaveUpload, SandboxWrite, Versions
  <2>2. \A m \in Names : disk'[m] = IF m = n THEN version + 1 ELSE disk[m]
    BY <1>0, <2>1
  <2>3. \A m \in Names, v \in Nat : Was(m, v) => Was(m, v)'
    BY <1>0, <2>1, <2>2 DEF Was
  <2>4. disk' \in [Names -> Versions]
    BY <1>0, <2>1
  <2> QED BY <1>0, <2>1, <2>2, <2>3, <2>4
<1>3. ASSUME NEW n \in Names, DeleteBytes(n) \/ SandboxRemove(n)
      PROVE  /\ version' \in Nat /\ version <= version' /\ disk' \in [Names -> Versions]
             /\ \A m \in Names : disk'[m] <= version'
             /\ \A m \in Names, v \in Nat : Was(m, v) => Was(m, v)'
  <2>1. version' = version /\ disk' = [disk EXCEPT ![n] = 0]
    BY <1>3 DEF DeleteBytes, SandboxRemove
  <2>2. disk' \in [Names -> Versions] /\ \A m \in Names : disk'[m] = IF m = n THEN 0 ELSE disk[m]
    BY <1>0, <2>1, NumbersOK
  <2> QED BY <1>0, <2>1, <2>2 DEF Was
<1>4. \/ disk' = disk /\ version' = version
      \/ \E n \in Names : SaveUpload(n) \/ SandboxWrite(n) \/ DeleteBytes(n) \/ SandboxRemove(n)
  <2>1. ASSUME NEW w \in Workers,
               Claim(w) \/ GiveUp(w) \/ Record(w) \/ ReadFile(w) \/ Handle(w) \/ Lose(w)
        PROVE  disk' = disk /\ version' = version
    BY <2>1 DEF Claim, GiveUp, Record, ReadFile, Handle, Lose
  <2>2. ASSUME NEW s \in Syncs, NEW t, ApplyDelete(s, t) \/ ApplyFlag(s, t) \/ ApplyCreate(s, t)
                                         \/ ApplyReingest(s, t)
        PROVE  disk' = disk /\ version' = version
    BY <2>2 DEF ApplyDelete, ApplyFlag, ApplyCreate, ApplyReingest
  <2>3. ASSUME NEW s \in Syncs, WalkPool(s) \/ ReadRows(s)
        PROVE  disk' = disk /\ version' = version
    BY <2>3 DEF WalkPool, ReadRows
  <2>4. ASSUME Tick \/ (\E n \in Names : RecordUpload(n)) \/ (\E i \in Ids : DeleteFile(i))
               \/ UNCHANGED vars
        PROVE  disk' = disk /\ version' = version
    BY <2>4 DEF Tick, RecordUpload, DeleteFile, vars
  <2> QED BY <2>1, <2>2, <2>3, <2>4, NextSteps DEF DiskStep
<1> QED BY <1>1, <1>2, <1>3, <1>4

\* Every row is left alone, removed, made, written to or marked pending again.
RowMade(i) ==
  /\ i \in used' \ used
  /\ \E n \in Names, kind \in {"upload", "generated"}, v \in Versions :
       rows'[i] = NewRow(n, kind, v) /\ v > 0 /\ Was(n, v)
RowWritten(i) ==
  /\ Exists(i) /\ rows'[i] \in Row
  /\ rows'[i].name = rows[i].name /\ rows'[i].size = rows[i].size
RowRemarked(i) ==
  /\ Exists(i) /\ rows'[i] \in Row /\ rows'[i].name = rows[i].name
  /\ rows'[i].size > 0 /\ Was(rows[i].name, rows'[i].size)
RowMoves(i) ==
  rows'[i] = rows[i] \/ rows'[i] = NoRow \/ RowMade(i) \/ RowWritten(i) \/ RowRemarked(i)

\* A step that writes one row moves no other.
LEMMA OneRow ==
  ASSUME TypeOK, NEW i \in Ids, NEW r \in Row \cup {NoRow}, rows' = [rows EXCEPT ![i] = r],
         used \in SUBSET used', used' \in SUBSET Ids, RowMoves(i)
  PROVE  /\ rows' \in [Ids -> Row \cup {NoRow}] /\ used \in SUBSET used' /\ used' \in SUBSET Ids
         /\ \A j \in Ids : RowMoves(j)
<1>1. rows \in [Ids -> Row \cup {NoRow}]
  BY Typed
<1>2. rows' \in [Ids -> Row \cup {NoRow}] /\ \A j \in Ids \ {i} : rows'[j] = rows[j]
  BY <1>1
<1> QED BY <1>2 DEF RowMoves

\* How a step moves a row.
LEMMA RowsStep ==
  ASSUME TypeOK, IdsOK, VersionsOK, NamesOK, [Next]_vars
  PROVE  /\ rows' \in [Ids -> Row \cup {NoRow}] /\ used \in SUBSET used' /\ used' \in SUBSET Ids
         /\ \A i \in Ids : RowMoves(i)
<1> DEFINE Goal == /\ rows' \in [Ids -> Row \cup {NoRow}]
                   /\ used \in SUBSET used' /\ used' \in SUBSET Ids
                   /\ \A i \in Ids : RowMoves(i)
<1>0. /\ rows \in [Ids -> Row \cup {NoRow}] /\ used \in SUBSET Ids
      /\ \A i \in Ids : Exists(i) => rows[i] \in Row
  BY Typed
<1>e. ASSUME NEW i \in Ids, NEW r \in Row \cup {NoRow}, rows' = [rows EXCEPT ![i] = r],
             used \in SUBSET used', used' \in SUBSET Ids, RowMoves(i)
      PROVE  Goal
  BY <1>e, OneRow
<1> HIDE DEF Goal
<1>1. ASSUME rows' = rows, used' = used PROVE Goal
  BY <1>0, <1>1 DEF Goal, RowMoves
\* One row gets a value with its name and its size.
<1>2. ASSUME NEW i \in Ids, Exists(i), NEW r \in Row, r.name = rows[i].name, r.size = rows[i].size,
             rows' = [rows EXCEPT ![i] = r], used' = used
      PROVE  Goal
  <2>1. rows'[i] = r
    BY <1>0, <1>2
  <2>2. RowMoves(i)
    BY <1>2, <2>1 DEF RowMoves, RowWritten
  <2> QED BY <1>e, <1>0, <1>2, <2>2
\* One row is made.
<1>3. ASSUME Fresh # {}, NEW n \in Names, NEW kind \in {"upload", "generated"}, NEW v \in Versions,
             v > 0, Was(n, v), rows' = [rows EXCEPT ![NextId] = NewRow(n, kind, v)],
             used' = used \cup {NextId}
      PROVE  Goal
  <2>1. NextId \in Ids \ used
    BY <1>3, NextIdFresh
  <2> DEFINE i == NextId
             r == NewRow(n, kind, v)
  <2> HIDE DEF i
  <2>2. i \in Ids /\ rows'[i] = r /\ i \in used' \ used
    BY <1>0, <1>3, <2>1 DEF i
  <2>3. RowMade(i)
    BY <1>3, <2>2 DEF RowMade
  <2>4. r \in Row
    BY NewRowIsRow
  <2>5. rows' = [rows EXCEPT ![i] = r]
    BY <1>3 DEF i
  <2> HIDE DEF r
  <2>6. used \in SUBSET used' /\ used' \in SUBSET Ids
    BY <1>0, <1>3, <2>1
  <2> QED BY <1>e, <2>2, <2>3, <2>4, <2>5, <2>6 DEF RowMoves
\* One row is removed.
<1>4. ASSUME NEW i \in Ids, rows' = [rows EXCEPT ![i] = NoRow], used' = used PROVE Goal
  BY <1>e, <1>0, <1>4 DEF RowMoves
<1>5. ASSUME DiskStep PROVE Goal
  BY <1>1, <1>5 DEF DiskStep, SaveUpload, DeleteBytes, SandboxWrite, SandboxRemove, vars
<1>6. ASSUME Tick PROVE Goal
  <2>1. rows' = [i \in Ids |-> IF Exists(i) /\ rows[i].status = "processing" /\ rows[i].age < Window
                               THEN [rows[i] EXCEPT !.age = @ + 1] ELSE rows[i]]
        /\ used' = used
    BY <1>6 DEF Tick
  <2>2. ASSUME NEW i \in Ids PROVE rows'[i] \in Row \cup {NoRow} /\ RowMoves(i)
    <3>1. CASE Exists(i) /\ rows[i].status = "processing" /\ rows[i].age < Window
      <4>1. rows'[i] = [rows[i] EXCEPT !.age = rows[i].age + 1]
        BY <2>1, <3>1
      <4>2. rows[i] \in Row /\ rows[i].age + 1 \in Ages
        BY <1>0, <3>1, NumbersOK DEF Row, Ages
      <4>3. rows'[i] \in Row
        BY <4>1, <4>2, RowAged
      <4>4. rows'[i].name = rows[i].name /\ rows'[i].size = rows[i].size
        BY <4>1, <4>2 DEF Row
      <4> QED BY <3>1, <4>3, <4>4 DEF RowMoves, RowWritten
    <3>2. CASE ~(Exists(i) /\ rows[i].status = "processing" /\ rows[i].age < Window)
      BY <1>0, <2>1, <3>2 DEF RowMoves
    <3> QED BY <3>1, <3>2
  <2> QED BY <1>0, <2>1, <2>2 DEF Goal
<1>7. ASSUME NEW n \in Names, RecordUpload(n) PROVE Goal
  <2>1. arriving[n] \in Versions /\ arriving[n] > 0 /\ Was(n, arriving[n])
    <3>1. arriving[n] \in Versions /\ arriving[n] # 0
      BY <1>7, Typed DEF RecordUpload
    <3>2. Was(n, arriving[n])
      BY DEF VersionsOK
    <3> QED BY <3>1, <3>2, NumbersOK DEF Versions
  <2> QED BY <1>3, <1>7, <2>1 DEF RecordUpload
<1>8. ASSUME NEW i \in Ids, DeleteFile(i) PROVE Goal
  BY <1>4, <1>8 DEF DeleteFile
<1>9. ASSUME NEW s \in Syncs, WalkPool(s) \/ ReadRows(s) PROVE Goal
  BY <1>1, <1>9 DEF WalkPool, ReadRows
<1>10. ASSUME NEW s \in Syncs, NEW t \in sync[s].todo,
              ApplyDelete(s, t) \/ ApplyFlag(s, t) \/ ApplyCreate(s, t) \/ ApplyReingest(s, t)
       PROVE  Goal
  <2>0. /\ t.op # "create" => t.id \in Ids
        /\ t.name \in Names /\ t.size \in Versions /\ Was(t.name, t.size)
        /\ t.op \in {"create", "reingest"} => t.size > 0
        /\ t.op = "reingest" /\ Exists(t.id) => t.name = rows[t.id].name
    <3>1. t \in Todo
      BY Typed DEF SyncRec
    <3>2. t.op # "create" => t.id \in Ids
      BY <1>0 DEF IdsOK
    <3> QED BY <3>1, <3>2 DEF Todo, VersionsOK, NamesOK
  <2>1. CASE ApplyDelete(s, t)
    BY <1>4, <2>0, <2>1 DEF ApplyDelete
  <2>2. CASE ApplyFlag(s, t)
    <3>1. CASE Exists(t.id)
      <4> DEFINE r == [rows[t.id] EXCEPT !.status = "failed"]
      <4>1. t.id \in Ids /\ rows' = [rows EXCEPT ![t.id] = r] /\ used' = used
        BY <2>0, <2>2, <3>1 DEF ApplyFlag
      <4>2. rows[t.id] \in Row
        BY <1>0, <3>1, <4>1
      <4>3. r \in Row
        BY <4>2, RowMarked DEF Statuses
      <4>4. r.name = rows[t.id].name /\ r.size = rows[t.id].size
        BY <4>2 DEF Row
      <4> HIDE DEF r
      <4> QED BY <1>2, <3>1, <4>1, <4>3, <4>4
    <3>2. CASE ~Exists(t.id)
      BY <1>1, <2>2, <3>2 DEF ApplyFlag
    <3> QED BY <3>1, <3>2
  <2>3. CASE ApplyCreate(s, t)
    BY <1>3, <2>0, <2>3 DEF ApplyCreate
  <2>4. CASE ApplyReingest(s, t)
    <3>1. CASE Exists(t.id)
      <4> DEFINE r == [rows[t.id] EXCEPT !.size = t.size, !.status = "pending", !.attempts = 0,
                                         !.prepared = FALSE, !.age = 0]
                 i == t.id
      <4>1. i \in Ids /\ rows' = [rows EXCEPT ![i] = r] /\ used' = used /\ t.op = "reingest"
        BY <1>0, <2>0, <2>4, <3>1 DEF ApplyReingest
      <4>2. rows[i] \in Row
        BY <1>0, <3>1, <4>1
      <4>3. r \in Row
        <5> DEFINE st == "pending"
                   z == 0
                   g == FALSE
        <5>1. st \in Statuses /\ z \in Nat /\ z \in Ages /\ g \in BOOLEAN
          BY NumbersOK DEF Statuses, Ages
        <5> HIDE DEF st, z, g
        <5>2. [rows[i] EXCEPT !.size = t.size, !.status = st, !.attempts = z,
                              !.prepared = g, !.age = z] \in Row
          BY <2>0, <4>2, <5>1, RowReset
        <5> QED BY <5>2 DEF st, z, g
      <4>4. r.name = rows[i].name /\ r.size = t.size
        BY <4>2 DEF Row
      <4>5. rows'[i] = r
        BY <1>0, <4>1
      <4> HIDE DEF r, i
      <4>6. RowRemarked(i)
        BY <2>0, <3>1, <4>1, <4>3, <4>4, <4>5 DEF RowRemarked, i
      <4> QED BY <1>e, <1>0, <4>1, <4>3, <4>6 DEF RowMoves
    <3>2. CASE ~Exists(t.id)
      BY <1>1, <2>4, <3>2 DEF ApplyReingest
    <3> QED BY <3>1, <3>2
  <2> QED BY <1>10, <2>1, <2>2, <2>3, <2>4
<1>11. ASSUME NEW w \in Workers, Claim(w) PROVE Goal
  <2> DEFINE i == Min(Claimable)
             r == [rows[i] EXCEPT !.status = "processing", !.age = 0, !.attempts = @ + 1]
  <2>1. i \in Claimable
    BY <1>11, ClaimedIsClaimable DEF Claim
  <2>2. rows' = [rows EXCEPT ![i] = r] /\ used' = used
    BY <1>11 DEF Claim
  <2> HIDE DEF i
  <2>3. i \in Ids /\ Exists(i) /\ rows[i] \in Row
    BY <1>0, <2>1 DEF Claimable
  <2>4. r \in Row
    <3> DEFINE z == 0
               k == rows[i].attempts + 1
    <3>1. z \in Ages /\ k \in Nat
      BY <2>3, NumbersOK DEF Ages, Row
    <3> HIDE DEF z, k
    <3>2. [rows[i] EXCEPT !.status = "processing", !.age = z, !.attempts = k] \in Row
      BY <2>3, <3>1, RowClaimed DEF Statuses
    <3> QED BY <3>2 DEF z, k
  <2>5. r.name = rows[i].name /\ r.size = rows[i].size
    BY <2>3 DEF Row
  <2> HIDE DEF r
  <2> QED BY <1>2, <2>2, <2>3, <2>4, <2>5
<1>12. ASSUME NEW w \in Workers, GiveUp(w) \/ Record(w) PROVE Goal
  <2> DEFINE i == job[w].id
  <2>1. Busy(w) /\ Recorded(w, i) /\ used' = used
    BY <1>12, RecordedBy DEF GiveUp, Record
  <2>2. i \in Ids
    BY <2>1, Typed
  <2> HIDE DEF i
  <2>z. 0 \in Ages
    BY NumbersOK DEF Ages
  <2>3. CASE rows' = rows
    BY <1>1, <2>1, <2>3
  <2>4. ASSUME Held(i), NEW st \in {"ready", "unsupported", "failed"},
               rows' = [rows EXCEPT ![i].status = st, ![i].prepared = (st = "ready"), ![i].age = 0]
        PROVE Goal
    <3> DEFINE p == (st = "ready")
               z == 0
               r == [rows[i] EXCEPT !.status = st, !.prepared = p, !.age = z]
    <3>1. p \in BOOLEAN /\ z \in Ages /\ st \in Statuses /\ Exists(i) /\ rows[i] \in Row
      BY <1>0, <2>2, <2>4, NumbersOK DEF Held, Statuses, Ages
    <3>2. rows' = [rows EXCEPT ![i] = r]
      BY <2>4
    <3> HIDE DEF p, z
    <3>3. r \in Row
      BY <3>1, RowFinished
    <3>4. r.name = rows[i].name /\ r.size = rows[i].size
      BY <3>1 DEF Row
    <3> HIDE DEF r
    <3> QED BY <1>2, <2>1, <2>2, <3>1, <3>2, <3>3, <3>4
  <2>5. ASSUME Held(i), rows' = [rows EXCEPT ![i].status = "pending", ![i].age = 0]
        PROVE Goal
    <3> DEFINE st == "pending"
               z == 0
               r == [rows[i] EXCEPT !.status = st, !.age = z]
    <3>1. z \in Ages /\ st \in Statuses /\ Exists(i) /\ rows[i] \in Row
      BY <1>0, <2>2, <2>5, NumbersOK DEF Held, Statuses, Ages
    <3>2. rows' = [rows EXCEPT ![i] = r]
      BY <2>5
    <3> HIDE DEF st, z
    <3>3. r \in Row
      BY <3>1, RowStamped
    <3>4. r.name = rows[i].name /\ r.size = rows[i].size
      BY <3>1 DEF Row
    <3> HIDE DEF r
    <3> QED BY <1>2, <2>1, <2>2, <3>1, <3>2, <3>3, <3>4
  <2> QED BY <2>1, <2>3, <2>4, <2>5 DEF Recorded
<1>13. ASSUME NEW w \in Workers, ReadFile(w) \/ Handle(w) \/ Lose(w) PROVE Goal
  BY <1>1, <1>13 DEF ReadFile, Handle, Lose
<1>14. Goal
  BY <1>5, <1>6, <1>7, <1>8, <1>9, <1>10, <1>11, <1>12, <1>13, NextSteps
<1> QED BY <1>14 DEF Goal

Stages == {"claimed", "read", "handled"}
JobAges == 0 .. Headroom

\* What the steps write into a job leaves it a job.
LEMMA JobMade ==
  ASSUME NEW st \in Stages, NEW i \in Ids, NEW n \in Names, NEW k \in Nat, NEW g \in JobAges,
         NEW v \in Versions, NEW r \in Results, NEW m \in BOOLEAN
  PROVE  [stage |-> st, id |-> i, name |-> n, attempts |-> k, age |-> g, text |-> v,
          result |-> r, remarked |-> m] \in Job
BY DEF Job, Stages, JobAges

LEMMA JobRead ==
  ASSUME NEW k \in Job, NEW st \in Stages, NEW v \in Versions
  PROVE  [k EXCEPT !.stage = st, !.text = v] \in Job
BY DEF Job, Stages

LEMMA JobHandled ==
  ASSUME NEW k \in Job, NEW st \in Stages, NEW r \in Results
  PROVE  [k EXCEPT !.stage = st, !.result = r] \in Job
BY DEF Job, Stages

LEMMA JobAged ==
  ASSUME NEW k \in Job, NEW g \in JobAges
  PROVE  [k EXCEPT !.age = g] \in Job
BY DEF Job, JobAges

LEMMA JobRemarked ==
  ASSUME NEW k \in Job, NEW m \in BOOLEAN
  PROVE  [k EXCEPT !.remarked = m] \in Job
BY DEF Job

\* Every thread goes on as it was, is done, claims a row or works on.
JobClaimed(w) ==
  /\ job'[w] \in Job /\ job'[w].text = 0
  /\ Exists(job'[w].id) /\ job'[w].name = rows[job'[w].id].name
JobWorked(w) ==
  /\ Busy(w) /\ job'[w] \in Job /\ job'[w].id = job[w].id /\ job'[w].name = job[w].name
  /\ job'[w].text \in {job[w].text, disk[job[w].name]}
JobMoves(w) == job'[w] = job[w] \/ job'[w] = Idle \/ JobClaimed(w) \/ JobWorked(w)

\* How a step moves a worker's job.
LEMMA JobsStep ==
  ASSUME TypeOK, IdsOK, [Next]_vars
  PROVE  job' \in [Workers -> Job \cup {Idle}] /\ \A w \in Workers : JobMoves(w)
<1> DEFINE Goal == job' \in [Workers -> Job \cup {Idle}] /\ \A w \in Workers : JobMoves(w)
<1>0. /\ job \in [Workers -> Job \cup {Idle}] /\ rows \in [Ids -> Row \cup {NoRow}]
      /\ \A w \in Workers : Busy(w) => job[w] \in Job
  BY Typed
<1>e. ASSUME NEW w \in Workers, NEW k \in Job \cup {Idle}, job' = [job EXCEPT ![w] = k], JobMoves(w)
      PROVE  Goal
  <2>1. job' \in [Workers -> Job \cup {Idle}] /\ \A v \in Workers \ {w} : job'[v] = job[v]
    BY <1>0, <1>e
  <2> QED BY <1>e, <2>1 DEF JobMoves
<1> HIDE DEF Goal
<1>1. ASSUME job' = job PROVE Goal
  BY <1>0, <1>1 DEF Goal, JobMoves
<1>2. ASSUME NEW w \in Workers, job' = [job EXCEPT ![w] = Idle] PROVE Goal
  BY <1>0, <1>2, <1>e DEF JobMoves
<1>3. ASSUME NEW w \in Workers, Busy(w), NEW k \in Job, k.id = job[w].id, k.name = job[w].name,
             k.text \in {job[w].text, disk[job[w].name]}, job' = [job EXCEPT ![w] = k]
      PROVE  Goal
  <2>1. job'[w] = k
    BY <1>0, <1>3
  <2> QED BY <1>e, <1>3, <2>1 DEF JobMoves, JobWorked
<1>5. ASSUME DiskStep \/ (\E n \in Names : RecordUpload(n)) \/ (\E i \in Ids : DeleteFile(i))
             \/ (\E s \in Syncs : WalkPool(s) \/ ReadRows(s))
      PROVE  Goal
  BY <1>1, <1>5 DEF DiskStep, SaveUpload, DeleteBytes, SandboxWrite, SandboxRemove, vars,
                    RecordUpload, DeleteFile, WalkPool, ReadRows
<1>6. ASSUME Tick PROVE Goal
  <2>1. job' = [w \in Workers |-> IF Busy(w) THEN [job[w] EXCEPT !.age = @ + 1] ELSE Idle]
        /\ \A w \in Workers : Busy(w) => job[w].age < Headroom
    BY <1>6 DEF Tick
  <2>2. ASSUME NEW w \in Workers PROVE job'[w] \in Job \cup {Idle} /\ JobMoves(w)
    <3>1. CASE Busy(w)
      <4>1. job'[w] = [job[w] EXCEPT !.age = job[w].age + 1]
        BY <2>1, <3>1
      <4>2. job[w] \in Job /\ job[w].age + 1 \in JobAges
        BY <1>0, <2>1, <3>1, NumbersOK DEF Job, JobAges
      <4>3. job'[w] \in Job
        BY <4>1, <4>2, JobAged
      <4>4. job'[w].id = job[w].id /\ job'[w].name = job[w].name /\ job'[w].text = job[w].text
        BY <4>1, <4>2 DEF Job
      <4> QED BY <3>1, <4>3, <4>4 DEF JobMoves, JobWorked
    <3>2. CASE ~Busy(w)
      BY <1>0, <2>1, <3>2 DEF JobMoves
    <3> QED BY <3>1, <3>2
  <2> QED BY <2>1, <2>2 DEF Goal
<1>7. ASSUME NEW s \in Syncs, NEW t \in sync[s].todo,
              ApplyDelete(s, t) \/ ApplyFlag(s, t) \/ ApplyCreate(s, t) \/ ApplyReingest(s, t)
       PROVE  Goal
  <2>1. CASE job' = job
    BY <1>1, <2>1
  <2>2. CASE Remark(t.id)
    <3>1. job' = [w \in Workers |-> IF w \in Holders(t.id) THEN [job[w] EXCEPT !.remarked = TRUE]
                                                           ELSE job[w]]
      BY <2>2 DEF Remark
    <3>2. ASSUME NEW w \in Workers PROVE job'[w] \in Job \cup {Idle} /\ JobMoves(w)
      <4>1. CASE w \in Holders(t.id)
        <5>1. job'[w] = [job[w] EXCEPT !.remarked = TRUE] /\ Busy(w) /\ job[w] \in Job
          BY <1>0, <3>1, <4>1 DEF Holders
        <5>2. job'[w] \in Job
          BY <5>1, JobRemarked
        <5>3. job'[w].id = job[w].id /\ job'[w].name = job[w].name /\ job'[w].text = job[w].text
          BY <5>1 DEF Job
        <5> QED BY <5>1, <5>2, <5>3 DEF JobMoves, JobWorked
      <4>2. CASE w \notin Holders(t.id)
        BY <1>0, <3>1, <4>2 DEF JobMoves
      <4> QED BY <4>1, <4>2
    <3> QED BY <3>1, <3>2 DEF Goal
  <2> QED BY <1>7, <2>1, <2>2 DEF ApplyDelete, ApplyFlag, ApplyCreate, ApplyReingest
<1>8. ASSUME NEW w \in Workers, Claim(w) PROVE Goal
  <2> DEFINE i == Min(Claimable)
             k == [stage |-> "claimed", id |-> i, name |-> rows[i].name,
                   attempts |-> rows[i].attempts + 1, age |-> 0,
                   text |-> 0, result |-> "failed", remarked |-> FALSE]
  <2>1. i \in Claimable
    BY <1>8, ClaimedIsClaimable DEF Claim
  <2>2. job' = [job EXCEPT ![w] = k]
    BY <1>8 DEF Claim
  <2> HIDE DEF i
  <2>3. i \in Ids /\ Exists(i) /\ rows[i] \in Row
    BY <2>1, Typed DEF Claimable
  <2>4. k \in Job
    <3> DEFINE st == "claimed"
               n == rows[i].name
               z == 0
               u == rows[i].attempts + 1
               r == "failed"
    <3>1. st \in Stages /\ n \in Names /\ z \in JobAges /\ z \in Versions /\ u \in Nat /\ r \in Results
      BY <2>3, NumbersOK DEF Stages, JobAges, Row, Results
    <3> HIDE DEF st, n, z, u, r
    <3>2. [stage |-> st, id |-> i, name |-> n, attempts |-> u, age |-> z, text |-> z,
           result |-> r, remarked |-> FALSE] \in Job
      BY <2>3, <3>1, JobMade
    <3> QED BY <3>2 DEF st, n, z, u, r
  <2>5. k.text = 0 /\ k.id = i /\ k.name = rows[i].name
    OBVIOUS
  <2> HIDE DEF k
  <2>6. job'[w] = k
    BY <1>0, <2>2
  <2> QED BY <1>e, <2>2, <2>3, <2>4, <2>5, <2>6 DEF JobMoves, JobClaimed
<1>9. ASSUME NEW w \in Workers, GiveUp(w) \/ Record(w) \/ Lose(w) PROVE Goal
  BY <1>2, <1>9 DEF GiveUp, Record, Lose
<1>10. ASSUME NEW w \in Workers, ReadFile(w) PROVE Goal
  <2> DEFINE k == [job[w] EXCEPT !.stage = "read", !.text = disk[job[w].name]]
  <2>1. Busy(w) /\ job' = [job EXCEPT ![w] = k]
    BY <1>10 DEF ReadFile
  <2>2. job[w] \in Job /\ disk[job[w].name] \in Versions
    BY <2>1, Typed
  <2>3. k \in Job
    BY <2>2, JobRead DEF Stages
  <2>4. k.id = job[w].id /\ k.name = job[w].name /\ k.text = disk[job[w].name]
    BY <2>2 DEF Job
  <2> HIDE DEF k
  <2> QED BY <1>3, <2>1, <2>3, <2>4
<1>11. ASSUME NEW w \in Workers, Handle(w) PROVE Goal
  <2>1. PICK r \in Results : job' = [job EXCEPT ![w].stage = "handled", ![w].result = r]
    BY <1>11 DEF Handle
  <2> DEFINE k == [job[w] EXCEPT !.stage = "handled", !.result = r]
  <2>2. Busy(w) /\ job[w] \in Job /\ job' = [job EXCEPT ![w] = k]
    BY <1>0, <1>11, <2>1 DEF Handle
  <2>3. k \in Job
    BY <2>2, JobHandled DEF Stages
  <2>4. k.id = job[w].id /\ k.name = job[w].name /\ k.text = job[w].text
    BY <2>2 DEF Job
  <2> HIDE DEF k
  <2> QED BY <1>3, <2>2, <2>3, <2>4
<1>12. Goal
  BY <1>5, <1>6, <1>7, <1>8, <1>9, <1>10, <1>11, NextSteps
<1> QED BY <1>12 DEF Goal

\* Every reconciliation lists what is in the pool, and plans from its list.
SyncMoves(s) ==
  /\ \A n \in Names : sync'[s].listing[n] \in {0, disk[n], sync[s].listing[n]}
  /\ sync'[s].todo \subseteq sync[s].todo \cup PlanPoolSync(sync[s].listing)

\* What a plan wants done is of rows and files that were there.
LEMMA PlanTyped ==
  ASSUME TypeOK, IdsOK, NEW onDisk \in [Names -> Versions], NEW t \in PlanPoolSync(onDisk)
  PROVE  /\ t \in Todo /\ t.size \in {0, onDisk[t.name]}
         /\ t.op # "create" => t.id \in used /\ Exists(t.id) /\ t.name = rows[t.id].name
         /\ t.op \in {"create", "reingest"} => t.size # 0
<1>0. /\ \A i \in Ids : Exists(i) => i \in used /\ rows[i].name \in Names
      /\ 0 \in Versions
  BY Typed, NumbersOK DEF Row
<1>1. ASSUME NEW i \in Ids, Exists(i), NEW op \in {"delete", "flag"},
             t = [op |-> op, id |-> i, name |-> rows[i].name, size |-> 0]
      PROVE  /\ t \in Todo /\ t.size \in {0, onDisk[t.name]}
             /\ t.op # "create" => t.id \in used /\ Exists(t.id) /\ t.name = rows[t.id].name
             /\ t.op \in {"create", "reingest"} => t.size # 0
  BY <1>0, <1>1 DEF Todo
<1>2. ASSUME NEW n \in Names, onDisk[n] /= 0,
             t = [op |-> "create", id |-> 0, name |-> n, size |-> onDisk[n]]
      PROVE  /\ t \in Todo /\ t.size \in {0, onDisk[t.name]}
             /\ t.op # "create" => t.id \in used /\ Exists(t.id) /\ t.name = rows[t.id].name
             /\ t.op \in {"create", "reingest"} => t.size # 0
  BY <1>2 DEF Todo
<1>3. ASSUME NEW n \in Names, onDisk[n] /= 0, RowsNamed(n) # {},
             t = [op |-> "reingest", id |-> Max(RowsNamed(n)), name |-> n, size |-> onDisk[n]]
      PROVE  /\ t \in Todo /\ t.size \in {0, onDisk[t.name]}
             /\ t.op # "create" => t.id \in used /\ Exists(t.id) /\ t.name = rows[t.id].name
             /\ t.op \in {"create", "reingest"} => t.size # 0
  <2>1. Max(RowsNamed(n)) \in RowsNamed(n)
    BY <1>3, LastNamed
  <2> DEFINE i == Max(RowsNamed(n))
  <2> HIDE DEF i
  <2>2. i \in Ids /\ Exists(i) /\ rows[i].name = n
    BY <2>1 DEF RowsNamed, i
  <2>3. t = [op |-> "reingest", id |-> i, name |-> n, size |-> onDisk[n]]
    BY <1>3 DEF i
  <2> QED BY <1>0, <1>3, <2>2, <2>3 DEF Todo
<1> QED BY <1>1, <1>2, <1>3 DEF PlanPoolSync

\* How a step moves a pass over the pool.
LEMMA SyncsStep ==
  ASSUME TypeOK, IdsOK, [Next]_vars
  PROVE  sync' \in [Syncs -> SyncRec] /\ \A s \in Syncs : SyncMoves(s)
<1> DEFINE Goal == sync' \in [Syncs -> SyncRec] /\ \A s \in Syncs : SyncMoves(s)
<1>0. sync \in [Syncs -> SyncRec] /\ disk \in [Names -> Versions] /\ 0 \in Versions
  BY Typed, NumbersOK
<1>r. Rest \in SyncRec /\ Rest.todo = {} /\ \A n \in Names : Rest.listing[n] = 0
  BY <1>0 DEF Rest, SyncRec
<1>e. ASSUME NEW s \in Syncs, NEW y \in SyncRec, sync' = [sync EXCEPT ![s] = y],
             \A n \in Names : y.listing[n] \in {0, disk[n], sync[s].listing[n]},
             y.todo \subseteq sync[s].todo \cup PlanPoolSync(sync[s].listing)
      PROVE  Goal
  BY <1>0, <1>e DEF SyncMoves
<1> HIDE DEF Goal
<1>f. ASSUME NEW s \in Syncs, NEW T, T \subseteq sync[s].todo \cup PlanPoolSync(sync[s].listing),
             sync' = [sync EXCEPT ![s] = Finished(T)]
      PROVE  Goal
  <2>1. T \in SUBSET Todo
    <3>1. sync[s].todo \in SUBSET Todo /\ sync[s].listing \in [Names -> Versions]
      BY <1>0 DEF SyncRec
    <3> QED BY <1>f, <3>1, PlanTyped
  <2>2. [Rest EXCEPT !.stage = "applying", !.todo = T] \in SyncRec
    BY <1>0, <2>1 DEF Rest, SyncRec
  <2>3. /\ Finished(T) \in SyncRec /\ Finished(T).todo = T
        /\ \A n \in Names : Finished(T).listing[n] = 0
    BY <1>r, <2>2 DEF Finished, Rest
  <2> DEFINE y == Finished(T)
  <2>4. /\ y \in SyncRec /\ y.todo = T /\ \A n \in Names : y.listing[n] = 0
        /\ sync' = [sync EXCEPT ![s] = y]
    BY <1>f, <2>3
  <2> HIDE DEF y
  <2>5. \A n \in Names : y.listing[n] \in {0, disk[n], sync[s].listing[n]}
    BY <2>4
  <2> QED BY <1>e, <1>f, <2>4, <2>5
<1>1. ASSUME sync' = sync PROVE Goal
  BY <1>0, <1>1 DEF Goal, SyncMoves
<1>2. ASSUME NEW s \in Syncs, WalkPool(s) PROVE Goal
  <2> DEFINE y == [Rest EXCEPT !.stage = "listed", !.listing = disk]
  <2>1. y \in SyncRec /\ y.listing = disk /\ y.todo = {}
    BY <1>0 DEF Rest, SyncRec
  <2>2. sync' = [sync EXCEPT ![s] = y]
    BY <1>2 DEF WalkPool
  <2> HIDE DEF y
  <2> QED BY <1>e, <2>1, <2>2
<1>3. ASSUME NEW s \in Syncs, ReadRows(s) PROVE Goal
  BY <1>3, <1>f DEF ReadRows
<1>4. ASSUME NEW s \in Syncs, NEW t,
             ApplyDelete(s, t) \/ ApplyFlag(s, t) \/ ApplyCreate(s, t) \/ ApplyReingest(s, t)
      PROVE  Goal
  <2>1. CASE sync' = [sync EXCEPT ![s] = Finished(@.todo \ {t})]
    BY <1>f, <2>1
  <2>2. CASE sync' = [sync EXCEPT ![s] = Rest]
    <3> DEFINE y == Rest
    <3>1. y \in SyncRec /\ y.todo = {} /\ sync' = [sync EXCEPT ![s] = y]
      BY <1>r, <2>2
    <3>2. \A n \in Names : y.listing[n] \in {0, disk[n], sync[s].listing[n]}
      BY <1>r
    <3> HIDE DEF y
    <3> QED BY <1>e, <3>1, <3>2
  <2> QED BY <1>4, <2>1, <2>2 DEF ApplyDelete, ApplyFlag, ApplyCreate, ApplyReingest
<1>5. ASSUME DiskStep \/ Tick \/ (\E n \in Names : RecordUpload(n)) \/ (\E i \in Ids : DeleteFile(i))
      PROVE  Goal
  BY <1>1, <1>5 DEF DiskStep, SaveUpload, DeleteBytes, SandboxWrite, SandboxRemove, vars,
                    RecordUpload, DeleteFile, Tick
<1>6. ASSUME NEW w \in Workers,
             Claim(w) \/ GiveUp(w) \/ Record(w) \/ ReadFile(w) \/ Handle(w) \/ Lose(w)
      PROVE  Goal
  BY <1>1, <1>6 DEF Claim, GiveUp, Record, ReadFile, Handle, Lose
<1>7. Goal
  BY <1>2, <1>3, <1>4, <1>5, <1>6, NextSteps
<1> QED BY <1>7 DEF Goal

-----------------------------------------------------------------------------
(* Types, ids, versions and names, step by step *)

\* Who changes the other variables.
LEMMA Frames ==
  ASSUME [Next]_vars
  PROVE  /\ arriving' = arriving \/ \E n \in Names : SaveUpload(n) \/ RecordUpload(n)
         /\ leaving' = leaving \/ (\E n \in Names : DeleteBytes(n)) \/ \E i \in Ids : DeleteFile(i)
         /\ artifact' = artifact \/ \E w \in Workers : Handle(w)
         /\ losses' = losses \/ \E w \in Workers : Lose(w)
         /\ \/ handled' = handled
            \/ \E w \in Workers : ReadFile(w)
            \/ \E s \in Syncs : \E t \in sync[s].todo : ApplyReingest(s, t)
         /\ crossed' = crossed \/ \E w \in Workers : Claim(w)
<1> DEFINE Goal ==
         /\ arriving' = arriving \/ \E n \in Names : SaveUpload(n) \/ RecordUpload(n)
         /\ leaving' = leaving \/ (\E n \in Names : DeleteBytes(n)) \/ \E i \in Ids : DeleteFile(i)
         /\ artifact' = artifact \/ \E w \in Workers : Handle(w)
         /\ losses' = losses \/ \E w \in Workers : Lose(w)
         /\ \/ handled' = handled
            \/ \E w \in Workers : ReadFile(w)
            \/ \E s \in Syncs : \E t \in sync[s].todo : ApplyReingest(s, t)
         /\ crossed' = crossed \/ \E w \in Workers : Claim(w)
<1>1. ASSUME DiskStep PROVE Goal
  BY <1>1 DEF DiskStep, SaveUpload, DeleteBytes, SandboxWrite, SandboxRemove, vars
<1>2. ASSUME Tick \/ (\E n \in Names : RecordUpload(n)) \/ (\E i \in Ids : DeleteFile(i))
      PROVE  Goal
  BY <1>2 DEF Tick, RecordUpload, DeleteFile
<1>3. ASSUME NEW s \in Syncs, WalkPool(s) \/ ReadRows(s) PROVE Goal
  BY <1>3 DEF WalkPool, ReadRows
<1>4. ASSUME NEW s \in Syncs, NEW t \in sync[s].todo,
             ApplyDelete(s, t) \/ ApplyFlag(s, t) \/ ApplyCreate(s, t) \/ ApplyReingest(s, t)
      PROVE  Goal
  BY <1>4 DEF ApplyDelete, ApplyFlag, ApplyCreate, ApplyReingest
<1>5. ASSUME NEW w \in Workers,
             Claim(w) \/ GiveUp(w) \/ Record(w) \/ ReadFile(w) \/ Handle(w) \/ Lose(w)
      PROVE  Goal
  BY <1>5 DEF Claim, GiveUp, Record, ReadFile, Handle, Lose
<1> HIDE DEF Goal
<1>6. Goal
  BY <1>1, <1>2, <1>3, <1>4, <1>5, NextSteps
<1> QED BY <1>6 DEF Goal

\* An upload on its way has a version its file had.
LEMMA ArrivingStep ==
  ASSUME TypeOK, VersionsOK, [Next]_vars
  PROVE  arriving' \in [Names -> Versions] /\ \A n \in Names : Was(n, arriving[n])'
<1>0. /\ arriving \in [Names -> Versions] /\ Versions \subseteq Nat /\ 0 \in Versions
      /\ disk \in [Names -> Versions]
      /\ \A n \in Names : Was(n, arriving[n]) /\ disk[n] <= version
  BY Typed, NumbersOK DEF VersionsOK
<1>1. /\ version' \in Nat /\ disk' \in [Names -> Versions]
      /\ \A n \in Names, v \in Nat : Was(n, v) => Was(n, v)'
  BY <1>0, WasKept
<1>2. \A n \in Names : arriving[n] \in Nat
  BY <1>0
<1>3. CASE arriving' = arriving
  BY <1>0, <1>1, <1>2, <1>3 DEF Was
<1>4. ASSUME NEW m \in Names, SaveUpload(m)
      PROVE  arriving' \in [Names -> Versions] /\ \A n \in Names : Was(n, arriving[n])'
  <2>1. /\ arriving' = [arriving EXCEPT ![m] = version'] /\ version' \in Versions
        /\ disk' = [disk EXCEPT ![m] = version']
    BY <1>4, Typed, NumbersOK DEF SaveUpload, Versions
  <2>2. arriving'[m] = version' /\ disk'[m] = version'
    BY <1>0, <2>1
  <2>3. \A n \in Names \ {m} : arriving'[n] = arriving[n]
    BY <1>0, <2>1
  <2>4. Was(m, arriving[m])'
    BY <1>1, <2>2 DEF Was
  <2>5. ASSUME NEW n \in Names \ {m} PROVE Was(n, arriving[n])'
    <3>1. Was(n, arriving[n])
      BY <1>0
    <3> QED BY <1>1, <1>2, <2>3, <3>1 DEF Was
  <2> QED BY <1>0, <2>1, <2>4, <2>5
<1>5. ASSUME NEW m \in Names, RecordUpload(m)
      PROVE  arriving' \in [Names -> Versions] /\ \A n \in Names : Was(n, arriving[n])'
  <2>1. arriving' = [arriving EXCEPT ![m] = 0]
    BY <1>5 DEF RecordUpload
  <2>2. \A n \in Names : arriving'[n] \in {0, arriving[n]}
    BY <1>0, <2>1
  <2>3. ASSUME NEW n \in Names PROVE Was(n, arriving[n])'
    <3>0. disk'[n] \in Nat
      BY <1>0, <1>1
    <3>1. Was(n, arriving[n])
      BY <1>0
    <3> QED BY <1>1, <1>2, <2>2, <3>0, <3>1 DEF Was
  <2> QED BY <1>0, <2>1, <2>3
<1> QED BY <1>3, <1>4, <1>5, Frames

\* The types of the rest.
LEMMA VersionStep ==
  ASSUME TypeOK, [Next]_vars
  PROVE  version' \in Versions
<1>0. version \in Versions /\ version \in Nat /\ MaxVersion \in Nat
  BY Typed, NumbersOK DEF TypeOK
<1>1. ASSUME NEW n \in Names, SaveUpload(n) \/ SandboxWrite(n) PROVE version' \in Versions
  BY <1>0, <1>1 DEF SaveUpload, SandboxWrite, Versions
<1>2. ASSUME NEW n \in Names, DeleteBytes(n) \/ SandboxRemove(n) PROVE version' \in Versions
  BY <1>0, <1>2 DEF DeleteBytes, SandboxRemove
<1>3. ASSUME NEW w \in Workers,
             Claim(w) \/ GiveUp(w) \/ Record(w) \/ ReadFile(w) \/ Handle(w) \/ Lose(w)
      PROVE  version' \in Versions
  BY <1>0, <1>3 DEF Claim, GiveUp, Record, ReadFile, Handle, Lose
<1>4. ASSUME NEW s \in Syncs, NEW t, ApplyDelete(s, t) \/ ApplyFlag(s, t) \/ ApplyCreate(s, t)
                                       \/ ApplyReingest(s, t)
      PROVE  version' \in Versions
  BY <1>0, <1>4 DEF ApplyDelete, ApplyFlag, ApplyCreate, ApplyReingest
<1>5. ASSUME NEW s \in Syncs, WalkPool(s) \/ ReadRows(s) PROVE version' \in Versions
  BY <1>0, <1>5 DEF WalkPool, ReadRows
<1>6. ASSUME Tick \/ (\E n \in Names : RecordUpload(n)) \/ (\E i \in Ids : DeleteFile(i))
             \/ UNCHANGED vars
      PROVE  version' \in Versions
  BY <1>0, <1>6 DEF Tick, RecordUpload, DeleteFile, vars
<1> QED BY <1>1, <1>2, <1>3, <1>4, <1>5, <1>6, NextSteps DEF DiskStep

\* Prepared text is what some thread read.
LEMMA ArtifactStep ==
  ASSUME TypeOK, [Next]_vars
  PROVE  /\ artifact' \in [Ids -> Versions]
         /\ \A i \in Ids : \/ artifact'[i] = artifact[i]
                           \/ \E w \in Workers : Busy(w) /\ artifact'[i] = job[w].text
<1>0. artifact \in [Ids -> Versions]
  BY Typed
<1>1. CASE artifact' = artifact
  BY <1>0, <1>1
<1>2. ASSUME NEW w \in Workers, Handle(w)
      PROVE  /\ artifact' \in [Ids -> Versions]
             /\ \A i \in Ids : \/ artifact'[i] = artifact[i]
                               \/ \E v \in Workers : Busy(v) /\ artifact'[i] = job[v].text
  <2>1. /\ Busy(w)
        /\ artifact' = artifact \/ artifact' = [artifact EXCEPT ![job[w].id] = job[w].text]
    BY <1>2 DEF Handle
  <2>2. job[w] \in Job
    BY <2>1, Typed
  <2>3. job[w].text \in Versions
    BY <2>2 DEF Job
  <2>4. \A i \in Ids : artifact'[i] \in {artifact[i], job[w].text}
    BY <1>0, <2>1
  <2> QED BY <1>0, <2>1, <2>3, <2>4
<1> QED BY <1>1, <1>2, Frames

\* Only ids that were handed out are counted.
LEMMA HandledStep ==
  ASSUME TypeOK, IdsOK, [Next]_vars
  PROVE  handled' \in [Ids -> Nat] /\ \A i \in Ids \ used : handled'[i] = handled[i]
<1>0. handled \in [Ids -> Nat] /\ used \in SUBSET Ids
  BY Typed
<1>1. CASE handled' = handled
  BY <1>0, <1>1
<1>e. ASSUME NEW i \in used, NEW k \in Nat, handled' = [handled EXCEPT ![i] = k]
      PROVE  handled' \in [Ids -> Nat] /\ \A j \in Ids \ used : handled'[j] = handled[j]
  BY <1>0, <1>e
<1>2. ASSUME NEW w \in Workers, ReadFile(w)
      PROVE  handled' \in [Ids -> Nat] /\ \A i \in Ids \ used : handled'[i] = handled[i]
  <2>1. /\ Busy(w)
        /\ handled' = handled \/ handled' = [handled EXCEPT ![job[w].id] = handled[job[w].id] + 1]
    BY <1>2 DEF ReadFile
  <2>2. job[w].id \in used /\ job[w].id \in Ids
    BY <1>0, <2>1 DEF IdsOK
  <2>3. handled[job[w].id] + 1 \in Nat
    BY <1>0, <2>2
  <2> QED BY <1>1, <1>e, <2>1, <2>2, <2>3
<1>3. ASSUME NEW s \in Syncs, NEW t \in sync[s].todo, ApplyReingest(s, t)
      PROVE  handled' \in [Ids -> Nat] /\ \A i \in Ids \ used : handled'[i] = handled[i]
  <2>1. handled' = handled \/ handled' = [handled EXCEPT ![t.id] = 0]
    BY <1>3 DEF ApplyReingest, Remark
  <2>2. t.id \in used
    BY <1>3 DEF ApplyReingest, Due, IdsOK
  <2> QED BY <1>1, <1>e, <2>1, <2>2
<1> QED BY <1>1, <1>2, <1>3, Frames

\* A row that was claimed while a thread worked on it stays marked.
LEMMA CrossedStep ==
  ASSUME TypeOK, [Next]_vars
  PROVE  crossed' \in SUBSET Ids /\ crossed \in SUBSET crossed'
<1>0. crossed \in SUBSET Ids
  BY DEF TypeOK
<1>1. ASSUME NEW w \in Workers, Claim(w)
      PROVE  crossed' \in SUBSET Ids /\ crossed \in SUBSET crossed'
  <2> DEFINE i == Min(Claimable)
  <2>1. i \in Claimable /\ (crossed' = crossed \/ crossed' = crossed \cup {i})
    BY <1>1, ClaimedIsClaimable DEF Claim
  <2> HIDE DEF i
  <2> QED BY <1>0, <2>1 DEF Claimable
<1> QED BY <1>0, <1>1, Frames

\* Every step keeps the types.
LEMMA TypeStep ==
  ASSUME TypeOK, IdsOK, VersionsOK, NamesOK, [Next]_vars
  PROVE  TypeOK'
<1>1. /\ rows' \in [Ids -> Row \cup {NoRow}] /\ used \in SUBSET used' /\ used' \in SUBSET Ids
      /\ \A i \in Ids : RowMoves(i)
  BY RowsStep
<1>2. \A i \in Ids : rows'[i] # NoRow => i \in used'
  BY <1>1, Typed DEF RowMoves, RowMade, RowWritten, RowRemarked, Exists
<1>3. job' \in [Workers -> Job \cup {Idle}] /\ sync' \in [Syncs -> SyncRec]
  BY JobsStep, SyncsStep
<1>4. disk' \in [Names -> Versions] /\ arriving' \in [Names -> Versions] /\ version' \in Versions
  BY WasKept, ArrivingStep, VersionStep DEF VersionsOK
<1>5. artifact' \in [Ids -> Versions] /\ handled' \in [Ids -> Nat] /\ crossed' \in SUBSET Ids
  BY ArtifactStep, HandledStep, CrossedStep
<1>6. losses' \in 0 .. MaxLosses
  <2>1. losses \in 0 .. MaxLosses
    BY DEF TypeOK
  <2>2. ASSUME NEW w \in Workers, Lose(w) PROVE losses' \in 0 .. MaxLosses
    BY <2>1, <2>2, NumbersOK DEF Lose
  <2> QED BY <2>1, <2>2, Frames
<1>7. leaving' \in SUBSET Names
  <2>1. leaving \in SUBSET Names
    BY DEF TypeOK
  <2>2. ASSUME NEW n \in Names, DeleteBytes(n) PROVE leaving' \in SUBSET Names
    BY <2>1, <2>2 DEF DeleteBytes
  <2>3. ASSUME NEW i \in Ids, DeleteFile(i) PROVE leaving' \in SUBSET Names
    <3>1. leaving' = leaving \cup {rows[i].name} /\ rows[i] \in Row
      BY <2>3, Typed DEF DeleteFile
    <3>2. rows[i].name \in Names
      BY <3>1 DEF Row
    <3> QED BY <2>1, <3>1, <3>2
  <2> QED BY <2>1, <2>2, <2>3, Frames
<1> QED BY <1>1, <1>2, <1>3, <1>4, <1>5, <1>6, <1>7 DEF TypeOK

\* Every id that is mentioned has been given out.
LEMMA IdsStep ==
  ASSUME TypeOK, IdsOK, VersionsOK, NamesOK, [Next]_vars
  PROVE  IdsOK'
<1>1. /\ used \in SUBSET used' /\ used' \in SUBSET Ids
      /\ \A w \in Workers : JobMoves(w)
      /\ \A s \in Syncs : SyncMoves(s)
  BY RowsStep, JobsStep, SyncsStep
<1>2. used' = used \/ \E j \in Ids : used' = used \cup {j}
  <2>1. ASSUME Fresh # {} PROVE NextId \in Ids
    BY <2>1, NextIdFresh
  <2>2. ASSUME DiskStep \/ Tick \/ (\E i \in Ids : DeleteFile(i))
        PROVE  used' = used
    BY <2>2 DEF DiskStep, SaveUpload, DeleteBytes, SandboxWrite, SandboxRemove, vars, Tick, DeleteFile
  <2>3. ASSUME NEW n \in Names, RecordUpload(n) PROVE Fresh # {} /\ used' = used \cup {NextId}
    BY <2>3 DEF RecordUpload
  <2>4. ASSUME NEW s \in Syncs, NEW t, ApplyDelete(s, t) \/ ApplyFlag(s, t) \/ ApplyReingest(s, t)
                                       \/ WalkPool(s) \/ ReadRows(s)
        PROVE  used' = used
    BY <2>4 DEF ApplyDelete, ApplyFlag, ApplyReingest, WalkPool, ReadRows
  <2>5. ASSUME NEW s \in Syncs, NEW t, ApplyCreate(s, t)
        PROVE  Fresh # {} /\ used' = used \cup {NextId}
    BY <2>5 DEF ApplyCreate
  <2>6. ASSUME NEW w \in Workers,
               Claim(w) \/ GiveUp(w) \/ Record(w) \/ ReadFile(w) \/ Handle(w) \/ Lose(w)
        PROVE  used' = used
    BY <2>6 DEF Claim, GiveUp, Record, ReadFile, Handle, Lose
  <2> QED BY <2>1, <2>2, <2>3, <2>4, <2>5, <2>6, NextSteps
<1>3. \E b \in Ids \cup {0} : \A i \in used' : i <= b
  <2>1. PICK b \in Ids \cup {0} : \A i \in used : i <= b
    BY DEF IdsOK
  <2>2. b \in Nat /\ \A i \in Ids : i \in Nat
    BY NumbersOK
  <2>3. ASSUME NEW j \in Ids, used' = used \cup {j} PROVE \E c \in Ids \cup {0} : \A i \in used' : i <= c
    <3>1. CASE j <= b
      BY <2>1, <2>2, <2>3, <3>1
    <3>2. CASE ~(j <= b)
      <4>0. used \in SUBSET Ids
        BY Typed
      <4>1. ASSUME NEW i \in used' PROVE i <= j
        <5>1. i \in Nat /\ j \in Nat /\ (i = j \/ i <= b)
          BY <2>1, <2>2, <2>3, <4>0
        <5> QED BY <2>2, <3>2, <5>1
      <4> QED BY <4>1
    <3> QED BY <3>1, <3>2
  <2> QED BY <1>2, <2>1, <2>3
<1>4. \A i \in Ids \ used' : handled'[i] = 0
  BY <1>1, HandledStep DEF IdsOK
<1>5. ASSUME NEW w \in Workers, job'[w] # Idle PROVE job'[w].id \in used'
  <2>1. CASE JobClaimed(w)
    BY <1>1, <2>1, Typed DEF JobClaimed, Job
  <2>2. CASE ~JobClaimed(w)
    <3>1. Busy(w) /\ job'[w].id = job[w].id
      BY <1>1, <1>5, <2>2 DEF JobMoves, JobWorked, Busy
    <3> QED BY <1>1, <3>1 DEF IdsOK
  <2> QED BY <2>1, <2>2
<1>6. ASSUME NEW s \in Syncs, NEW t \in sync'[s].todo, t.op # "create" PROVE t.id \in used'
  <2>1. sync[s].listing \in [Names -> Versions]
    BY Typed DEF SyncRec
  <2>2. CASE t \in sync[s].todo
    BY <1>1, <1>6, <2>2 DEF IdsOK
  <2>3. CASE t \in PlanPoolSync(sync[s].listing)
    BY <1>1, <1>6, <2>1, <2>3, PlanTyped
  <2> QED BY <1>1, <2>2, <2>3 DEF SyncMoves
<1> QED BY <1>3, <1>4, <1>5, <1>6 DEF IdsOK, Busy

\* Version v was in the pool under name n by the end of the step.
WasThen(n, v) == v <= version' /\ (disk'[n] = 0 \/ v <= disk'[n])

\* A version a file had is one it has had.
LEMMA WasThenIsWas ==
  ASSUME TypeOK, VersionsOK, [Next]_vars
  PROVE  /\ \A n \in Names, v \in Nat : Was(n, v) => WasThen(n, v)
         /\ \A n \in Names : WasThen(n, 0) /\ WasThen(n, disk[n]) /\ disk'[n] <= version'
<1>0. /\ version \in Nat /\ Versions \subseteq Nat
      /\ \A n \in Names : disk[n] <= version /\ disk[n] \in Nat
  BY Typed, NumbersOK DEF VersionsOK
<1>1. /\ version' \in Nat /\ version <= version' /\ disk' \in [Names -> Versions]
      /\ \A n \in Names : disk'[n] <= version'
      /\ \A n \in Names, v \in Nat : Was(n, v) => Was(n, v)'
  BY WasKept DEF VersionsOK
<1>2. \A n \in Names, v \in Nat : Was(n, v) => WasThen(n, v)
  BY <1>1 DEF Was, WasThen
<1>3. ASSUME NEW n \in Names PROVE WasThen(n, 0) /\ WasThen(n, disk[n])
  <2>1. disk[n] \in Nat /\ disk[n] <= version
    BY <1>0
  <2>2. disk'[n] \in Nat
    BY <1>0, <1>1
  <2>3. Was(n, disk[n])
    BY <2>1 DEF Was
  <2> QED BY <1>1, <1>2, <2>1, <2>2, <2>3 DEF WasThen
<1> QED BY <1>1, <1>2, <1>3

\* Nobody knows of a version before there is one.
LEMMA VersionsStep ==
  ASSUME TypeOK, IdsOK, VersionsOK, NamesOK, [Next]_vars
  PROVE  VersionsOK'
<1>0. Versions \subseteq Nat /\ version \in Nat /\ artifact \in [Ids -> Versions]
  BY Typed, NumbersOK
<1>1. /\ version' \in Nat /\ version <= version'
      /\ \A n \in Names, v \in Nat : Was(n, v) => WasThen(n, v)
      /\ \A n \in Names : WasThen(n, 0) /\ WasThen(n, disk[n]) /\ disk'[n] <= version'
  BY WasKept, WasThenIsWas DEF VersionsOK
<1>2. /\ \A i \in Ids : RowMoves(i)
      /\ \A w \in Workers : JobMoves(w)
      /\ sync \in [Syncs -> SyncRec] /\ \A s \in Syncs : SyncMoves(s)
  BY RowsStep, JobsStep, SyncsStep, Typed
<1>4. \A n \in Names : WasThen(n, arriving'[n])
  BY ArrivingStep DEF Was, WasThen
<1>5. ASSUME NEW i \in Ids PROVE artifact'[i] <= version'
  <2>1. artifact[i] \in Nat /\ artifact[i] <= version
    BY <1>0 DEF VersionsOK
  <2>2. ASSUME NEW w \in Workers, Busy(w) PROVE job[w].text \in Nat /\ job[w].text <= version
    BY <2>2, Typed DEF VersionsOK, Was
  <2> QED BY <1>0, <1>1, <2>1, <2>2, ArtifactStep
<1>6. ASSUME NEW i \in Ids, rows'[i] # NoRow
      PROVE  rows'[i].size > 0 /\ WasThen(rows'[i].name, rows'[i].size)
  <2>1. ASSUME Exists(i)
        PROVE  /\ rows[i].name \in Names /\ rows[i].size > 0
               /\ WasThen(rows[i].name, rows[i].size)
    <3>1. rows[i] \in Row
      BY <2>1, Typed
    <3>2. rows[i].name \in Names /\ rows[i].size \in Nat
      BY <1>0, <3>1 DEF Row
    <3>3. rows[i].size > 0 /\ Was(rows[i].name, rows[i].size)
      BY <2>1 DEF VersionsOK
    <3> QED BY <1>1, <3>2, <3>3
  <2>2. CASE rows'[i] = rows[i] \/ RowWritten(i)
    BY <1>6, <2>1, <2>2 DEF Exists, RowWritten
  <2>3. CASE RowMade(i)
    <3>1. PICK n \in Names, kind \in {"upload", "generated"}, v \in Versions :
            rows'[i] = NewRow(n, kind, v) /\ v > 0 /\ Was(n, v)
      BY <2>3 DEF RowMade
    <3>2. rows'[i].name = n /\ rows'[i].size = v
      BY <3>1 DEF NewRow
    <3> QED BY <1>0, <1>1, <3>1, <3>2
  <2>4. CASE RowRemarked(i)
    <3>1. /\ rows'[i] \in Row /\ rows'[i].name = rows[i].name
          /\ rows'[i].size > 0 /\ Was(rows[i].name, rows'[i].size)
      BY <2>4 DEF RowRemarked
    <3>2. rows'[i].name \in Names /\ rows'[i].size \in Nat
      BY <1>0, <3>1 DEF Row
    <3> QED BY <1>1, <3>1, <3>2
  <2> QED BY <1>2, <1>6, <2>2, <2>3, <2>4 DEF RowMoves
<1>7. ASSUME NEW w \in Workers, job'[w] # Idle PROVE WasThen(job'[w].name, job'[w].text)
  <2>1. ASSUME Busy(w)
        PROVE  /\ job[w].name \in Names /\ WasThen(job[w].name, job[w].text)
               /\ WasThen(job[w].name, disk[job[w].name])
    <3>1. job[w].name \in Names /\ job[w].text \in Nat /\ Was(job[w].name, job[w].text)
      BY <2>1, Typed DEF VersionsOK
    <3> QED BY <1>1, <3>1
  <2>2. CASE job'[w] = job[w] \/ JobWorked(w)
    BY <1>7, <2>1, <2>2 DEF Busy, JobWorked
  <2>3. CASE JobClaimed(w)
    <3>1. job'[w].name \in Names /\ job'[w].text = 0
      BY <2>3 DEF JobClaimed, Job
    <3> QED BY <1>1, <3>1
  <2> QED BY <1>2, <1>7, <2>2, <2>3 DEF JobMoves
<1>8. ASSUME NEW s \in Syncs
      PROVE  /\ sync[s].listing \in [Names -> Versions] /\ sync[s].todo \in SUBSET Todo
             /\ \A n \in Names : sync[s].listing[n] \in Nat /\ WasThen(n, sync[s].listing[n])
  <2>1. sync[s].listing \in [Names -> Versions] /\ sync[s].todo \in SUBSET Todo
    BY <1>2 DEF SyncRec
  <2>2. \A n \in Names : sync[s].listing[n] \in Nat /\ Was(n, sync[s].listing[n])
    BY <1>0, <2>1 DEF VersionsOK
  <2> QED BY <1>1, <2>1, <2>2
<1>9. ASSUME NEW s \in Syncs, NEW n \in Names PROVE WasThen(n, sync'[s].listing[n])
  <2>1. sync'[s].listing[n] \in {0, disk[n], sync[s].listing[n]}
    BY <1>2 DEF SyncMoves
  <2> QED BY <1>1, <1>8, <2>1
<1>10. ASSUME NEW s \in Syncs, NEW t \in sync'[s].todo
       PROVE  WasThen(t.name, t.size) /\ (t.op \in {"create", "reingest"} => t.size > 0)
  <2>1. CASE t \in sync[s].todo
    <3>1. t.name \in Names /\ t.size \in Nat
      BY <1>0, <1>8, <2>1 DEF Todo
    <3>2. Was(t.name, t.size) /\ (t.op \in {"create", "reingest"} => t.size > 0)
      BY <2>1 DEF VersionsOK
    <3> QED BY <1>1, <3>1, <3>2
  <2>2. CASE t \in PlanPoolSync(sync[s].listing)
    <3>1. /\ t \in Todo /\ t.size \in {0, sync[s].listing[t.name]}
          /\ t.op \in {"create", "reingest"} => t.size # 0
      BY <1>8, <2>2, PlanTyped
    <3>2. t.name \in Names /\ t.size \in Nat
      BY <1>0, <3>1 DEF Todo
    <3> QED BY <1>1, <1>8, <3>1, <3>2
  <2> QED BY <1>2, <2>1, <2>2 DEF SyncMoves
<1> QED BY <1>1, <1>4, <1>5, <1>6, <1>7, <1>9, <1>10 DEF VersionsOK, Was, WasThen, Exists, Busy

\* A job, and a pass over the pool, know a row by the name it has.
LEMMA NamesStep ==
  ASSUME TypeOK, IdsOK, VersionsOK, NamesOK, [Next]_vars
  PROVE  NamesOK'
<1>1. /\ \A i \in Ids : RowMoves(i)
      /\ \A w \in Workers : JobMoves(w)
      /\ sync \in [Syncs -> SyncRec] /\ \A s \in Syncs : SyncMoves(s)
  BY RowsStep, JobsStep, SyncsStep, Typed
<1>2. ASSUME NEW i \in used, rows'[i] # NoRow PROVE Exists(i) /\ rows'[i].name = rows[i].name
  BY <1>1, <1>2, Typed DEF RowMoves, RowMade, RowWritten, RowRemarked, Exists
<1>3. ASSUME NEW w \in Workers, job'[w] # Idle, NEW i \in Ids, job'[w].id = i, rows'[i] # NoRow
      PROVE  job'[w].name = rows'[i].name
  <2>1. CASE JobClaimed(w)
    <3>1. Exists(i) /\ job'[w].name = rows[i].name
      BY <1>3, <2>1 DEF JobClaimed
    <3> QED BY <1>2, <1>3, <3>1, Typed
  <2>2. CASE ~JobClaimed(w)
    <3>1. Busy(w) /\ job[w].id = i /\ job'[w].name = job[w].name
      BY <1>1, <1>3, <2>2 DEF JobMoves, JobWorked, Busy
    <3>2. i \in used
      BY <3>1 DEF IdsOK
    <3> QED BY <1>2, <1>3, <3>1, <3>2 DEF NamesOK
  <2> QED BY <2>1, <2>2
<1>4. ASSUME NEW s \in Syncs, NEW t \in sync'[s].todo, NEW i \in Ids, t.op = "reingest", t.id = i,
             rows'[i] # NoRow
      PROVE  t.name = rows'[i].name
  <2>1. CASE t \in sync[s].todo
    <3>1. i \in used
      BY <1>4, <2>1 DEF IdsOK
    <3> QED BY <1>2, <1>4, <2>1, <3>1 DEF NamesOK
  <2>2. CASE t \in PlanPoolSync(sync[s].listing)
    <3>1. sync[s].listing \in [Names -> Versions]
      BY <1>1 DEF SyncRec
    <3>2. i \in used /\ t.name = rows[i].name
      BY <1>4, <2>2, <3>1, PlanTyped
    <3> QED BY <1>2, <1>4, <3>2
  <2> QED BY <1>1, <2>1, <2>2 DEF SyncMoves
<1> QED BY <1>3, <1>4 DEF NamesOK, Exists, Busy

-----------------------------------------------------------------------------
(* One row and its threads, step by step *)

\* Nobody begins with row i, and whoever is still with it does as before.
Left(i) == \A w \in Holders(i)' : w \in Holders(i) /\ job'[w] = job[w]

\* A row whose jobs are left alone by a step.
LEMMA JobsLeft ==
  ASSUME TypeOK, NEW i \in Ids, job' = job
  PROVE  Left(i)
BY DEF Left, Holders, Busy

LEMMA OneJobLeft ==
  ASSUME TypeOK, NEW i \in Ids, NEW w \in Workers, NEW k, job' = [job EXCEPT ![w] = k],
         k = Idle \/ k.id # i
  PROVE  Left(i)
<1>1. job \in [Workers -> Job \cup {Idle}]
  BY Typed
<1> QED BY <1>1 DEF Left, Holders, Busy

\* Row and threads are left alone, or some are gone.
LEMMA Calm ==
  ASSUME NEW i \in Ids, ClaimOK(i), TextOK(i), Left(i), rows'[i] = rows[i] \/ rows'[i] = NoRow,
         artifact'[i] = artifact[i],
         Exists(i) => (Was(rows[i].name, artifact[i]) => WasThen(rows[i].name, artifact[i]))
  PROVE  ClaimOK(i)' /\ TextOK(i)'
<1>1. Holders(i)' \subseteq Holders(i) /\ \A w \in Holders(i)' : job'[w] = job[w]
  BY DEF Left
<1>2. ClaimOK(i)'
  BY <1>1 DEF ClaimOK, Exists
<1>3. TextOK(i)'
  BY <1>1 DEF TextOK, Exists, Was, WasThen
<1> QED BY <1>2, <1>3

\* A new row has no thread, for its id was never used.
LEMMA NewRowOK ==
  ASSUME TypeOK, IdsOK, NEW i \in Ids \ used, Left(i), rows'[i].status = "pending"
  PROVE  ClaimOK(i)' /\ TextOK(i)'
<1>1. Holders(i) = {}
  BY DEF Holders, IdsOK
<1>2. Holders(i)' = {}
  BY <1>1 DEF Left
<1> QED BY <1>2 DEF ClaimOK, TextOK, Exists

\* A failed row may have a thread that is not done with it.
LEMMA FlaggedOK ==
  ASSUME TypeOK, NEW i \in Ids, ClaimOK(i), TextOK(i), Left(i), Exists(i), artifact'[i] = artifact[i],
         rows'[i] = [rows[i] EXCEPT !.status = "failed"]
  PROVE  ClaimOK(i)' /\ TextOK(i)'
<1>1. Holders(i)' \subseteq Holders(i) /\ \A w \in Holders(i)' : job'[w] = job[w]
  BY DEF Left
<1>2. rows[i] \in Row
  BY Typed
<1>3. rows'[i].status = "failed" /\ rows'[i].size = rows[i].size
  BY <1>2 DEF Row
<1> QED BY <1>1, <1>3 DEF ClaimOK, TextOK, Exists

\* Marking a row pending again tells everybody who works on it.
LEMMA RemarkedOK ==
  ASSUME TypeOK, NEW i \in Ids, ClaimOK(i), Remark(i), rows'[i].status = "pending"
  PROVE  ClaimOK(i)' /\ TextOK(i)'
<1>0. job \in [Workers -> Job \cup {Idle}] /\ \A w \in Workers : Busy(w) => job[w] \in Job
  BY Typed
<1>1. \A w \in Workers : job'[w] = IF w \in Holders(i) THEN [job[w] EXCEPT !.remarked = TRUE]
                                                       ELSE job[w]
  BY DEF Remark
<1>2. ASSUME NEW w \in Holders(i)' PROVE w \in Holders(i) /\ job'[w].remarked
  <2>1. w \in Workers /\ job'[w] # Idle /\ job'[w].id = i
    BY DEF Holders, Busy
  <2>2. w \in Holders(i)
    BY <1>1, <2>1 DEF Holders, Busy
  <2>3. job[w] \in Job /\ job'[w] = [job[w] EXCEPT !.remarked = TRUE]
    BY <1>0, <1>1, <2>2 DEF Holders
  <2> QED BY <2>2, <2>3 DEF Job
<1> QED BY <1>2 DEF ClaimOK, TextOK, Exists

\* A row that is claimed has no thread: if it is pending every thread was told,
\* and one that was told crosses; if it is overdue a thread would be done.
LEMMA ClaimedFree ==
  ASSUME TypeOK, NEW i \in Claimable, ClaimOK(i), \A v \in Holders(i) : ~job[v].remarked
  PROVE  Holders(i) = {}
<1>1. i \in Ids /\ Exists(i) /\ (rows[i].status = "pending" \/ Overdue(i))
  BY DEF Claimable
<1>2. CASE rows[i].status = "pending"
  BY <1>1, <1>2 DEF ClaimOK
<1>3. CASE Overdue(i)
  <2> SUFFICES ASSUME NEW w \in Holders(i) PROVE FALSE
    OBVIOUS
  <2>1. rows[i].age >= Window /\ job[w].age = rows[i].age
    BY <1>1, <1>3 DEF Overdue, ClaimOK
  <2>2. job[w] \in Job
    BY Typed DEF Holders
  <2>3. job[w].age \in 0 .. Headroom
    BY <2>2 DEF Job
  <2> QED BY <2>1, <2>3, NumbersOK
<1> QED BY <1>1, <1>2, <1>3

\* A claim takes the row to the state its job was made from.
LEMMA ClaimedOK ==
  ASSUME TypeOK, NEW w \in Workers, Claim(w), NEW i \in Ids, i = Min(Claimable), i \notin crossed',
         ClaimOK(i), TextOK(i)
  PROVE  ClaimOK(i)' /\ TextOK(i)'
<1>0. job \in [Workers -> Job \cup {Idle}] /\ rows \in [Ids -> Row \cup {NoRow}]
  BY Typed
<1>1. i \in Claimable
  BY ClaimedIsClaimable DEF Claim
<1>2. crossed' = IF \E v \in Holders(i) : job[v].remarked THEN crossed \cup {i} ELSE crossed
  BY DEF Claim
<1>3. Holders(i) = {}
  BY <1>1, <1>2, ClaimedFree
<1> DEFINE k == [stage |-> "claimed", id |-> i, name |-> rows[i].name,
                 attempts |-> rows[i].attempts + 1, age |-> 0,
                 text |-> 0, result |-> "failed", remarked |-> FALSE]
           r == [rows[i] EXCEPT !.status = "processing", !.age = 0, !.attempts = @ + 1]
<1>4. job' = [job EXCEPT ![w] = k] /\ rows' = [rows EXCEPT ![i] = r]
  BY DEF Claim
<1>5. k.stage = "claimed" /\ k.age = 0 /\ ~k.remarked
  OBVIOUS
<1>6. r.status = "processing" /\ r.age = 0
  <2>1. rows[i] \in Row
    BY <1>1, Typed DEF Claimable
  <2> QED BY <2>1 DEF Row
<1> HIDE DEF k, r
<1>7. job'[w] = k /\ rows'[i] = r /\ \A v \in Workers \ {w} : job'[v] = job[v]
  BY <1>0, <1>4
<1>8. Holders(i)' \subseteq {w}
  BY <1>3, <1>7 DEF Holders, Busy
<1>9. ClaimOK(i)'
  BY <1>5, <1>6, <1>7, <1>8 DEF ClaimOK
<1>10. TextOK(i)'
  BY <1>5, <1>6, <1>7, <1>8 DEF TextOK
<1> QED BY <1>9, <1>10

\* What a thread records of a row nobody else has.
LEMMA RecordedOK ==
  ASSUME TypeOK, VersionsOK, NamesOK, NEW w \in Workers, GiveUp(w) \/ Record(w), NEW i \in Ids,
         i = job[w].id, ClaimOK(i), TextOK(i), artifact'[i] = artifact[i],
         \A n \in Names, v \in Nat : Was(n, v) => WasThen(n, v)
  PROVE  ClaimOK(i)' /\ TextOK(i)'
<1>0. job \in [Workers -> Job \cup {Idle}] /\ rows \in [Ids -> Row \cup {NoRow}]
  BY Typed
<1>1. Busy(w) /\ Recorded(w, i) /\ job' = [job EXCEPT ![w] = Idle]
  BY RecordedBy
<1>2. w \in Holders(i) /\ Left(i) /\ w \notin Holders(i)'
  <2>1. job'[w] = Idle
    BY <1>0, <1>1
  <2> QED BY <1>1, <2>1, OneJobLeft DEF Holders, Busy
<1>3. Holders(i)' = {}
  BY <1>2 DEF ClaimOK, Left
<1>4. CASE rows' = rows
  <2>1. Exists(i) => rows[i].name \in Names /\ artifact[i] \in Nat
    BY Typed, NumbersOK DEF Row
  <2> QED BY <1>2, <1>4, <2>1, Calm
<1>5. ASSUME Held(i), NEW st \in {"ready", "unsupported", "failed"},
             rows' = [rows EXCEPT ![i].status = st, ![i].prepared = (st = "ready"), ![i].age = 0],
             st = "ready" => job[w].stage = "handled" /\ job[w].result = "ready"
      PROVE  ClaimOK(i)' /\ TextOK(i)'
  <2>1. rows[i] \in Row /\ Exists(i) /\ rows[i].status = "processing"
    BY <1>5, Typed DEF Held
  <2>2. rows'[i] = [rows[i] EXCEPT !.status = st, !.prepared = (st = "ready"), !.age = 0]
    BY <1>0, <1>5
  <2>3. rows'[i].status = st /\ rows'[i].name = rows[i].name /\ rows'[i].size = rows[i].size
    BY <2>1, <2>2 DEF Row
  <2>4. ~job[w].remarked
    BY <1>2, <2>1 DEF ClaimOK
  <2>5. ASSUME st = "ready"
        PROVE  rows[i].size <= artifact[i] /\ WasThen(rows[i].name, artifact[i])
    <3>1. artifact[i] = job[w].text /\ rows[i].size <= job[w].text
      BY <1>2, <1>5, <2>1, <2>4, <2>5 DEF TextOK
    <3>2. job[w].name = rows[i].name /\ Was(job[w].name, job[w].text)
      BY <1>1, <2>1 DEF NamesOK, VersionsOK
    <3>3. job[w].name \in Names /\ job[w].text \in Nat
      BY <1>1, Typed
    <3> QED BY <3>1, <3>2, <3>3
  <2>6. ClaimOK(i)'
    BY <1>3 DEF ClaimOK
  <2>7. TextOK(i)'
    BY <1>3, <2>3, <2>5 DEF TextOK, Was, WasThen
  <2> QED BY <2>6, <2>7
<1>6. ASSUME Held(i), rows' = [rows EXCEPT ![i].status = "pending", ![i].age = 0]
      PROVE  ClaimOK(i)' /\ TextOK(i)'
  <2>1. rows[i] \in Row
    BY <1>6, Typed DEF Held
  <2>2. rows'[i] = [rows[i] EXCEPT !.status = "pending", !.age = 0]
    BY <1>0, <1>6
  <2>3. rows'[i].status = "pending"
    BY <2>1, <2>2 DEF Row
  <2> QED BY <1>3, <2>3 DEF ClaimOK, TextOK
<1> QED BY <1>1, <1>4, <1>5, <1>6 DEF Recorded

\* What is read is at least as new as what the row says was there.
LEMMA ReadOK ==
  ASSUME TypeOK, VersionsOK, NamesOK, NEW w \in Workers, ReadFile(w), NEW i \in Ids,
         i = job[w].id, ClaimOK(i), TextOK(i),
         \A n \in Names, v \in Nat : Was(n, v) => WasThen(n, v)
  PROVE  ClaimOK(i)' /\ TextOK(i)'
<1>0. job \in [Workers -> Job \cup {Idle}]
  BY Typed
<1> DEFINE k == [job[w] EXCEPT !.stage = "read", !.text = disk[job[w].name]]
<1>1. /\ Busy(w) /\ job' = [job EXCEPT ![w] = k] /\ disk[job[w].name] # 0
      /\ rows' = rows /\ artifact' = artifact
  BY DEF ReadFile, FileGone
<1>2. job[w] \in Job
  BY <1>1, Typed
<1>3. /\ k.id = i /\ k.stage = "read" /\ k.text = disk[job[w].name] /\ k.age = job[w].age
      /\ k.remarked = job[w].remarked /\ k # Idle
  BY <1>2 DEF Job, Idle
<1> HIDE DEF k
<1>4. job'[w] = k /\ \A v \in Workers \ {w} : job'[v] = job[v]
  BY <1>0, <1>1
<1>5. Holders(i)' = Holders(i) /\ w \in Holders(i)
  BY <1>1, <1>3, <1>4 DEF Holders, Busy
<1>6. Holders(i) = {w}
  BY <1>5 DEF ClaimOK
<1>7. ClaimOK(i)'
  BY <1>1, <1>3, <1>4, <1>5, <1>6 DEF ClaimOK, Exists
<1>8. ASSUME Exists(i)
      PROVE  /\ rows[i].size <= disk[job[w].name]
             /\ Was(rows[i].name, artifact[i]) => WasThen(rows[i].name, artifact[i])
  <2>1. job[w].name = rows[i].name /\ Was(rows[i].name, rows[i].size)
    BY <1>1, <1>8 DEF NamesOK, VersionsOK
  <2>2. job[w].name \in Names /\ artifact[i] \in Nat
    BY <1>1, Typed, NumbersOK
  <2> QED BY <1>1, <2>1, <2>2 DEF Was
<1>9. TextOK(i)'
  BY <1>1, <1>3, <1>4, <1>5, <1>6, <1>8 DEF TextOK, Exists, Was, WasThen
<1> QED BY <1>7, <1>9

\* Its outcome is about the text that was read, and no text is being served.
LEMMA HandledOK ==
  ASSUME TypeOK, NEW w \in Workers, Handle(w), NEW i \in Ids, i = job[w].id, ClaimOK(i), TextOK(i)
  PROVE  ClaimOK(i)' /\ TextOK(i)'
<1>0. job \in [Workers -> Job \cup {Idle}] /\ artifact \in [Ids -> Versions]
  BY Typed
<1>1. PICK r \in Results :
        /\ job' = [job EXCEPT ![w].stage = "handled", ![w].result = r]
        /\ artifact' = IF r = "ready" THEN [artifact EXCEPT ![job[w].id] = job[w].text] ELSE artifact
  BY DEF Handle
<1> DEFINE k == [job[w] EXCEPT !.stage = "handled", !.result = r]
<1>2. Busy(w) /\ job[w].stage = "read" /\ rows' = rows /\ job' = [job EXCEPT ![w] = k]
  BY <1>0, <1>1 DEF Handle
<1>3. job[w] \in Job
  BY <1>2, Typed
<1>4. /\ k.id = i /\ k.stage = "handled" /\ k.text = job[w].text /\ k.age = job[w].age
      /\ k.remarked = job[w].remarked /\ k.result = r /\ k # Idle
  BY <1>3 DEF Job, Idle
<1> HIDE DEF k
<1>5. job'[w] = k /\ \A v \in Workers \ {w} : job'[v] = job[v]
  BY <1>0, <1>2
<1>6. Holders(i)' = Holders(i) /\ w \in Holders(i)
  BY <1>2, <1>4, <1>5 DEF Holders, Busy
<1>7. Holders(i) = {w}
  BY <1>6 DEF ClaimOK
<1>8. ClaimOK(i)'
  BY <1>2, <1>4, <1>5, <1>6, <1>7 DEF ClaimOK, Exists
<1>9. r = "ready" => artifact'[i] = job[w].text
  BY <1>0, <1>1
<1>10. Exists(i) => rows[i].status # "ready"
  BY <1>6 DEF ClaimOK
<1>11. TextOK(i)'
  BY <1>2, <1>4, <1>5, <1>6, <1>7, <1>9, <1>10 DEF TextOK, Exists
<1> QED BY <1>8, <1>11

\* A claim and its row grow old together.
LEMMA TickOK ==
  ASSUME TypeOK, Tick, NEW i \in Ids, ClaimOK(i), TextOK(i)
  PROVE  ClaimOK(i)' /\ TextOK(i)'
<1>0. job \in [Workers -> Job \cup {Idle}] /\ rows \in [Ids -> Row \cup {NoRow}]
  BY Typed
<1>1. /\ \A w \in Workers : Busy(w) => job[w].age < Headroom
      /\ \A w \in Workers : job'[w] = IF Busy(w) THEN [job[w] EXCEPT !.age = job[w].age + 1] ELSE Idle
      /\ rows'[i] = IF Exists(i) /\ rows[i].status = "processing" /\ rows[i].age < Window
                    THEN [rows[i] EXCEPT !.age = rows[i].age + 1] ELSE rows[i]
      /\ artifact' = artifact /\ disk' = disk /\ version' = version
  BY DEF Tick
<1>2. ASSUME NEW w \in Workers, Busy(w)
      PROVE  /\ job'[w].id = job[w].id /\ job'[w].stage = job[w].stage /\ job'[w].text = job[w].text
             /\ job'[w].remarked = job[w].remarked /\ job'[w].result = job[w].result
             /\ job'[w].age = job[w].age + 1 /\ job[w].age \in 0 .. Headroom /\ job'[w] # Idle
  <2>1. job[w] \in Job /\ job'[w] = [job[w] EXCEPT !.age = job[w].age + 1]
    BY <1>1, <1>2, Typed
  <2> QED BY <2>1 DEF Job, Idle
<1>3. Holders(i)' = Holders(i)
  <2>1. ASSUME NEW w \in Workers PROVE (job'[w] # Idle) = Busy(w)
    BY <1>1, <1>2 DEF Busy
  <2>2. \A w \in Workers : Busy(w) => job'[w].id = job[w].id
    BY <1>2
  <2> QED BY <2>1, <2>2 DEF Holders, Busy
<1>4. ASSUME Exists(i)
      PROVE  /\ rows'[i] # NoRow /\ rows'[i].status = rows[i].status /\ rows'[i].name = rows[i].name
             /\ rows'[i].size = rows[i].size
             /\ rows[i].status = "processing" /\ rows[i].age < Window => rows'[i].age = rows[i].age + 1
  <2>1. rows[i] \in Row
    BY <1>4, Typed
  <2> QED BY <1>1, <1>4, <2>1 DEF Row, NoRow, Exists
<1>5. rows'[i] # NoRow => Exists(i)
  BY <1>1 DEF Exists
<1>6. ClaimOK(i)'
  <2>1. \A v, w \in Holders(i)' : v = w
    BY <1>3 DEF ClaimOK
  <2>2. ASSUME Exists(i), rows[i].status = "processing", NEW w \in Holders(i)
        PROVE  ~job'[w].remarked /\ job'[w].age = rows'[i].age
    <3>1. w \in Workers /\ Busy(w) /\ ~job[w].remarked /\ job[w].age = rows[i].age
      BY <2>2 DEF ClaimOK, Holders
    <3>2. rows[i].age < Window
      BY <1>1, <1>2, <3>1, NumbersOK
    <3> QED BY <1>2, <1>4, <2>2, <3>1, <3>2
  <2>3. ASSUME NEW w \in Holders(i) PROVE job'[w].remarked = job[w].remarked
    BY <1>2 DEF Holders
  <2> QED BY <1>3, <1>4, <1>5, <2>1, <2>2, <2>3 DEF ClaimOK, Exists
<1>7. TextOK(i)'
  <2>1. ASSUME NEW w \in Holders(i)
        PROVE  /\ job'[w].stage = job[w].stage /\ job'[w].text = job[w].text
               /\ job'[w].remarked = job[w].remarked /\ job'[w].result = job[w].result
    BY <1>2 DEF Holders
  <2> QED BY <1>1, <1>3, <1>4, <1>5, <2>1 DEF TextOK, Exists, Was
<1> QED BY <1>6, <1>7

\* Every step keeps what a row and its job say of each other.
LEMMA RowStep ==
  ASSUME TypeOK, IdsOK, VersionsOK, NamesOK, [Next]_vars, NEW i \in Ids, i \notin crossed',
         ClaimOK(i), TextOK(i)
  PROVE  ClaimOK(i)' /\ TextOK(i)'
<1> DEFINE Goal == ClaimOK(i)' /\ TextOK(i)'
<1>0. /\ job \in [Workers -> Job \cup {Idle}] /\ rows \in [Ids -> Row \cup {NoRow}]
      /\ used \in SUBSET Ids /\ artifact \in [Ids -> Versions]
  BY Typed
<1>w. \A n \in Names, v \in Nat : Was(n, v) => WasThen(n, v)
  BY WasThenIsWas
<1>c. ASSUME Left(i), rows'[i] = rows[i] \/ rows'[i] = NoRow, artifact'[i] = artifact[i] PROVE Goal
  <2>1. Exists(i) => rows[i].name \in Names /\ artifact[i] \in Nat
    BY Typed, NumbersOK DEF Row
  <2> QED BY <1>c, <1>w, <2>1, Calm
<1>n. ASSUME Fresh # {}, job' = job, artifact' = artifact, NEW n, NEW kind, NEW v,
             rows' = [rows EXCEPT ![NextId] = NewRow(n, kind, v)]
      PROVE  Goal
  <2>1. NextId \in Ids \ used /\ Left(i)
    BY <1>n, NextIdFresh, JobsLeft
  <2>2. CASE i = NextId
    <3>1. rows'[i] = NewRow(n, kind, v)
      BY <1>0, <1>n, <2>1, <2>2
    <3>2. rows'[i].status = "pending"
      BY <3>1 DEF NewRow
    <3> QED BY <2>1, <2>2, <3>2, NewRowOK
  <2>3. CASE i # NextId
    <3>1. rows'[i] = rows[i]
      BY <1>0, <1>n, <2>1, <2>3
    <3> QED BY <1>c, <1>n, <2>1, <3>1
  <2> QED BY <2>2, <2>3
<1> HIDE DEF Goal
<1>l. ASSUME NEW w \in Workers, NEW k, job' = [job EXCEPT ![w] = k], k = Idle \/ k.id # i,
             rows'[i] = rows[i], artifact'[i] = artifact[i]
      PROVE  Goal
  BY <1>c, <1>l, OneJobLeft
<1>1. ASSUME DiskStep \/ (\E s \in Syncs : WalkPool(s) \/ ReadRows(s)) PROVE Goal
  <2>1. rows' = rows /\ job' = job /\ artifact' = artifact
    BY <1>1 DEF DiskStep, SaveUpload, DeleteBytes, SandboxWrite, SandboxRemove, vars,
                WalkPool, ReadRows
  <2> QED BY <1>c, <2>1, JobsLeft
<1>2. ASSUME Tick PROVE Goal
  BY <1>2, TickOK DEF Goal
<1>3. ASSUME NEW n \in Names, RecordUpload(n) PROVE Goal
  BY <1>3, <1>n DEF RecordUpload
<1>4. ASSUME NEW j \in Ids, rows' = [rows EXCEPT ![j] = NoRow], job' = job, artifact' = artifact
      PROVE  Goal
  <2>1. rows'[i] = rows[i] \/ rows'[i] = NoRow
    BY <1>0, <1>4
  <2> QED BY <1>c, <1>4, <2>1, JobsLeft
<1>5. ASSUME NEW j \in Ids, DeleteFile(j) PROVE Goal
  BY <1>4, <1>5 DEF DeleteFile
<1>6. ASSUME NEW s \in Syncs, NEW t \in sync[s].todo,
             ApplyDelete(s, t) \/ ApplyFlag(s, t) \/ ApplyCreate(s, t) \/ ApplyReingest(s, t)
      PROVE  Goal
  <2>0. t.op # "create" => t.id \in Ids
    BY <1>0 DEF IdsOK
  <2>1. CASE ApplyDelete(s, t)
    BY <1>4, <2>0, <2>1 DEF ApplyDelete
  <2>2. CASE ApplyFlag(s, t)
    <3>1. /\ job' = job /\ artifact' = artifact /\ t.id \in Ids
          /\ rows' = IF Exists(t.id) THEN [rows EXCEPT ![t.id].status = "failed"] ELSE rows
      BY <2>0, <2>2 DEF ApplyFlag
    <3>2. Left(i)
      BY <3>1, JobsLeft
    <3>3. CASE i = t.id /\ Exists(i)
      <4>1. rows'[i] = [rows[i] EXCEPT !.status = "failed"]
        BY <1>0, <3>1, <3>3
      <4> QED BY <3>1, <3>2, <3>3, <4>1, FlaggedOK DEF Goal
    <3>4. CASE ~(i = t.id /\ Exists(i))
      <4>1. rows'[i] = rows[i]
        BY <1>0, <3>1, <3>4
      <4> QED BY <1>c, <3>1, <3>2, <4>1
    <3> QED BY <3>3, <3>4
  <2>3. CASE ApplyCreate(s, t)
    BY <1>n, <2>3 DEF ApplyCreate
  <2>4. CASE ApplyReingest(s, t)
    <3>0. artifact' = artifact /\ t.id \in Ids
      BY <2>0, <2>4 DEF ApplyReingest
    <3>1. CASE ~Exists(t.id)
      BY <1>c, <2>4, <3>0, <3>1, JobsLeft DEF ApplyReingest
    <3>2. CASE Exists(t.id)
      <4>1. /\ rows' = [rows EXCEPT ![t.id].size = t.size, ![t.id].status = "pending",
                                    ![t.id].attempts = 0, ![t.id].prepared = FALSE,
                                    ![t.id].age = 0]
            /\ Remark(t.id)
        BY <2>4, <3>2 DEF ApplyReingest
      <4>2. CASE i = t.id
        <5>1. rows'[i] = [rows[i] EXCEPT !.size = t.size, !.status = "pending",
                                    !.attempts = 0, !.prepared = FALSE, !.age = 0]
          BY <1>0, <4>1, <4>2
        <5>2. rows[i] \in Row
          BY <3>2, <4>2, Typed
        <5>3. rows'[i].status = "pending"
          BY <5>1, <5>2 DEF Row
        <5> QED BY <4>1, <4>2, <5>3, RemarkedOK DEF Goal
      <4>3. CASE i # t.id
        <5>1. rows'[i] = rows[i]
          BY <1>0, <4>1, <4>3
        <5>2. \A w \in Workers : job'[w] = IF w \in Holders(t.id) THEN [job[w] EXCEPT !.remarked = TRUE]
                                                                  ELSE job[w]
          BY <4>1 DEF Remark
        <5>3. ASSUME NEW w \in Holders(t.id) PROVE job'[w].id # i
          <6>1. job[w] \in Job /\ job[w].id = t.id /\ job'[w] = [job[w] EXCEPT !.remarked = TRUE]
            BY <5>2, Typed DEF Holders
          <6> QED BY <4>3, <6>1 DEF Job
        <5>4. Left(i)
          BY <5>2, <5>3 DEF Left, Holders, Busy
        <5> QED BY <1>c, <3>0, <5>1, <5>4
      <4> QED BY <4>2, <4>3
    <3> QED BY <3>1, <3>2
  <2> QED BY <1>6, <2>1, <2>2, <2>3, <2>4
<1>7. ASSUME NEW w \in Workers, Claim(w) PROVE Goal
  <2> DEFINE j == Min(Claimable)
             k == [stage |-> "claimed", id |-> j, name |-> rows[j].name,
                   attempts |-> rows[j].attempts + 1, age |-> 0,
                   text |-> 0, result |-> "failed", remarked |-> FALSE]
             r == [rows[j] EXCEPT !.status = "processing", !.age = 0, !.attempts = @ + 1]
  <2>1. job' = [job EXCEPT ![w] = k] /\ rows' = [rows EXCEPT ![j] = r] /\ artifact' = artifact
    BY <1>7 DEF Claim
  <2>2. k.id = j
    OBVIOUS
  <2> HIDE DEF k, r
  <2>3. CASE i = j
    BY <1>7, <2>3, ClaimedOK DEF Goal
  <2>4. CASE i # j
    <3> HIDE DEF j
    <3>1. rows'[i] = rows[i]
      BY <1>0, <2>1, <2>4
    <3> QED BY <1>l, <2>1, <2>2, <2>4, <3>1
  <2> QED BY <2>3, <2>4
<1>8. ASSUME NEW w \in Workers, GiveUp(w) \/ Record(w) PROVE Goal
  <2>1. /\ Busy(w) /\ Recorded(w, job[w].id) /\ job' = [job EXCEPT ![w] = Idle]
        /\ artifact' = artifact
    BY <1>8, RecordedBy DEF GiveUp, Record
  <2>2. CASE i = job[w].id
    BY <1>8, <1>w, <2>1, <2>2, RecordedOK DEF Goal
  <2>3. CASE i # job[w].id
    <3>1. rows'[i] = rows[i]
      BY <1>0, <2>1, <2>3 DEF Recorded
    <3> QED BY <1>l, <2>1, <3>1
  <2> QED BY <2>2, <2>3
<1>9. ASSUME NEW w \in Workers, ReadFile(w) PROVE Goal
  <2>1. CASE i = job[w].id
    BY <1>9, <1>w, <2>1, ReadOK DEF Goal
  <2>2. CASE i # job[w].id
    <3> DEFINE k == [job[w] EXCEPT !.stage = "read", !.text = disk[job[w].name]]
    <3>1. Busy(w) /\ job' = [job EXCEPT ![w] = k] /\ rows' = rows /\ artifact' = artifact
      BY <1>9 DEF ReadFile
    <3>2. k.id = job[w].id
      BY <3>1, Typed DEF Job
    <3> HIDE DEF k
    <3> QED BY <1>l, <2>2, <3>1, <3>2
  <2> QED BY <2>1, <2>2
<1>10. ASSUME NEW w \in Workers, Handle(w) PROVE Goal
  <2>1. CASE i = job[w].id
    BY <1>10, <2>1, HandledOK DEF Goal
  <2>2. CASE i # job[w].id
    <3>1. PICK r \in Results :
            /\ job' = [job EXCEPT ![w].stage = "handled", ![w].result = r]
            /\ artifact' = IF r = "ready" THEN [artifact EXCEPT ![job[w].id] = job[w].text]
                                          ELSE artifact
      BY <1>10 DEF Handle
    <3> DEFINE k == [job[w] EXCEPT !.stage = "handled", !.result = r]
    <3>2. Busy(w) /\ job' = [job EXCEPT ![w] = k] /\ rows' = rows /\ artifact'[i] = artifact[i]
      BY <1>0, <1>10, <2>2, <3>1 DEF Handle
    <3>3. k.id = job[w].id
      BY <3>2, Typed DEF Job
    <3> HIDE DEF k
    <3> QED BY <1>l, <2>2, <3>2, <3>3
  <2> QED BY <2>1, <2>2
<1>11. ASSUME NEW w \in Workers, Lose(w) PROVE Goal
  BY <1>l, <1>11 DEF Lose
<1>12. Goal
  BY <1>1, <1>2, <1>3, <1>5, <1>6, <1>7, <1>8, <1>9, <1>10, <1>11, NextSteps
<1> QED BY <1>12 DEF Goal

-----------------------------------------------------------------------------
(* Attempts, step by step *)

\* The jobs that have yet to count an attempt are finitely many.
LEMMA AheadFinite ==
  ASSUME NEW i
  PROVE  IsFiniteSet(Ahead(i)) /\ Cardinality(Ahead(i)) \in Nat
<1>1. IsFiniteSet(Workers) /\ Ahead(i) \in SUBSET Workers
  BY IngestAssumption DEF Ahead, Holders
<1> HIDE DEF Ahead
<1>2. IsFiniteSet(Ahead(i))
  BY <1>1, FS_Subset
<1> QED BY <1>2, FS_CardinalityType

\* The attempts of row i as the step leaves them, by name.
AttemptsThen(i, S) ==
  /\ handled'[i] + Cardinality(S) <= MaxAttempts
  /\ rows'[i] # NoRow => handled'[i] + Cardinality(S) <= rows'[i].attempts

\* Attempts that stand while fewer jobs are ahead of them stay within bounds.
LEMMA FewerAhead ==
  ASSUME TypeOK, NEW i \in Ids, AttemptsOK(i), Ahead(i)' \subseteq Ahead(i), handled'[i] = handled[i],
         rows'[i] # NoRow => Exists(i) /\ rows'[i].attempts = rows[i].attempts
  PROVE  AttemptsOK(i)'
<1> DEFINE S == Ahead(i)
           T == Ahead(i)'
<1>1. /\ handled[i] + Cardinality(S) <= MaxAttempts
      /\ Exists(i) => handled[i] + Cardinality(S) <= rows[i].attempts
      /\ IsFiniteSet(S) /\ Cardinality(S) \in Nat /\ T \subseteq S
  BY AheadFinite DEF AttemptsOK
<1> HIDE DEF S, T
<1>2. IsFiniteSet(T) /\ Cardinality(T) <= Cardinality(S) /\ Cardinality(T) \in Nat
  BY <1>1, FS_Subset, FS_CardinalityType
<1>3. /\ handled[i] \in Nat /\ MaxAttempts \in Nat
      /\ Exists(i) => rows[i].attempts \in Nat
  BY Typed, NumbersOK DEF Row
<1>4. AttemptsThen(i, T)
  BY <1>1, <1>2, <1>3 DEF AttemptsThen
<1> QED BY <1>4 DEF AttemptsThen, T, AttemptsOK, Exists

\* ... as do those of a row nobody has claimed.
LEMMA NobodyAhead ==
  ASSUME NEW i, Ahead(i)' = {}, handled'[i] = 0, rows'[i] # NoRow => rows'[i].attempts = 0
  PROVE  AttemptsOK(i)'
<1>1. Cardinality({}) = 0
  BY FS_EmptySet
<1>2. AttemptsThen(i, {})
  BY <1>1, NumbersOK DEF AttemptsThen
<1> QED BY <1>2 DEF AttemptsThen, AttemptsOK, Exists

\* A claim counts, and puts the row ahead only while its attempts last.
LEMMA ClaimAhead ==
  ASSUME TypeOK, NEW i \in Ids, AttemptsOK(i), NEW w \in Workers, w \notin Ahead(i),
         handled'[i] = handled[i], Exists(i), rows'[i].attempts = rows[i].attempts + 1,
         Ahead(i)' \ {w} = Ahead(i) \ {w}, w \in Ahead(i)' => rows[i].attempts + 1 <= MaxAttempts
  PROVE  AttemptsOK(i)'
<1> DEFINE S == Ahead(i)
           T == Ahead(i)'
<1>1. /\ handled[i] + Cardinality(S) <= MaxAttempts
      /\ handled[i] + Cardinality(S) <= rows[i].attempts
      /\ IsFiniteSet(S) /\ Cardinality(S) \in Nat /\ S \ {w} = T \ {w} /\ w \notin S
      /\ w \in T => rows[i].attempts + 1 <= MaxAttempts
  BY AheadFinite DEF AttemptsOK
<1> HIDE DEF S, T
<1>2. Cardinality(T) = Cardinality(S) - One(w \in S) + One(w \in T)
  BY <1>1, ButOne
<1>3. handled[i] \in Nat /\ MaxAttempts \in Nat /\ rows[i].attempts \in Nat
  BY Typed, NumbersOK DEF Row
<1>4. AttemptsThen(i, T)
  BY <1>1, <1>2, <1>3 DEF AttemptsThen, One
<1> QED BY <1>4 DEF AttemptsThen, T, AttemptsOK, Exists

\* The handler that runs is counted, and its claim is no longer ahead.
LEMMA ReadAhead ==
  ASSUME TypeOK, NEW i \in Ids, AttemptsOK(i), NEW w \in Workers, w \in Ahead(i), w \notin Ahead(i)',
         handled'[i] = handled[i] + 1, rows' = rows, Ahead(i)' \ {w} = Ahead(i) \ {w}
  PROVE  AttemptsOK(i)'
<1> DEFINE S == Ahead(i)
           T == Ahead(i)'
<1>1. /\ handled[i] + Cardinality(S) <= MaxAttempts
      /\ Exists(i) => handled[i] + Cardinality(S) <= rows[i].attempts
      /\ IsFiniteSet(S) /\ Cardinality(S) \in Nat /\ S \ {w} = T \ {w} /\ w \in S /\ w \notin T
  BY AheadFinite DEF AttemptsOK
<1> HIDE DEF S, T
<1>2. Cardinality(T) = Cardinality(S) - One(w \in S) + One(w \in T)
  BY <1>1, ButOne
<1>3. /\ handled[i] \in Nat /\ MaxAttempts \in Nat
      /\ Exists(i) => rows[i].attempts \in Nat
  BY Typed, NumbersOK DEF Row
<1>4. AttemptsThen(i, T)
  BY <1>1, <1>2, <1>3 DEF AttemptsThen, One, Exists
<1> QED BY <1>4 DEF AttemptsThen, T, AttemptsOK, Exists

\* Whoever is left with row i, and only they, may be ahead.
LEMMA LeftAhead ==
  ASSUME NEW i, Left(i)
  PROVE  Ahead(i)' \subseteq Ahead(i)
BY DEF Left, Ahead

\* A row is handled at most as often as its attempts allow.
LEMMA AttemptsStep ==
  ASSUME TypeOK, IdsOK, VersionsOK, NamesOK, [Next]_vars, NEW i \in Ids, AttemptsOK(i)
  PROVE  AttemptsOK(i)'
<1> DEFINE Goal == AttemptsOK(i)'
<1>0. /\ job \in [Workers -> Job \cup {Idle}] /\ rows \in [Ids -> Row \cup {NoRow}]
      /\ used \in SUBSET Ids /\ handled \in [Ids -> Nat]
  BY Typed
<1>f. ASSUME Ahead(i)' \subseteq Ahead(i), handled'[i] = handled[i],
             rows'[i] # NoRow => Exists(i) /\ rows'[i].attempts = rows[i].attempts
      PROVE  Goal
  BY <1>f, FewerAhead
<1>z. ASSUME Ahead(i)' = {}, handled'[i] = 0, rows'[i] # NoRow => rows'[i].attempts = 0 PROVE Goal
  BY <1>z, NobodyAhead
<1>k. ASSUME TypeOK, NEW w \in Workers, w \notin Ahead(i),
             handled'[i] = handled[i], Exists(i), rows'[i].attempts = rows[i].attempts + 1,
             Ahead(i)' \ {w} = Ahead(i) \ {w}, w \in Ahead(i)' => rows[i].attempts + 1 <= MaxAttempts
      PROVE  Goal
  BY <1>k, ClaimAhead
<1>r. ASSUME NEW w \in Workers, w \in Ahead(i), w \notin Ahead(i)',
             handled'[i] = handled[i] + 1, rows' = rows, Ahead(i)' \ {w} = Ahead(i) \ {w}
      PROVE  Goal
  BY <1>r, ReadAhead
<1> HIDE DEF Goal
<1>c. ASSUME Left(i), handled'[i] = handled[i], rows'[i] = rows[i] \/ rows'[i] = NoRow PROVE Goal
  BY <1>c, <1>f, LeftAhead DEF Exists
<1>n. ASSUME Fresh # {}, job' = job, handled' = handled, NEW n, NEW kind, NEW v,
             rows' = [rows EXCEPT ![NextId] = NewRow(n, kind, v)]
      PROVE  Goal
  <2>1. NextId \in Ids \ used /\ Left(i)
    BY <1>n, NextIdFresh, JobsLeft
  <2>2. CASE i = NextId
    <3>1. rows'[i] = NewRow(n, kind, v)
      BY <1>0, <1>n, <2>1, <2>2
    <3>2. rows'[i].attempts = 0
      BY <3>1 DEF NewRow
    <3>3. Holders(i) = {} /\ handled[i] = 0
      BY <2>1, <2>2 DEF IdsOK, Holders
    <3>4. Ahead(i)' = {}
      BY <2>1, <3>3, LeftAhead DEF Ahead
    <3> QED BY <1>n, <1>z, <3>2, <3>3, <3>4
  <2>3. CASE i # NextId
    <3>1. rows'[i] = rows[i]
      BY <1>0, <1>n, <2>1, <2>3
    <3> QED BY <1>c, <1>n, <2>1, <3>1
  <2> QED BY <2>2, <2>3
<1>l. ASSUME NEW w \in Workers, NEW k, job' = [job EXCEPT ![w] = k], k = Idle \/ k.id # i,
             rows'[i] = rows[i], handled'[i] = handled[i]
      PROVE  Goal
  BY <1>c, <1>l, OneJobLeft
<1>1. ASSUME DiskStep \/ (\E s \in Syncs : WalkPool(s) \/ ReadRows(s)) PROVE Goal
  <2>1. rows' = rows /\ job' = job /\ handled' = handled
    BY <1>1 DEF DiskStep, SaveUpload, DeleteBytes, SandboxWrite, SandboxRemove, vars,
                WalkPool, ReadRows
  <2> QED BY <1>c, <2>1, JobsLeft
<1>2. ASSUME Tick PROVE Goal
  <2>1. /\ \A w \in Workers : job'[w] = IF Busy(w) THEN [job[w] EXCEPT !.age = job[w].age + 1] ELSE Idle
        /\ rows'[i] = IF Exists(i) /\ rows[i].status = "processing" /\ rows[i].age < Window
                      THEN [rows[i] EXCEPT !.age = rows[i].age + 1] ELSE rows[i]
        /\ handled' = handled
    BY <1>2 DEF Tick
  <2>2. ASSUME NEW w \in Workers, Busy(w)
        PROVE  /\ job'[w].id = job[w].id /\ job'[w].stage = job[w].stage
               /\ job'[w].remarked = job[w].remarked /\ job'[w].attempts = job[w].attempts
    <3>1. job[w] \in Job /\ job'[w] = [job[w] EXCEPT !.age = job[w].age + 1]
      BY <2>1, <2>2, Typed
    <3> QED BY <3>1 DEF Job
  <2>3. Ahead(i)' \subseteq Ahead(i)
    <3>1. ASSUME NEW w \in Ahead(i)' PROVE Busy(w) /\ w \in Workers
      BY <2>1 DEF Ahead, Holders, Busy
    <3> QED BY <2>2, <3>1 DEF Ahead, Holders
  <2>4. rows'[i] # NoRow => Exists(i) /\ rows'[i].attempts = rows[i].attempts
    <3>1. Exists(i) => rows[i] \in Row
      BY Typed
    <3> QED BY <2>1, <3>1 DEF Row, Exists
  <2> QED BY <1>f, <2>1, <2>3, <2>4
<1>3. ASSUME NEW n \in Names, RecordUpload(n) PROVE Goal
  BY <1>3, <1>n DEF RecordUpload
<1>4. ASSUME NEW j \in Ids, rows' = [rows EXCEPT ![j] = NoRow], job' = job, handled' = handled
      PROVE  Goal
  <2>1. rows'[i] = rows[i] \/ rows'[i] = NoRow
    BY <1>0, <1>4
  <2> QED BY <1>c, <1>4, <2>1, JobsLeft
<1>5. ASSUME NEW j \in Ids, DeleteFile(j) PROVE Goal
  BY <1>4, <1>5 DEF DeleteFile
<1>6. ASSUME NEW s \in Syncs, NEW t \in sync[s].todo,
             ApplyDelete(s, t) \/ ApplyFlag(s, t) \/ ApplyCreate(s, t) \/ ApplyReingest(s, t)
      PROVE  Goal
  <2>0. t.op # "create" => t.id \in Ids
    BY <1>0 DEF IdsOK
  <2>1. CASE ApplyDelete(s, t)
    BY <1>4, <2>0, <2>1 DEF ApplyDelete
  <2>2. CASE ApplyFlag(s, t)
    <3>1. /\ job' = job /\ handled' = handled /\ t.id \in Ids
          /\ rows' = IF Exists(t.id) THEN [rows EXCEPT ![t.id].status = "failed"] ELSE rows
      BY <2>0, <2>2 DEF ApplyFlag
    <3>2. Ahead(i)' \subseteq Ahead(i)
      BY <3>1, JobsLeft, LeftAhead
    <3>3. rows'[i] # NoRow => Exists(i) /\ rows'[i].attempts = rows[i].attempts
      <4>1. rows'[i] = rows[i] \/ (Exists(i) /\ rows'[i] = [rows[i] EXCEPT !.status = "failed"])
        BY <1>0, <3>1
      <4>2. Exists(i) => rows[i] \in Row
        BY Typed
      <4> QED BY <4>1, <4>2 DEF Row, Exists
    <3> QED BY <1>f, <3>1, <3>2, <3>3
  <2>3. CASE ApplyCreate(s, t)
    BY <1>n, <2>3 DEF ApplyCreate
  <2>4. CASE ApplyReingest(s, t)
    <3>0. t.id \in Ids
      BY <2>0, <2>4 DEF ApplyReingest
    <3>1. CASE ~Exists(t.id)
      BY <1>c, <2>4, <3>0, <3>1, JobsLeft DEF ApplyReingest
    <3>2. CASE Exists(t.id)
      <4>1. /\ rows' = [rows EXCEPT ![t.id].size = t.size, ![t.id].status = "pending",
                                    ![t.id].attempts = 0, ![t.id].prepared = FALSE,
                                    ![t.id].age = 0]
            /\ Remark(t.id)
        BY <2>4, <3>2 DEF ApplyReingest
      <4>2. /\ \A w \in Workers : job'[w] = IF w \in Holders(t.id)
                                            THEN [job[w] EXCEPT !.remarked = TRUE] ELSE job[w]
            /\ handled' = [handled EXCEPT ![t.id] = 0]
        BY <4>1 DEF Remark
      <4>3. ASSUME NEW w \in Holders(t.id) PROVE job'[w].id = t.id /\ job'[w].remarked
        <5>1. job[w] \in Job /\ job[w].id = t.id /\ job'[w] = [job[w] EXCEPT !.remarked = TRUE]
          BY <4>2, Typed DEF Holders
        <5> QED BY <5>1 DEF Job
      <4>4. CASE i = t.id
        <5>1. rows'[i] = [rows[i] EXCEPT !.size = t.size, !.status = "pending",
                                    !.attempts = 0, !.prepared = FALSE, !.age = 0]
          BY <1>0, <4>1, <4>4
        <5>2. rows[i] \in Row
          BY <3>2, <4>4, Typed
        <5>3. rows'[i].attempts = 0
          BY <5>1, <5>2 DEF Row
        <5>4. Ahead(i)' = {}
          BY <4>2, <4>3, <4>4 DEF Ahead, Holders, Busy
        <5>5. handled'[i] = 0
          BY <1>0, <4>2, <4>4
        <5> QED BY <1>z, <5>3, <5>4, <5>5
      <4>5. CASE i # t.id
        <5>1. rows'[i] = rows[i] /\ handled'[i] = handled[i]
          BY <1>0, <4>1, <4>2, <4>5
        <5>2. Left(i)
          BY <4>2, <4>3, <4>5 DEF Left, Holders, Busy
        <5> QED BY <1>c, <5>1, <5>2
      <4> QED BY <4>4, <4>5
    <3> QED BY <3>1, <3>2
  <2> QED BY <1>6, <2>1, <2>2, <2>3, <2>4
<1>7. ASSUME NEW w \in Workers, Claim(w) PROVE Goal
  <2> DEFINE j == Min(Claimable)
             k == [stage |-> "claimed", id |-> j, name |-> rows[j].name,
                   attempts |-> rows[j].attempts + 1, age |-> 0,
                   text |-> 0, result |-> "failed", remarked |-> FALSE]
             r == [rows[j] EXCEPT !.status = "processing", !.age = 0, !.attempts = @ + 1]
  <2>1. /\ job' = [job EXCEPT ![w] = k] /\ rows' = [rows EXCEPT ![j] = r] /\ handled' = handled
        /\ job[w] = Idle /\ j \in Claimable
    BY <1>7, ClaimedIsClaimable DEF Claim
  <2>2. k.id = j /\ k.attempts = rows[j].attempts + 1
    OBVIOUS
  <2> HIDE DEF k, j
  <2>3. j \in Ids /\ Exists(j) /\ rows[j] \in Row
    BY <2>1, Typed DEF Claimable
  <2>4. r.attempts = rows[j].attempts + 1
    BY <2>3 DEF Row
  <2> HIDE DEF r
  <2>5. CASE i = j
    <3>1. rows'[i].attempts = rows[i].attempts + 1 /\ Exists(i)
      BY <1>0, <2>1, <2>3, <2>4, <2>5
    <3>2. \A v \in Workers \ {w} : job'[v] = job[v]
      BY <1>0, <2>1
    <3>3. Ahead(i)' \ {w} = Ahead(i) \ {w}
      BY <3>2 DEF Ahead, Holders, Busy
    <3>4. w \notin Ahead(i)
      BY <2>1 DEF Ahead, Holders, Busy
    <3>5. w \in Ahead(i)' => rows[i].attempts + 1 <= MaxAttempts
      <4>1. job'[w] = k
        BY <1>0, <2>1
      <4> QED BY <2>2, <2>5, <4>1 DEF Ahead
    <3> QED BY <1>k, <2>1, <3>1, <3>3, <3>4, <3>5
  <2>6. CASE i # j
    <3>1. rows'[i] = rows[i]
      BY <1>0, <2>1, <2>6
    <3> QED BY <1>l, <2>1, <2>2, <2>6, <3>1
  <2> QED BY <2>5, <2>6
<1>8. ASSUME NEW w \in Workers, GiveUp(w) \/ Record(w) PROVE Goal
  <2>1. /\ Busy(w) /\ Recorded(w, job[w].id) /\ job' = [job EXCEPT ![w] = Idle]
        /\ handled' = handled
    BY <1>8, RecordedBy DEF GiveUp, Record
  <2>2. Ahead(i)' \subseteq Ahead(i)
    BY <2>1, OneJobLeft, LeftAhead
  <2>3. rows'[i] # NoRow => Exists(i) /\ rows'[i].attempts = rows[i].attempts
    <3> DEFINE m == job[w].id
    <3>1. \/ rows'[i] = rows[i]
          \/ Exists(i) /\ \E st, p : rows'[i] = [rows[i] EXCEPT !.status = st, !.prepared = p, !.age = 0]
          \/ Exists(i) /\ rows'[i] = [rows[i] EXCEPT !.status = "pending", !.age = 0]
      <4>1. CASE rows' = rows
        BY <4>1
      <4>2. ASSUME Held(m), NEW st, rows' = [rows EXCEPT ![m].status = st, ![m].prepared = (st = "ready"),
                                                         ![m].age = 0]
            PROVE  \/ rows'[i] = rows[i]
                   \/ Exists(i) /\ \E u, p : rows'[i] = [rows[i] EXCEPT !.status = u, !.prepared = p, !.age = 0]
        BY <1>0, <4>2 DEF Held
      <4>3. CASE Held(m) /\ rows' = [rows EXCEPT ![m].status = "pending", ![m].age = 0]
        BY <1>0, <4>3 DEF Held
      <4> QED BY <2>1, <4>1, <4>2, <4>3 DEF Recorded
    <3>2. Exists(i) => rows[i] \in Row
      BY Typed
    <3> QED BY <3>1, <3>2 DEF Row, Exists
  <2> QED BY <1>f, <2>1, <2>2, <2>3
<1>9. ASSUME NEW w \in Workers, ReadFile(w) PROVE Goal
  <2> DEFINE k == [job[w] EXCEPT !.stage = "read", !.text = disk[job[w].name]]
  <2>1. /\ Busy(w) /\ job' = [job EXCEPT ![w] = k] /\ rows' = rows
        /\ job[w].stage = "claimed" /\ job[w].attempts <= MaxAttempts
        /\ handled' = IF job[w].remarked THEN handled
                                         ELSE [handled EXCEPT ![job[w].id] = handled[job[w].id] + 1]
    BY <1>9 DEF ReadFile
  <2>2. k.id = job[w].id /\ k.stage = "read"
    BY <2>1, Typed DEF Job
  <2> HIDE DEF k
  <2>3. job'[w] = k /\ \A v \in Workers \ {w} : job'[v] = job[v]
    BY <1>0, <2>1
  <2>4. w \notin Ahead(i)' /\ Ahead(i)' \ {w} = Ahead(i) \ {w}
    BY <2>2, <2>3 DEF Ahead, Holders, Busy
  <2>5. CASE i = job[w].id /\ ~job[w].remarked
    <3>1. w \in Ahead(i) /\ handled'[i] = handled[i] + 1
      BY <1>0, <2>1, <2>5 DEF Ahead, Holders
    <3> QED BY <1>r, <2>1, <2>4, <3>1
  <2>6. CASE ~(i = job[w].id /\ ~job[w].remarked)
    <3>1. handled'[i] = handled[i]
      BY <1>0, <2>1, <2>6
    <3>2. Ahead(i)' \subseteq Ahead(i)
      BY <2>4
    <3> QED BY <1>f, <2>1, <3>1, <3>2 DEF Exists
  <2> QED BY <2>5, <2>6
<1>10. ASSUME NEW w \in Workers, Handle(w) PROVE Goal
  <2>1. PICK q \in Results : job' = [job EXCEPT ![w].stage = "handled", ![w].result = q]
    BY <1>10 DEF Handle
  <2> DEFINE k == [job[w] EXCEPT !.stage = "handled", !.result = q]
  <2>2. Busy(w) /\ job' = [job EXCEPT ![w] = k] /\ rows' = rows /\ handled' = handled
    BY <1>0, <1>10, <2>1 DEF Handle
  <2>3. k.stage = "handled"
    BY <2>2, Typed DEF Job
  <2> HIDE DEF k
  <2>4. job'[w] = k /\ \A v \in Workers \ {w} : job'[v] = job[v]
    BY <1>0, <2>2
  <2>5. Ahead(i)' \subseteq Ahead(i)
    BY <2>3, <2>4 DEF Ahead, Holders, Busy
  <2> QED BY <1>f, <2>2, <2>5 DEF Exists
<1>11. ASSUME NEW w \in Workers, Lose(w) PROVE Goal
  BY <1>l, <1>11 DEF Lose
<1>12. Goal
  BY <1>1, <1>2, <1>3, <1>5, <1>6, <1>7, <1>8, <1>9, <1>10, <1>11, NextSteps
<1> QED BY <1>12 DEF Goal

-----------------------------------------------------------------------------
(* Theorems *)

\* The invariant holds at first ...
LEMMA InitOK == Init => PoolInv
<1> SUFFICES ASSUME Init PROVE PoolInv
  OBVIOUS
<1>0. 0 \in Versions /\ 0 \in Nat /\ 0 \in 0 .. MaxLosses
  BY NumbersOK
<1>1. /\ disk = [n \in Names |-> 0] /\ arriving = [n \in Names |-> 0] /\ leaving = {}
      /\ rows = [i \in Ids |-> NoRow] /\ used = {} /\ artifact = [i \in Ids |-> 0]
      /\ job = [w \in Workers |-> Idle] /\ sync = [s \in Syncs |-> Rest]
      /\ version = 0 /\ losses = 0
      /\ handled = [i \in Ids |-> 0] /\ crossed = {}
  BY DEF Init
<1>2. Rest \in SyncRec /\ Rest.todo = {} /\ \A n \in Names : Rest.listing[n] = 0
  BY <1>0 DEF Rest, SyncRec
<1>3. TypeOK
  <2>1. /\ disk \in [Names -> Versions] /\ arriving \in [Names -> Versions]
        /\ artifact \in [Ids -> Versions] /\ handled \in [Ids -> Nat]
    BY <1>0, <1>1
  <2>2. /\ rows \in [Ids -> Row \cup {NoRow}] /\ \A i \in Ids : rows[i] = NoRow
        /\ job \in [Workers -> Job \cup {Idle}]
    BY <1>1
  <2>3. sync \in [Syncs -> SyncRec]
    BY <1>1, <1>2
  <2> QED BY <1>0, <1>1, <2>1, <2>2, <2>3 DEF TypeOK
<1>4. \A i \in Ids : ~Exists(i)
  BY <1>1 DEF Exists
<1>5. \A w \in Workers : ~Busy(w)
  BY <1>1 DEF Busy
<1>6. \A s \in Syncs : sync[s].todo = {} /\ \A n \in Names : sync[s].listing[n] = 0
  BY <1>1, <1>2
<1>7. IdsOK
  BY <1>0, <1>1, <1>5, <1>6 DEF IdsOK
<1>8. VersionsOK
  <2>1. \A n \in Names : disk[n] = 0 /\ arriving[n] = 0
    BY <1>1
  <2>2. \A i \in Ids : artifact[i] = 0
    BY <1>1
  <2> QED BY <1>1, <1>4, <1>5, <1>6, <2>1, <2>2 DEF VersionsOK, Was
<1>9. NamesOK
  BY <1>5, <1>6 DEF NamesOK
<1>10. \A i \in Ids : Holders(i) = {} /\ Ahead(i) = {}
  BY <1>5 DEF Holders, Ahead
<1>11. \A i \in Ids : ClaimOK(i) /\ TextOK(i)
  BY <1>4, <1>10 DEF ClaimOK, TextOK
<1>12. ASSUME NEW i \in Ids PROVE AttemptsOK(i)
  <2>1. Cardinality({}) = 0
    BY FS_EmptySet
  <2>2. handled[i] = 0
    BY <1>1
  <2> QED BY <1>4, <1>10, <2>1, <2>2, NumbersOK DEF AttemptsOK
<1> QED BY <1>3, <1>7, <1>8, <1>9, <1>11, <1>12 DEF PoolInv

\* ... and every step keeps it.
LEMMA StepOK == PoolInv /\ [Next]_vars => PoolInv'
<1> SUFFICES ASSUME PoolInv, [Next]_vars PROVE PoolInv'
  OBVIOUS
<1>1. TypeOK /\ IdsOK /\ VersionsOK /\ NamesOK
  BY DEF PoolInv
<1>2. TypeOK' /\ IdsOK' /\ VersionsOK' /\ NamesOK'
  BY <1>1, TypeStep, IdsStep, VersionsStep, NamesStep
<1>3. ASSUME NEW i \in Ids, i \notin crossed' PROVE ClaimOK(i)' /\ TextOK(i)'
  <2>1. i \notin crossed
    BY <1>1, <1>3, CrossedStep
  <2>2. ClaimOK(i) /\ TextOK(i)
    BY <2>1 DEF PoolInv
  <2> QED BY <1>1, <1>3, <2>2, RowStep
<1>4. ASSUME NEW i \in Ids PROVE AttemptsOK(i)'
  BY <1>1, AttemptsStep DEF PoolInv
<1> QED BY <1>2, <1>3, <1>4 DEF PoolInv

\* What the parts know of a file stays in order, in every behaviour of the pool.
THEOREM PoolKept == Spec => []PoolInv
<1>1. Init => PoolInv
  BY InitOK
<1>2. PoolInv /\ [Next]_vars => PoolInv'
  BY StepOK
<1> QED BY <1>1, <1>2, PTL DEF Spec

\* The worker's part of the invariant follows from it.
LEMMA PoolGives == PoolInv => IngestInv
<1> SUFFICES ASSUME PoolInv PROVE IngestInv
  OBVIOUS
<1>1. OneHolder
  <2> SUFFICES ASSUME NEW i \in Ids \ crossed PROVE Cardinality(Holders(i)) <= 1
    BY DEF OneHolder
  <2> DEFINE S == Holders(i)
  <2>1. \A v, w \in S : v = w
    BY DEF PoolInv, ClaimOK
  <2> HIDE DEF S
  <2>2. CASE S = {}
    BY <2>2, FS_EmptySet DEF S
  <2>3. CASE S # {}
    <3>1. PICK w \in S : TRUE
      BY <2>3
    <3>2. S = {w}
      BY <2>1, <3>1
    <3>3. Cardinality(S) = 1
      BY <3>2, FS_Singleton
    <3> QED BY <3>3 DEF S
  <2> QED BY <2>2, <2>3
<1>2. GivesUp
  <2> SUFFICES ASSUME NEW i \in Ids PROVE handled[i] <= MaxAttempts
    BY DEF GivesUp
  <2>1. handled[i] + Cardinality(Ahead(i)) <= MaxAttempts
    BY DEF PoolInv, AttemptsOK
  <2>2. handled[i] \in Nat /\ MaxAttempts \in Nat /\ Cardinality(Ahead(i)) \in Nat
    BY AheadFinite, Typed, NumbersOK DEF PoolInv
  <2> QED BY <2>1, <2>2
<1> QED BY <1>1, <1>2 DEF IngestInv, PoolInv

\* A claim is not given away while its holder lives and its contents stand, and
\* a file is handed to a handler a bounded number of times (db.py, main.py).
THEOREM ClaimsAreKept == Spec => []IngestInv
BY PoolKept, PoolGives, PTL

\* The text served for a row that was never crossed, and whose size is that of
\* the bytes in the pool, was made from these bytes (pool-sync.ts, main.py).
THEOREM ReadyTextIsCurrent == Spec => []ReadyIsCurrent
<1>1. ASSUME PoolInv PROVE ReadyIsCurrent
  <2> SUFFICES ASSUME NEW i \in Ids \ crossed, Exists(i), rows[i].status = "ready",
                      rows[i].size = disk[rows[i].name]
               PROVE  artifact[i] = disk[rows[i].name]
    BY DEF ReadyIsCurrent, Current
  <2>1. TextOK(i) /\ VersionsOK /\ TypeOK
    BY <1>1 DEF PoolInv
  <2>2. rows[i].size <= artifact[i] /\ Was(rows[i].name, artifact[i]) /\ rows[i].size > 0
    BY <2>1 DEF TextOK, VersionsOK
  <2>3. rows[i] \in Row /\ artifact[i] \in Versions
    BY <2>1, Typed
  <2>4. rows[i].size \in Nat /\ artifact[i] \in Nat
    BY <2>3, NumbersOK DEF Row
  <2> QED BY <2>2, <2>4 DEF Was
<1> QED BY <1>1, PoolKept, PTL

=============================================================================
