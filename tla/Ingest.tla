------------------------------- MODULE Ingest -------------------------------
(***************************************************************************)
(* How the files of one chat become text a model can read.                 *)
(*                                                                         *)
(* The pool is a directory that uploads and Sandbox runs write into        *)
(* directly.  `files` rows describe it; they are also the queue of the     *)
(* Python worker (worker/app), whose threads claim a row, read the file,   *)
(* write the prepared text to .opninfer/<id>.md and record the outcome.    *)
(* After a Sandbox run the app reconciles pool and rows (pool-sync.ts).    *)
(* Nothing holds a lock over more than one query.                          *)
(*                                                                         *)
(* Contents are versions; a version stands for the file's bytes and for    *)
(* its size, since every rewrite here changes the size (an edit that keeps *)
(* it is the gap pool-sync.ts:16 documents).  0 is "no such file".         *)
(***************************************************************************)
EXTENDS Integers, FiniteSets, FiniteSetsExt

CONSTANTS
    Names,        \* file names in the pool
    Ids,          \* rows that may be created; numbered in order of created_at
    Workers,      \* threads of the worker process (WORKER_CONCURRENCY)
    Syncs,        \* runs of syncPool
    MaxVersion,   \* bound: contents written during a behaviour
    MaxAttempts,  \* WORKER_MAX_ATTEMPTS
    Window,       \* WORKER_RECLAIM_MINUTES, in ticks
    Headroom,     \* ticks a thread may spend on one claim
    MaxLosses     \* bound: crashes of a thread

ASSUME IngestAssumption ==
    /\ Ids \subseteq Nat /\ IsFiniteSet(Workers)
    /\ MaxVersion \in Nat /\ MaxAttempts \in Nat \ {0} /\ MaxLosses \in Nat
    /\ Window \in Nat /\ Headroom \in Nat
    /\ Headroom < Window          \* config.py:39-47 and :51-56: caps sit inside the window

VARIABLES
    disk,       \* Names -> version of the bytes in the pool, 0 if none
    arriving,   \* Names -> version an upload saved and has no row for yet, 0 if none
    leaving,    \* names whose row a person deleted and whose bytes are still there
    rows,       \* Ids -> row of `files`
    used,       \* ids handed out
    artifact,   \* Ids -> version the prepared text was made from, 0 if none
    job,        \* Workers -> the claim a thread works on
    sync,       \* Syncs -> progress of a reconciliation
    version,    \* the last version written
    losses,     \* crashes so far
    handled,    \* history: handler runs per row since it was last marked pending
    crossed     \* history: rows claimed while a thread still worked on what they were before
                \* they were marked pending again

vars == <<disk, arriving, leaving, rows, used, artifact, job, sync, version,
          losses, handled, crossed>>

Versions == 0..MaxVersion
Statuses == {"pending", "processing", "ready", "unsupported", "failed"}
Results  == {"ready", "unsupported", "failed", "retry"}
Row == [name : Names, kind : {"upload", "generated"}, status : Statuses,
        size : Versions, attempts : Nat, age : 0..Window, prepared : BOOLEAN]
NoRow == [name |-> "none"]
Idle  == [stage |-> "idle"]
Job == [stage : {"claimed", "read", "handled"}, id : Ids, name : Names,
        attempts : Nat, age : 0..Headroom, text : Versions, result : Results, remarked : BOOLEAN]
Todo == [op : {"delete", "flag", "create", "reingest"}, id : Ids \cup {0}, name : Names,
         size : Versions]
Rest == [stage |-> "rest", listing |-> [n \in Names |-> 0], todo |-> {}]

SyncRec == [stage : {"rest", "listed", "applying"}, listing : [Names -> Versions],
            todo : SUBSET Todo]

TypeOK ==
    /\ disk \in [Names -> Versions] /\ arriving \in [Names -> Versions]
    /\ leaving \in SUBSET Names
    /\ used \in SUBSET Ids
    /\ rows \in [Ids -> Row \cup {NoRow}] /\ \A i \in Ids : rows[i] /= NoRow => i \in used
    /\ artifact \in [Ids -> Versions]
    /\ job \in [Workers -> Job \cup {Idle}]
    /\ sync \in [Syncs -> SyncRec]
    /\ version \in Versions /\ losses \in 0..MaxLosses
    /\ handled \in [Ids -> Nat] /\ crossed \in SUBSET Ids

Init ==
    /\ disk = [n \in Names |-> 0] /\ arriving = [n \in Names |-> 0] /\ leaving = {}
    /\ rows = [i \in Ids |-> NoRow] /\ used = {} /\ artifact = [i \in Ids |-> 0]
    /\ job = [w \in Workers |-> Idle] /\ sync = [s \in Syncs |-> Rest]
    /\ version = 0 /\ losses = 0
    /\ handled = [i \in Ids |-> 0] /\ crossed = {}

Exists(i) == rows[i] /= NoRow
Busy(w)   == job[w] /= Idle
Holders(i) == {w \in Workers : Busy(w) /\ job[w].id = i}
Fresh == Ids \ used
NextId == Min(Fresh)

NewRow(n, kind, size) ==
    [name |-> n, kind |-> kind, status |-> "pending", size |-> size,
     attempts |-> 0, age |-> 0, prepared |-> FALSE]

-----------------------------------------------------------------------------
(* People: api/files/route.ts and actions/files.ts.                        *)

\* saveFileToPool opens the name exclusively; the row follows an await later.
SaveUpload(n) ==
    /\ disk[n] = 0 /\ arriving[n] = 0 /\ version < MaxVersion
    /\ version' = version + 1
    /\ disk' = [disk EXCEPT ![n] = version']
    /\ arriving' = [arriving EXCEPT ![n] = version']
    /\ UNCHANGED <<leaving, rows, used, artifact, job, sync, losses, handled, crossed>>

RecordUpload(n) ==
    /\ arriving[n] /= 0 /\ Fresh /= {}
    /\ rows' = [rows EXCEPT ![NextId] = NewRow(n, "upload", arriving[n])]
    /\ used' = used \cup {NextId}
    /\ arriving' = [arriving EXCEPT ![n] = 0]
    /\ UNCHANGED <<disk, leaving, artifact, job, sync, version, losses, handled, crossed>>

\* deleteFile removes the row first, then the bytes.
DeleteFile(i) ==
    /\ Exists(i)
    /\ rows' = [rows EXCEPT ![i] = NoRow]
    /\ leaving' = leaving \cup {rows[i].name}
    /\ UNCHANGED <<disk, arriving, used, artifact, job, sync, version, losses, handled, crossed>>

DeleteBytes(n) ==
    /\ n \in leaving
    /\ leaving' = leaving \ {n}
    /\ disk' = [disk EXCEPT ![n] = 0]
    /\ UNCHANGED <<arriving, rows, used, artifact, job, sync, version, losses, handled, crossed>>

(* The Sandbox writes, moves and removes files as it likes.                *)
SandboxWrite(n) ==
    /\ version < MaxVersion
    /\ version' = version + 1
    /\ disk' = [disk EXCEPT ![n] = version']
    /\ UNCHANGED <<arriving, leaving, rows, used, artifact, job, sync, losses, handled, crossed>>

SandboxRemove(n) ==
    /\ disk[n] /= 0
    /\ disk' = [disk EXCEPT ![n] = 0]
    /\ UNCHANGED <<arriving, leaving, rows, used, artifact, job, sync, version, losses,
                   handled, crossed>>

-----------------------------------------------------------------------------
(* syncPool: walk the pool, read the rows, then one query per difference.  *)

WalkPool(s) ==
    /\ sync[s].stage = "rest"
    /\ sync' = [sync EXCEPT ![s] = [Rest EXCEPT !.stage = "listed", !.listing = disk]]
    /\ UNCHANGED <<disk, arriving, leaving, rows, used, artifact, job, version, losses,
                   handled, crossed>>

\* The later of two rows with one name wins in `byName`.
RowsNamed(n) == {i \in Ids : Exists(i) /\ rows[i].name = n}

PlanPoolSync(onDisk) ==
    {[op |-> "delete", id |-> i, name |-> rows[i].name, size |-> 0] :
        i \in {j \in Ids : Exists(j) /\ onDisk[rows[j].name] = 0 /\ rows[j].kind = "generated"}}
    \cup
    {[op |-> "flag", id |-> i, name |-> rows[i].name, size |-> 0] :
        i \in {j \in Ids : Exists(j) /\ onDisk[rows[j].name] = 0 /\ rows[j].kind = "upload"
                                     /\ rows[j].status /= "failed"}}
    \cup
    {[op |-> "create", id |-> 0, name |-> n, size |-> onDisk[n]] :
        n \in {m \in Names : onDisk[m] /= 0 /\ RowsNamed(m) = {}}}
    \cup
    {[op |-> "reingest", id |-> Max(RowsNamed(n)), name |-> n, size |-> onDisk[n]] :
        n \in {m \in Names : onDisk[m] /= 0 /\ RowsNamed(m) /= {}
                             /\ rows[Max(RowsNamed(m))].size /= onDisk[m]}}

Finished(todo) == IF todo = {} THEN Rest ELSE [Rest EXCEPT !.stage = "applying", !.todo = todo]

ReadRows(s) ==
    /\ sync[s].stage = "listed"
    /\ sync' = [sync EXCEPT ![s] = Finished(PlanPoolSync(sync[s].listing))]
    /\ UNCHANGED <<disk, arriving, leaving, rows, used, artifact, job, version, losses,
                   handled, crossed>>

\* Deletes before flags before creates before re-ingests.
Rank(t) == CASE t.op = "delete" -> 0 [] t.op = "flag" -> 1 [] t.op = "create" -> 2
             [] t.op = "reingest" -> 3
Due(s, t) == t \in sync[s].todo /\ \A u \in sync[s].todo : Rank(t) <= Rank(u)

\* Marking a row pending again: everybody working on it works on the past.
Remark(i) ==
    /\ job' = [w \in Workers |-> IF w \in Holders(i) THEN [job[w] EXCEPT !.remarked = TRUE]
                                                     ELSE job[w]]
    /\ handled' = [handled EXCEPT ![i] = 0]

ApplyDelete(s, t) ==
    /\ Due(s, t) /\ t.op = "delete"
    /\ rows' = [rows EXCEPT ![t.id] = NoRow]
    /\ sync' = [sync EXCEPT ![s] = Finished(@.todo \ {t})]
    /\ UNCHANGED <<disk, arriving, leaving, used, artifact, job, version, losses, handled, crossed>>

ApplyFlag(s, t) ==
    /\ Due(s, t) /\ t.op = "flag"
    /\ rows' = IF Exists(t.id) THEN [rows EXCEPT ![t.id].status = "failed"] ELSE rows
    /\ sync' = [sync EXCEPT ![s] = Finished(@.todo \ {t})]
    /\ UNCHANGED <<disk, arriving, leaving, used, artifact, job, version, losses, handled, crossed>>

ApplyCreate(s, t) ==
    /\ Due(s, t) /\ t.op = "create" /\ Fresh /= {}
    /\ rows' = [rows EXCEPT ![NextId] = NewRow(t.name, "generated", t.size)]
    /\ used' = used \cup {NextId}
    /\ sync' = [sync EXCEPT ![s] = Finished(@.todo \ {t})]
    /\ UNCHANGED <<disk, arriving, leaving, artifact, job, version, losses, handled, crossed>>

\* The update of a row that is gone throws: the rest of the plan is dropped.
ApplyReingest(s, t) ==
    /\ Due(s, t) /\ t.op = "reingest"
    /\ IF Exists(t.id)
       THEN /\ rows' = [rows EXCEPT ![t.id].size = t.size, ![t.id].status = "pending",
                                    ![t.id].attempts = 0, ![t.id].prepared = FALSE,
                                    ![t.id].age = 0]
            /\ Remark(t.id)
            /\ sync' = [sync EXCEPT ![s] = Finished(@.todo \ {t})]
       ELSE /\ sync' = [sync EXCEPT ![s] = Rest]
            /\ UNCHANGED <<rows, job, handled>>
    /\ UNCHANGED <<disk, arriving, leaving, used, artifact, version, losses, crossed>>

-----------------------------------------------------------------------------
(* The worker.                                                             *)

\* Bug: the reclaim window is as short as a handler's timeout.
OverdueEarly(i) == rows[i].status = "processing" /\ rows[i].age >= Headroom

\* Bug: claims of dead threads are never taken over.
NeverOverdue(i) == FALSE

\* CLAIM_SQL: pending, or claimed longer ago than the window; oldest first.
Overdue(i) == rows[i].status = "processing" /\ rows[i].age >= Window
Claimable == {i \in Ids : Exists(i) /\ (rows[i].status = "pending" \/ Overdue(i))}

Claim(w) ==
    /\ job[w] = Idle /\ Claimable /= {}
    /\ LET i == Min(Claimable) IN
       /\ rows' = [rows EXCEPT ![i].status = "processing", ![i].age = 0, ![i].attempts = @ + 1]
       /\ job' = [job EXCEPT ![w] = [stage |-> "claimed", id |-> i, name |-> rows[i].name,
                                     attempts |-> rows[i].attempts + 1, age |-> 0,
                                     text |-> 0, result |-> "failed", remarked |-> FALSE]]
       /\ crossed' = IF \E v \in Holders(i) : job[v].remarked THEN crossed \cup {i} ELSE crossed
    /\ UNCHANGED <<disk, arriving, leaving, used, artifact, sync, version, losses, handled>>

\* finish and requeue touch only a row that is still `processing`.
Held(i) == Exists(i) /\ rows[i].status = "processing"

\* Bug: finish writes to the row whoever has it, as it did before the guard.
FinishAnyway(i, status, prepared) ==
    IF Exists(i) THEN [rows EXCEPT ![i].status = status, ![i].prepared = prepared, ![i].age = 0]
                 ELSE rows

FinishRow(i, status, prepared) ==
    IF Held(i) THEN [rows EXCEPT ![i].status = status, ![i].prepared = prepared, ![i].age = 0]
               ELSE rows

\* Bug: a retry starts counting attempts anew.
RequeueAfresh(i) ==
    IF Held(i) THEN [rows EXCEPT ![i].status = "pending", ![i].age = 0, ![i].attempts = 0] ELSE rows

RequeueRow(i) ==
    IF Held(i) THEN [rows EXCEPT ![i].status = "pending", ![i].age = 0] ELSE rows

\* Too many attempts, or the bytes are not there: the row fails at once.
FileGone(w) == disk[job[w].name] = 0

GiveUp(w) ==
    /\ Busy(w) /\ job[w].stage = "claimed"
    /\ job[w].attempts > MaxAttempts \/ FileGone(w)
    /\ rows' = FinishRow(job[w].id, "failed", FALSE)
    /\ job' = [job EXCEPT ![w] = Idle]
    /\ UNCHANGED <<disk, arriving, leaving, used, artifact, sync, version, losses, handled, crossed>>

\* The handler, in a child process, reads the file ...
ReadFile(w) ==
    /\ Busy(w) /\ job[w].stage = "claimed"
    /\ job[w].attempts <= MaxAttempts /\ ~FileGone(w)
    /\ job' = [job EXCEPT ![w].stage = "read", ![w].text = disk[job[w].name]]
    /\ handled' = IF job[w].remarked THEN handled ELSE [handled EXCEPT ![job[w].id] = @ + 1]
    /\ UNCHANGED <<disk, arriving, leaving, rows, used, artifact, sync, version, losses, crossed>>

\* ... and comes back with content, with metadata only, with a failure (its
\* own, a timeout, out of memory, or the artifact's write) or with one that is
\* worth another attempt.  Content is on disk before the row says so.
Handle(w) ==
    /\ Busy(w) /\ job[w].stage = "read"
    /\ \E r \in Results :
        /\ job' = [job EXCEPT ![w].stage = "handled", ![w].result = r]
        /\ artifact' = IF r = "ready" THEN [artifact EXCEPT ![job[w].id] = job[w].text]
                                      ELSE artifact
    /\ UNCHANGED <<disk, arriving, leaving, rows, used, sync, version, losses, handled, crossed>>

\* Bug: a last attempt's wish for another goes into the row as it is.
RecordAsReported(w) ==
    /\ Busy(w) /\ job[w].stage = "handled"
    /\ LET result == job[w].result
           again == result = "retry" /\ job[w].attempts < MaxAttempts
       IN rows' = IF again THEN RequeueRow(job[w].id)
                           ELSE FinishRow(job[w].id, result, result = "ready")
    /\ job' = [job EXCEPT ![w] = Idle]
    /\ UNCHANGED <<disk, arriving, leaving, used, artifact, sync, version, losses, handled, crossed>>

\* An await later the outcome goes into the row.
Record(w) ==
    /\ Busy(w) /\ job[w].stage = "handled"
    /\ LET again == job[w].result = "retry" /\ job[w].attempts < MaxAttempts
           status == IF job[w].result = "retry" THEN "failed" ELSE job[w].result
       IN rows' = IF again THEN RequeueRow(job[w].id)
                           ELSE FinishRow(job[w].id, status, status = "ready")
    /\ job' = [job EXCEPT ![w] = Idle]
    /\ UNCHANGED <<disk, arriving, leaving, used, artifact, sync, version, losses, handled, crossed>>

\* The process is killed, or the thread loses the database: the claim stays.
Lose(w) ==
    /\ Busy(w) /\ losses < MaxLosses
    /\ losses' = losses + 1
    /\ job' = [job EXCEPT ![w] = Idle]
    /\ UNCHANGED <<disk, arriving, leaving, rows, used, artifact, sync, version, handled, crossed>>

\* Time passes.  A thread is done with a claim within the headroom: handlers
\* and engine calls are cut off well before the window ends.
Tick ==
    /\ \A w \in Workers : Busy(w) => job[w].age < Headroom
    /\ \E i \in Ids : Exists(i) /\ rows[i].status = "processing" /\ rows[i].age < Window
    /\ rows' = [i \in Ids |-> IF Exists(i) /\ rows[i].status = "processing" /\ rows[i].age < Window
                              THEN [rows[i] EXCEPT !.age = @ + 1] ELSE rows[i]]
    /\ job' = [w \in Workers |-> IF Busy(w) THEN [job[w] EXCEPT !.age = @ + 1] ELSE Idle]
    /\ UNCHANGED <<disk, arriving, leaving, used, artifact, sync, version, losses, handled, crossed>>

-----------------------------------------------------------------------------
People  == \/ \E n \in Names : SaveUpload(n) \/ RecordUpload(n) \/ DeleteBytes(n)
           \/ \E i \in Ids : DeleteFile(i)
Sandbox == \E n \in Names : SandboxWrite(n) \/ SandboxRemove(n)
Apply(s) == \E t \in sync[s].todo :
                ApplyDelete(s, t) \/ ApplyFlag(s, t) \/ ApplyCreate(s, t) \/ ApplyReingest(s, t)
Reconcile(s) == WalkPool(s) \/ ReadRows(s) \/ Apply(s)
Work(w) == \/ GiveUp(w) \/ ReadFile(w) \/ Handle(w) \/ Record(w)

Next ==
    \/ People \/ Sandbox \/ Tick
    \/ \E s \in Syncs : Reconcile(s)
    \/ \E w \in Workers : Claim(w) \/ Work(w) \/ Lose(w)

Spec == Init /\ [][Next]_vars

\* Threads poll and work and time passes: as long as one of them can, one does.
FairSpec == Spec /\ WF_vars(Tick \/ \E w \in Workers : Claim(w) \/ Work(w))

-----------------------------------------------------------------------------
(* Properties.                                                             *)

\* Text that is served as `ready` for a file whose size the row agrees on was
\* made from the bytes that are in the pool, whatever is rewritten, moved and
\* reconciled meanwhile; unless the row was claimed anew while a thread was
\* still busy with the old contents (db.py:89-95, main.py:70-157, pool-sync.ts).
Current(i) ==
    Exists(i) /\ rows[i].status = "ready" /\ rows[i].size = disk[rows[i].name]
        => artifact[i] = disk[rows[i].name]
ReadyIsCurrent == \A i \in Ids \ crossed : Current(i)

\* Two threads work on one row only if it was marked pending again under one of
\* them: a claim is not given away while its holder lives and its contents
\* stand (CLAIM_SQL's window against the caps of config.py:39-56).
OneHolder == \A i \in Ids \ crossed : Cardinality(Holders(i)) <= 1

\* However often threads die over it, a file is handed to a handler at most
\* MaxAttempts times for one set of contents (main.py:73, db.py:41).
GivesUp == \A i \in Ids : handled[i] <= MaxAttempts

\* What holds of the claims at every moment: one thread per row, a bounded
\* number of attempts, and a row and a thread's job are what they say they are.
IngestInv == TypeOK /\ OneHolder /\ GivesUp

\* Every file ends up prepared, unsupported or failed, or its row goes.
Waiting(i) == Exists(i) /\ rows[i].status \in {"pending", "processing"}
EveryFileSettles == \A i \in Ids : Waiting(i) ~> ~Waiting(i)

=============================================================================
