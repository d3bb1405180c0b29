---------------------------- MODULE BackupsProofs ----------------------------
(***************************************************************************)
(* Backup, restore and the schedule, for any number of chats, archives,    *)
(* days, uses and faults.  StoreInv relates what a dump, a restore and the *)
(* schedule have read or done so far to the tables and the tree as they    *)
(* are: for every chat that nobody touched meanwhile the two agree, every  *)
(* date anybody holds is at most today's, and pruning counts the archives  *)
(* it is not about to delete.                                              *)
(***************************************************************************)
EXTENDS Backups, FiniteSetTheorems, WellFoundedInduction, TLAPS

-----------------------------------------------------------------------------
(* The invariant *)

\* A restore under way has an archive.
SourceOK(rec) == rec.at # "none" => rec.from \in Archive /\ rec.no > 0

\* The bound on archives counts the ones under way, and what a step will write
\* was read before.
FormOK ==
  /\ InSight <= MaxArchives
  /\ tick.at = "write" => tick.cfg \in Cfgs
  /\ save.at = "write" => save.cfg \in Cfgs
  /\ \A r \in Callers : run[r].at # 0 => run[r].cfg \in Cfgs
  /\ \A x \in Restorers : SourceOK(restore[x])

\* No date is later than today, nor than the day of a tick that will be written.
Cap == IF tick.at \in {"stamp", "write"} THEN tick.day ELSE Today
StampsOK ==
  /\ tick.at \in {"stamp", "write", "start"} => tick.day <= Today
  /\ db.cfg.stamp <= Cap
  /\ \A a \in archives : a.cfg.stamp <= Cap
  /\ \A r \in Callers : run[r].cfg.stamp <= Cap
  /\ save.cfg.stamp <= Cap
  /\ \A x \in Restorers : restore[x].at # "none" => restore[x].from.cfg.stamp <= Cap

\* The stamp has the last attempt's date, unless it was put back.
OnceOK ==
  ~attempts.undone =>
     /\ ~attempts.twice
     /\ \A d \in attempts.days : d <= db.cfg.stamp
     /\ tick.at \in {"stamp", "write", "start"} => tick.day \notin attempts.days
     /\ tick.at = "start" => tick.day <= db.cfg.stamp

\* While no tree is in place there is one aside that no restore is about to
\* remove: each knows its own by a number nobody else has.
Safe(old) == \A x \in Restorers : restore[x].at = "placed" => restore[x].no # old.no
TreeOK ==
  /\ ~tree.here => \E old \in aside : Safe(old)
  /\ \A x \in Restorers : restore[x].at # "none" => restore[x].no <= uses
  /\ \A x, y \in Restorers :
       x # y /\ restore[x].at # "none" /\ restore[y].at # "none" => restore[x].no # restore[y].no

\* What dump r has read agrees with what is there, of every chat that nobody
\* touched since it began.
DumpOK(r) ==
  run[r].at # 0 => \A c \in Chats \ run[r].touched :
    /\ c \in db.chats <=> c \in run[r].chats
    /\ c \in live.uploading => c \in tree.has
    /\ c \in db.files => c \in db.chats /\ c \in tree.has
    /\ run[r].at > 1 /\ c \in run[r].files => c \in run[r].chats /\ c \in tree.has
    /\ run[r].at > 2 /\ c \in run[r].files => c \in run[r].bytes

\* So does what a restore has put in place.
RestoreOK(x) ==
  restore[x].at # "none" => \A c \in Chats \ restore[x].touched :
    /\ restore[x].at # "decoded" => /\ c \in db.chats <=> c \in restore[x].from.chats
                                    /\ c \in db.files <=> c \in restore[x].from.files
    /\ restore[x].at \in {"placed", "done"} => (c \in tree.has <=> c \in restore[x].from.bytes)

\* Enough archives newer than each stale one are not stale themselves.
Kept(n) == {b \in archives : b.no > n /\ b.no \notin tick.stale}
PruneOK ==
  /\ IsFiniteSet(archives)
  /\ \A a \in archives : a.no <= made
  /\ \A a, b \in archives : a.no = b.no => a = b
  /\ tick.at = "unlink" => tick.stale # {} /\ \A n \in tick.stale : n <= made
  /\ tick.at = "unlink" /\ ~tick.cleared => \A n \in tick.stale : Cardinality(Kept(n)) >= tick.keep

StoreInv ==
  /\ TypeOK /\ FormOK /\ StampsOK /\ OnceOK /\ TreeOK
  /\ \A r \in Callers : DumpOK(r)
  /\ \A x \in Restorers : RestoreOK(x)
  /\ PruneOK /\ ArchivesCohere

-----------------------------------------------------------------------------
(* Numbers and records *)

\* The bounds are numbers, and so is what they bound.
LEMMA Bounds ==
  /\ MaxClock \in Nat /\ MaxClock >= 2 /\ IsFiniteSet(Callers)
  /\ MaxUses \in Nat /\ MaxArchives \in Nat /\ MaxFaults \in Nat
  /\ Keeps \subseteq Nat /\ Stamps \subseteq Nat /\ 0 \in Stamps
<1>1. IsFiniteSet(Callers)
  BY BackupsAssumption, FS_AddElement DEF Callers
<1> QED BY <1>1, BackupsAssumption DEF Stamps

\* What the bounds allow.
LEMMA Within ==
  /\ MayUse => uses < MaxUses
  /\ MayFail => faults < MaxFaults
  /\ MayDump => InSight < MaxArchives
BY DEF MayUse, MayFail, MayDump

Phases  == {"none", "stamp", "write", "start", "dump", "prune", "unlink"}
Stages  == {"none", "decoded", "extract", "staged", "aside", "placed", "done"}
Lists   == SUBSET (1..MaxArchives)
AnyCfg  == Cfgs \cup {NoCfg}
Sources == Archive \cup {NoRestore.from}
Progress == 0..3
Numbers == 0..MaxUses

\* The records the steps write are records of their kind: a run of the dump, a
\* tick of the schedule, the settings, a restore.
LEMMA RunMade ==
  ASSUME NEW k \in Progress, NEW c \in Sets, NEW f \in Sets, NEW b \in Sets, NEW s \in AnyCfg, NEW t \in Sets
  PROVE  [at |-> k, chats |-> c, files |-> f, bytes |-> b, cfg |-> s, touched |-> t] \in RunRec
BY DEF RunRec, Progress, AnyCfg

LEMMA RunTouched ==
  ASSUME NEW r \in RunRec, NEW t \in Sets
  PROVE  [r EXCEPT !.touched = t] \in RunRec
BY DEF RunRec

LEMMA RunBegun ==
  ASSUME NEW r \in RunRec, NEW k \in Progress, NEW c \in Sets, NEW s \in AnyCfg, NEW t \in Sets
  PROVE  [r EXCEPT !.at = k, !.chats = c, !.cfg = s, !.touched = t] \in RunRec
BY DEF RunRec, Progress, AnyCfg

LEMMA RunListed ==
  ASSUME NEW r \in RunRec, NEW k \in Progress, NEW f \in Sets
  PROVE  [r EXCEPT !.at = k, !.files = f] \in RunRec
BY DEF RunRec, Progress

LEMMA RunWalked ==
  ASSUME NEW r \in RunRec, NEW k \in Progress, NEW b \in Sets
  PROVE  [r EXCEPT !.at = k, !.bytes = b] \in RunRec
BY DEF RunRec, Progress

LEMMA TickMade ==
  ASSUME NEW p \in Phases, NEW k \in Nat, NEW d \in Stamps, NEW c \in AnyCfg, NEW l \in Lists, NEW b \in BOOLEAN
  PROVE  [at |-> p, keep |-> k, day |-> d, cfg |-> c, stale |-> l, cleared |-> b] \in TickRec
BY DEF TickRec, Phases, Lists, AnyCfg

LEMMA TickBegun ==
  ASSUME NEW t \in TickRec, NEW p \in Phases, NEW k \in Nat, NEW d \in Stamps
  PROVE  [t EXCEPT !.at = p, !.keep = k, !.day = d] \in TickRec
BY DEF TickRec, Phases

LEMMA TickAt ==
  ASSUME NEW t \in TickRec, NEW p \in Phases
  PROVE  [t EXCEPT !.at = p] \in TickRec
BY DEF TickRec, Phases

LEMMA TickRead ==
  ASSUME NEW t \in TickRec, NEW p \in Phases, NEW c \in AnyCfg
  PROVE  [t EXCEPT !.at = p, !.cfg = c] \in TickRec
BY DEF TickRec, Phases, AnyCfg

LEMMA TickListed ==
  ASSUME NEW t \in TickRec, NEW p \in Phases, NEW l \in Lists, NEW b \in BOOLEAN
  PROVE  [t EXCEPT !.at = p, !.stale = l, !.cleared = b] \in TickRec
BY DEF TickRec, Phases, Lists

LEMMA TickShorter ==
  ASSUME NEW t \in TickRec, NEW l \in Lists
  PROVE  [t EXCEPT !.stale = l] \in TickRec
BY DEF TickRec, Lists

LEMMA TickCleared ==
  ASSUME NEW t \in TickRec, NEW b \in BOOLEAN
  PROVE  [t EXCEPT !.cleared = b] \in TickRec
BY DEF TickRec

LEMMA CfgStamped ==
  ASSUME NEW c \in Cfgs, NEW s \in Stamps
  PROVE  [c EXCEPT !.stamp = s] \in Cfgs
BY DEF Cfgs

LEMMA CfgKept ==
  ASSUME NEW c \in Cfgs, NEW k \in Keeps
  PROVE  [c EXCEPT !.keep = k] \in Cfgs
BY DEF Cfgs

LEMMA RestoreMade ==
  ASSUME NEW p \in Stages, NEW a \in Sources, NEW n \in Numbers, NEW t \in Sets
  PROVE  [at |-> p, from |-> a, no |-> n, touched |-> t] \in RestoreRec
BY DEF RestoreRec, Stages, Sources, Numbers

LEMMA RestoreAt ==
  ASSUME NEW r \in RestoreRec, NEW p \in Stages
  PROVE  [r EXCEPT !.at = p] \in RestoreRec
BY DEF RestoreRec, Stages

LEMMA RestoreTouched ==
  ASSUME NEW r \in RestoreRec, NEW t \in Sets
  PROVE  [r EXCEPT !.touched = t] \in RestoreRec
BY DEF RestoreRec

\* ... and so is their absence.
LEMMA Nothing ==
  NoRun \in RunRec /\ NoTick \in TickRec /\ NoRestore \in RestoreRec /\ NoSave \in SaveRec
<1>1. NoRun \in RunRec
  <2> DEFINE z == 0
             e == {}
             c == NoCfg
  <2>1. z \in Progress /\ c \in AnyCfg /\ e \in Sets
    BY DEF Progress, Sets, AnyCfg
  <2>2. NoRun = [at |-> z, chats |-> e, files |-> e, bytes |-> e, cfg |-> c, touched |-> e]
    BY DEF NoRun
  <2> HIDE DEF z, e, c
  <2> QED BY <2>1, <2>2, RunMade
<1>2. NoTick \in TickRec
  <2> DEFINE p == "none"
             k == 1
             z == 0
             c == NoCfg
             e == {}
             b == FALSE
  <2>1. p \in Phases /\ k \in Nat /\ z \in Stamps /\ c \in AnyCfg /\ e \in Lists /\ b \in BOOLEAN
    BY Bounds DEF Phases, AnyCfg, Lists
  <2>2. NoTick = [at |-> p, keep |-> k, day |-> z, cfg |-> c, stale |-> e, cleared |-> b]
    BY DEF NoTick
  <2> HIDE DEF p, k, z, c, e, b
  <2> QED BY <2>1, <2>2, TickMade
<1>3. NoRestore \in RestoreRec
  <2> DEFINE p == "none"
             a == NoRestore.from
             z == 0
             e == {}
  <2>1. p \in Stages /\ a \in Sources /\ z \in Numbers /\ e \in Sets
    BY Bounds DEF Stages, Sources, Numbers, Sets
  <2>2. NoRestore = [at |-> p, from |-> a, no |-> z, touched |-> e]
    BY DEF NoRestore
  <2> HIDE DEF p, a, z, e
  <2> QED BY <2>1, <2>2, RestoreMade
<1>4. NoSave \in SaveRec
  BY DEF NoSave, SaveRec
<1> QED BY <1>1, <1>2, <1>3, <1>4

\* What the absence of each says.
LEMMA NothingIs ==
  /\ NoCfg.stamp = 0 /\ NoRun.at = 0 /\ NoRun.cfg = NoCfg /\ NoTick.at = "none" /\ NoTick.cfg = NoCfg
  /\ NoSave.at = "none" /\ NoSave.cfg = NoCfg /\ NoRestore.at = "none" /\ NoRestore.no = 0
BY DEF NoCfg, NoRun, NoTick, NoSave, NoRestore

\* The date in a row of the settings.
LEMMA CfgStamp ==
  ASSUME NEW c \in AnyCfg
  PROVE  c.stamp \in Stamps
BY Bounds, NothingIs DEF AnyCfg, Cfgs

\* The fields of what the variables hold.
LEMMA Fields ==
  ASSUME TypeOK
  PROVE  /\ clock \in Nat /\ clock >= 2 /\ Today \in Stamps /\ Today \in Nat
         /\ db.chats \in Sets /\ db.files \in Sets /\ db.cfg \in Cfgs /\ db.cfg.stamp \in Stamps
         /\ tree.here \in BOOLEAN /\ tree.has \in Sets
         /\ live.opened \in Sets /\ live.uploading \in Sets /\ live.wiping \in Sets
         /\ \A r \in Callers : /\ run[r] \in RunRec /\ run[r].at \in Progress
                               /\ run[r].chats \in Sets /\ run[r].files \in Sets /\ run[r].bytes \in Sets
                               /\ run[r].cfg \in AnyCfg /\ run[r].touched \in Sets
         /\ tick \in TickRec /\ tick.at \in Phases /\ tick.keep \in Nat /\ tick.day \in Stamps
         /\ tick.cfg \in AnyCfg /\ tick.stale \in Lists /\ tick.cleared \in BOOLEAN
         /\ save \in SaveRec /\ save.at \in {"none", "write"} /\ save.cfg \in AnyCfg
         /\ \A x \in Restorers :
              /\ restore[x] \in RestoreRec /\ restore[x].at \in Stages /\ restore[x].from \in Sources
              /\ restore[x].no \in Numbers /\ restore[x].touched \in Sets
         /\ attempts.days \in SUBSET Stamps /\ attempts.undone \in BOOLEAN /\ attempts.twice \in BOOLEAN
         /\ made \in Nat /\ uses \in Nat /\ faults \in Nat
<1>1. clock \in Nat /\ clock >= 2 /\ Today \in Stamps /\ Today \in Nat
  <2>1. clock \in 2..MaxClock
    BY DEF TypeOK
  <2> QED BY <2>1, Bounds DEF Today, Stamps
<1>2. db.chats \in Sets /\ db.files \in Sets /\ db.cfg \in Cfgs /\ db.cfg.stamp \in Stamps
  BY DEF TypeOK, Cfgs
<1>3. /\ tree.here \in BOOLEAN /\ tree.has \in Sets
      /\ live.opened \in Sets /\ live.uploading \in Sets /\ live.wiping \in Sets
  BY DEF TypeOK
<1>4. ASSUME NEW r \in Callers
      PROVE  /\ run[r] \in RunRec /\ run[r].at \in Progress
             /\ run[r].chats \in Sets /\ run[r].files \in Sets /\ run[r].bytes \in Sets
             /\ run[r].cfg \in AnyCfg /\ run[r].touched \in Sets
  <2>1. run[r] \in RunRec
    BY DEF TypeOK
  <2> QED BY <2>1 DEF RunRec, Progress, AnyCfg
<1>5. /\ tick \in TickRec /\ tick.at \in Phases /\ tick.keep \in Nat /\ tick.day \in Stamps
      /\ tick.cfg \in AnyCfg /\ tick.stale \in Lists /\ tick.cleared \in BOOLEAN
  BY DEF TypeOK, TickRec, Phases, AnyCfg, Lists
<1>6. /\ save \in SaveRec /\ save.at \in {"none", "write"} /\ save.cfg \in AnyCfg
  BY DEF TypeOK, SaveRec, AnyCfg
<1>8. ASSUME NEW x \in Restorers
      PROVE  /\ restore[x] \in RestoreRec /\ restore[x].at \in Stages /\ restore[x].from \in Sources
             /\ restore[x].no \in Numbers /\ restore[x].touched \in Sets
  <2>1. restore[x] \in RestoreRec
    BY DEF TypeOK
  <2> QED BY <2>1 DEF RestoreRec, Sources, Stages, Numbers
<1>7. /\ attempts.days \in SUBSET Stamps /\ attempts.undone \in BOOLEAN /\ attempts.twice \in BOOLEAN
      /\ made \in Nat /\ uses \in Nat /\ faults \in Nat
  BY Bounds DEF TypeOK
<1> QED BY <1>1, <1>2, <1>3, <1>4, <1>5, <1>6, <1>7, <1>8

-----------------------------------------------------------------------------
(* Who changes what *)

PortalStep(c) == \/ OpenChat(c) \/ SaveBytes(c) \/ PoolLists(c) \/ RecordFile(c) \/ DeleteChat(c)
                 \/ DeleteFile(c) \/ WipeBytes(c) \/ SandboxRemoves(c) \/ PoolDrops(c)
DumpStep(r)   == DumpFiles(r) \/ Walk(r) \/ Finish(r) \/ FailDump(r)
ScheduleStep  == \/ TickStarts \/ ReadStamp \/ WriteStamp \/ FailStamp \/ StartAuto
                 \/ ListStale \/ Unlink
SwapStep(x)   == Extract(x) \/ SetAside(x) \/ PutInPlace(x) \/ RemoveOld(x)

\* The steps, by what they change.
LEMMA NextSteps ==
  [Next]_vars =>
    \/ UNCHANGED vars \/ Clock \/ Restart
    \/ \E c \in Chats : PortalStep(c)
    \/ \E r \in Manuals : CreateBackupNow(r)
    \/ \E r \in Callers : DumpStep(r)
    \/ \E a \in archives : DeleteBackup(a)
    \/ \E x \in Restorers, a \in archives : Decode(x, a)
    \/ ScheduleStep \/ SaveReads \/ SaveWrites
    \/ \E x \in Restorers : Repopulate(x) \/ SwapStep(x) \/ FailRestore(x)
BY DEF Next, PortalStep, DumpStep, ScheduleStep, SwapStep

\* Which steps can change each variable.
LEMMA Frames ==
  ASSUME [Next]_vars
  PROVE  /\ db' = db \/ (\E c \in Chats : PortalStep(c)) \/ WriteStamp \/ SaveWrites
              \/ (\E x \in Restorers : Repopulate(x))
         /\ tree' = tree \/ (\E c \in Chats : PortalStep(c)) \/ (\E x \in Restorers : SwapStep(x))
         /\ live' = live \/ (\E c \in Chats : PortalStep(c)) \/ Restart
         /\ aside' = aside \/ (\E x \in Restorers : SwapStep(x))
         /\ \/ archives' = archives \/ (\E r \in Callers : Finish(r))
            \/ (\E a \in archives : DeleteBackup(a)) \/ Unlink
         /\ made' = made \/ \E r \in Callers : Finish(r)
         /\ \/ tick' = tick \/ (\E r \in Callers : Finish(r) \/ FailDump(r))
            \/ (\E a \in archives : DeleteBackup(a)) \/ ScheduleStep \/ Restart
         /\ save' = save \/ SaveReads \/ SaveWrites \/ Restart
         /\ \/ restore' = restore \/ (\E c \in Chats : PortalStep(c))
            \/ (\E x \in Restorers, a \in archives : Decode(x, a))
            \/ (\E x \in Restorers : Repopulate(x) \/ SwapStep(x) \/ FailRestore(x)) \/ Restart
         /\ attempts' = attempts \/ StartAuto \/ SaveWrites \/ (\E x \in Restorers : Repopulate(x))
<1> DEFINE Goal ==
         /\ db' = db \/ (\E c \in Chats : PortalStep(c)) \/ WriteStamp \/ SaveWrites
              \/ (\E x \in Restorers : Repopulate(x))
         /\ tree' = tree \/ (\E c \in Chats : PortalStep(c)) \/ (\E x \in Restorers : SwapStep(x))
         /\ live' = live \/ (\E c \in Chats : PortalStep(c)) \/ Restart
         /\ aside' = aside \/ (\E x \in Restorers : SwapStep(x))
         /\ \/ archives' = archives \/ (\E r \in Callers : Finish(r))
            \/ (\E a \in archives : DeleteBackup(a)) \/ Unlink
         /\ made' = made \/ \E r \in Callers : Finish(r)
         /\ \/ tick' = tick \/ (\E r \in Callers : Finish(r) \/ FailDump(r))
            \/ (\E a \in archives : DeleteBackup(a)) \/ ScheduleStep \/ Restart
         /\ save' = save \/ SaveReads \/ SaveWrites \/ Restart
         /\ \/ restore' = restore \/ (\E c \in Chats : PortalStep(c))
            \/ (\E x \in Restorers, a \in archives : Decode(x, a))
            \/ (\E x \in Restorers : Repopulate(x) \/ SwapStep(x) \/ FailRestore(x)) \/ Restart
         /\ attempts' = attempts \/ StartAuto \/ SaveWrites \/ (\E x \in Restorers : Repopulate(x))
<1>1. ASSUME UNCHANGED vars \/ Clock \/ Restart PROVE Goal
  BY <1>1 DEF vars, Clock, portal, Restart
<1>2. ASSUME NEW c \in Chats, PortalStep(c) PROVE Goal
  <2>1. /\ aside' = aside /\ archives' = archives /\ made' = made /\ tick' = tick /\ save' = save
        /\ attempts' = attempts
    BY <1>2 DEF PortalStep, OpenChat, SaveBytes, PoolLists, RecordFile, DeleteChat, DeleteFile,
                    WipeBytes, SandboxRemoves, PoolDrops, Used
  <2> QED BY <1>2, <2>1
<1>3. ASSUME SaveReads \/ SaveWrites \/ \E r \in Manuals : CreateBackupNow(r) PROVE Goal
  BY <1>3 DEF CreateBackupNow, SaveReads, SaveWrites, portal
<1>4. ASSUME NEW r \in Callers, DumpStep(r) PROVE Goal
  BY <1>4 DEF DumpStep, DumpFiles, Walk, Finish, FailDump, portal
<1>5. ASSUME NEW a \in archives, DeleteBackup(a) \/ \E x \in Restorers : Decode(x, a) PROVE Goal
  BY <1>5 DEF DeleteBackup, Decode
<1>6. ASSUME ScheduleStep PROVE Goal
  BY <1>6 DEF ScheduleStep, TickStarts, ReadStamp, WriteStamp, FailStamp, StartAuto,
              ListStale, Unlink, portal
<1>7. ASSUME NEW x \in Restorers, Repopulate(x) \/ FailRestore(x) PROVE Goal
  BY <1>7 DEF Repopulate, FailRestore, portal
<1>8. ASSUME NEW x \in Restorers, SwapStep(x) PROVE Goal
  <2>1. /\ db' = db /\ live' = live /\ archives' = archives /\ made' = made /\ tick' = tick
        /\ save' = save /\ attempts' = attempts
    BY <1>8 DEF SwapStep, Extract, SetAside, PutInPlace, RemoveOld, Elsewhere
  <2> QED BY <1>8, <2>1
<1> HIDE DEF Goal
<1>9. Goal
  BY <1>1, <1>2, <1>3, <1>4, <1>5, <1>6, <1>7, <1>8, NextSteps
<1> QED BY <1>9 DEF Goal

\* The rows, the bytes and the handlers of the portal.
LEMMA PortalTyped ==
  ASSUME TypeOK, FormOK, [Next]_vars
  PROVE  /\ db' \in [chats : Sets, files : Sets, cfg : Cfgs]
         /\ tree' \in [here : BOOLEAN, has : Sets]
         /\ live' \in [opened : Sets, uploading : Sets, wiping : Sets]
<1>0. /\ db \in [chats : Sets, files : Sets, cfg : Cfgs]
      /\ tree \in [here : BOOLEAN, has : Sets]
      /\ live \in [opened : Sets, uploading : Sets, wiping : Sets]
  BY DEF TypeOK
<1>1. /\ \A c \in Chats, S \in Sets : S \cup {c} \in Sets /\ S \ {c} \in Sets
      /\ {} \in Sets
  BY DEF Sets
<1>2. ASSUME NEW c \in Chats, PortalStep(c)
      PROVE  /\ db' \in [chats : Sets, files : Sets, cfg : Cfgs]
             /\ tree' \in [here : BOOLEAN, has : Sets]
             /\ live' \in [opened : Sets, uploading : Sets, wiping : Sets]
  <2>1. CASE OpenChat(c)
    BY <1>0, <1>1, <2>1 DEF OpenChat
  <2>2. CASE SaveBytes(c)
    BY <1>0, <1>1, <2>2 DEF SaveBytes
  <2>3. CASE RecordFile(c)
    BY <1>0, <1>1, <2>3 DEF RecordFile
  <2>4. CASE DeleteChat(c)
    BY <1>0, <1>1, <2>4 DEF DeleteChat
  <2>5. CASE WipeBytes(c)
    BY <1>0, <1>1, <2>5 DEF WipeBytes
  <2>6. CASE PoolLists(c)
    BY <1>0, <1>1, <2>6 DEF PoolLists
  <2>7. CASE DeleteFile(c)
    BY <1>0, <1>1, <2>7 DEF DeleteFile
  <2>8. CASE SandboxRemoves(c)
    BY <1>0, <1>1, <2>8 DEF SandboxRemoves
  <2>9. CASE PoolDrops(c)
    BY <1>0, <1>1, <2>9 DEF PoolDrops
  <2> QED BY <1>2, <2>1, <2>2, <2>3, <2>4, <2>5, <2>6, <2>7, <2>8, <2>9 DEF PortalStep
<1>3. ASSUME WriteStamp PROVE db' \in [chats : Sets, files : Sets, cfg : Cfgs]
  <2>1. tick.cfg \in Cfgs /\ tick.day \in Stamps
    BY <1>3, Fields DEF WriteStamp, FormOK
  <2>2. [tick.cfg EXCEPT !.stamp = tick.day] \in Cfgs
    BY <2>1, CfgStamped
  <2> QED BY <1>0, <1>3, <2>2 DEF WriteStamp
<1>4. ASSUME SaveWrites PROVE db' \in [chats : Sets, files : Sets, cfg : Cfgs]
  <2>1. PICK keep \in Keeps : db' = [db EXCEPT !.cfg = [save.cfg EXCEPT !.keep = keep]]
    BY <1>4 DEF SaveWrites
  <2>2. save.cfg \in Cfgs
    BY <1>4 DEF SaveWrites, FormOK
  <2>3. [save.cfg EXCEPT !.keep = keep] \in Cfgs
    BY <2>2, CfgKept
  <2> QED BY <1>0, <2>1, <2>3
<1>5. ASSUME NEW x \in Restorers, Repopulate(x) PROVE db' \in [chats : Sets, files : Sets, cfg : Cfgs]
  <2>1. restore[x].from \in Archive
    BY <1>5 DEF Repopulate, FormOK, SourceOK
  <2> DEFINE a == restore[x].from
  <2>2. a.chats \in Sets /\ a.files \in Sets /\ a.cfg \in Cfgs
    BY <2>1 DEF Archive
  <2>3. db' = db \/ db' = [chats |-> a.chats, files |-> a.files, cfg |-> a.cfg]
    BY <1>5 DEF Repopulate
  <2> HIDE DEF a
  <2> QED BY <1>0, <2>2, <2>3
<1>6. ASSUME NEW x \in Restorers, SwapStep(x) PROVE tree' \in [here : BOOLEAN, has : Sets]
  <2>1. CASE Extract(x)
    BY <1>0, <2>1 DEF Extract
  <2>2. CASE SetAside(x)
    BY <1>1, <2>2 DEF SetAside
  <2>3. CASE PutInPlace(x)
    <3>1. restore[x].from \in Archive
      BY <2>3 DEF PutInPlace, FormOK, SourceOK
    <3>2. restore[x].from.bytes \in Sets
      BY <3>1 DEF Archive
    <3>3. tree' = tree \/ tree' = [here |-> TRUE, has |-> restore[x].from.bytes]
      BY <2>3 DEF PutInPlace
    <3> DEFINE b == restore[x].from.bytes
    <3>4. b \in Sets /\ (tree' = tree \/ tree' = [here |-> TRUE, has |-> b])
      BY <3>2, <3>3
    <3> HIDE DEF b
    <3>5. [here |-> TRUE, has |-> b] \in [here : BOOLEAN, has : Sets]
      BY <3>4
    <3>6. CASE tree' = tree
      BY <1>0, <3>6
    <3>7. CASE tree' = [here |-> TRUE, has |-> b]
      BY <3>5, <3>7
    <3> QED BY <3>4, <3>6, <3>7
  <2>4. CASE RemoveOld(x)
    BY <1>0, <2>4 DEF RemoveOld
  <2> QED BY <1>6, <2>1, <2>2, <2>3, <2>4 DEF SwapStep
<1>7. ASSUME Restart PROVE live' \in [opened : Sets, uploading : Sets, wiping : Sets]
  BY <1>0, <1>1, <1>7 DEF Restart, Closed
<1> QED BY <1>0, <1>2, <1>3, <1>4, <1>5, <1>6, <1>7, Frames

\* A dump that is disturbed goes on.
LEMMA Disturbed ==
  ASSUME TypeOK, NEW X \in Sets, Disturb(X)
  PROVE  /\ run' \in [Callers -> RunRec]
         /\ \A r \in Callers :
              /\ run'[r].at = run[r].at /\ run'[r].cfg = run[r].cfg
              /\ run'[r].chats = run[r].chats /\ run'[r].files = run[r].files
              /\ run'[r].bytes = run[r].bytes
              /\ run[r].at # 0 => run'[r].touched = run[r].touched \cup X
<1>0. run \in [Callers -> RunRec]
  BY DEF TypeOK
<1>1. run' = [r \in Callers |-> IF run[r].at = 0 THEN run[r]
                                ELSE [run[r] EXCEPT !.touched = run[r].touched \cup X]]
  BY DEF Disturb
<1>2. ASSUME NEW r \in Callers
      PROVE  /\ run'[r] \in RunRec
             /\ run'[r].at = run[r].at /\ run'[r].cfg = run[r].cfg
             /\ run'[r].chats = run[r].chats /\ run'[r].files = run[r].files
             /\ run'[r].bytes = run[r].bytes
             /\ run[r].at # 0 => run'[r].touched = run[r].touched \cup X
  <2>1. run[r] \in RunRec /\ run[r].touched \in Sets
    BY <1>0, Fields
  <2>2. run[r].touched \cup X \in Sets
    BY <2>1 DEF Sets
  <2> DEFINE t == run[r].touched \cup X
  <2>3. run'[r] = IF run[r].at = 0 THEN run[r] ELSE [run[r] EXCEPT !.touched = t]
    BY <1>1
  <2> HIDE DEF t
  <2>4. [run[r] EXCEPT !.touched = t] \in RunRec
    BY <2>1, <2>2, RunTouched DEF t
  <2>5. run[r] \in [at : 0..3, chats : Sets, files : Sets, bytes : Sets, cfg : AnyCfg, touched : Sets]
    BY <2>1 DEF RunRec, AnyCfg
  <2> QED BY <2>1, <2>3, <2>4, <2>5 DEF t
<1> QED BY <1>1, <1>2

\* What a dump begins with, and what it reads.
BegunRun == [NoRun EXCEPT !.at = 1, !.chats = db.chats, !.cfg = db.cfg, !.touched = Broken]

\* A dump begins by reading the chats and the settings.
LEMMA BegunIs ==
  ASSUME TypeOK
  PROVE  /\ BegunRun \in RunRec /\ BegunRun.at = 1 /\ BegunRun.chats = db.chats
         /\ BegunRun.cfg = db.cfg /\ BegunRun.touched = Broken
<1>1. Broken \in Sets
  BY Fields DEF Broken, Sets
<1> DEFINE k == 1
           s == db.cfg
           u == db.chats
           t == Broken
<1>2. k \in Progress /\ s \in AnyCfg /\ u \in Sets /\ t \in Sets /\ NoRun \in RunRec
  BY <1>1, Fields, Nothing DEF Progress, AnyCfg
<1>3. BegunRun = [NoRun EXCEPT !.at = k, !.chats = u, !.cfg = s, !.touched = t]
  BY DEF BegunRun
<1>4. BegunRun.at = 1 /\ BegunRun.chats = db.chats /\ BegunRun.cfg = db.cfg
      /\ BegunRun.touched = Broken
  BY DEF BegunRun, NoRun
<1> HIDE DEF k, s, u, t
<1>5. BegunRun \in RunRec
  BY <1>2, <1>3, RunBegun
<1> QED BY <1>4, <1>5

\* The dump reads the files table before it walks the files.
LEMMA OrderIs == DOMAIN Order = {1, 2} /\ Order[1] = "files" /\ Order[2] = "walk"
                 /\ Cardinality(DOMAIN Order) = 2
<1>1. DOMAIN Order = {1, 2} /\ Order[1] = "files" /\ Order[2] = "walk"
  BY DEF Order
<1>2. Cardinality(1..2) = 2
  <2>1. 1 \in Int /\ 2 \in Int
    OBVIOUS
  <2>2. Cardinality(1..2) = IF 1 > 2 THEN 0 ELSE 2 - 1 + 1
    BY <2>1, FS_Interval
  <2> QED BY <2>2
<1>3. {1, 2} = 1..2
  OBVIOUS
<1> QED BY <1>1, <1>2, <1>3

\* The two later reads of a dump.
LEMMA DumpsRead ==
  ASSUME TypeOK, NEW r \in Callers, DumpFiles(r) \/ Walk(r)
  PROVE  /\ run' \in [Callers -> RunRec] /\ \A q \in Callers \ {r} : run'[q] = run[q]
         /\ run'[r].at = run[r].at + 1 /\ run'[r].at \in {2, 3}
         /\ run'[r].chats = run[r].chats /\ run'[r].cfg = run[r].cfg
         /\ run'[r].touched = run[r].touched
         /\ DumpFiles(r) => run[r].at = 1 /\ run'[r].files = db.files
         /\ Walk(r) => /\ run[r].at = 2 /\ run'[r].files = run[r].files
                       /\ run'[r].bytes = tree.has
<1>0. run \in [Callers -> RunRec] /\ db.files \in Sets /\ tree.has \in Sets
  BY Fields DEF TypeOK
<1>r. run[r] \in [at : 0..3, chats : Sets, files : Sets, bytes : Sets, cfg : AnyCfg, touched : Sets]
  BY <1>0 DEF RunRec, AnyCfg
<1>1. CASE DumpFiles(r)
  <2> DEFINE k == run[r].at + 1
             y == [run[r] EXCEPT !.at = k, !.files = db.files]
  <2>1. run' = [run EXCEPT ![r] = y] /\ run[r].at = 1
    BY <1>0, <1>1, OrderIs DEF DumpFiles, At
  <2>2. k \in Progress
    BY <2>1 DEF Progress
  <2>3. /\ y.at = k /\ y.chats = run[r].chats /\ y.cfg = run[r].cfg
        /\ y.touched = run[r].touched /\ y.files = db.files
    BY <1>r
  <2>4. k = 2 /\ ~Walk(r)
    BY <2>1, OrderIs DEF Walk, At
  <2> HIDE DEF k
  <2>5. y \in RunRec
    BY <1>0, <2>2, RunListed
  <2> HIDE DEF y
  <2> QED BY <1>0, <2>1, <2>3, <2>4, <2>5 DEF k
<1>2. CASE Walk(r)
  <2> DEFINE k == run[r].at + 1
             y == [run[r] EXCEPT !.at = k, !.bytes = tree.has]
  <2>1. run' = [run EXCEPT ![r] = y] /\ run[r].at = 2
    BY <1>0, <1>2, OrderIs DEF Walk, At
  <2>2. k \in Progress
    BY <2>1 DEF Progress
  <2>3. /\ y.at = k /\ y.chats = run[r].chats /\ y.cfg = run[r].cfg
        /\ y.touched = run[r].touched /\ y.files = run[r].files /\ y.bytes = tree.has
    BY <1>r
  <2>4. k = 3 /\ ~DumpFiles(r)
    BY <2>1, OrderIs DEF DumpFiles, At
  <2> HIDE DEF k
  <2>5. y \in RunRec
    BY <1>0, <2>2, RunWalked
  <2> HIDE DEF y
  <2> QED BY <1>0, <2>1, <2>3, <2>4, <2>5 DEF k
<1> QED BY <1>1, <1>2

\* The types, a variable at a time.
LEMMA RunTyped ==
  ASSUME TypeOK, [Next]_vars
  PROVE  run' \in [Callers -> RunRec]
<1>0. run \in [Callers -> RunRec] /\ NoRun \in RunRec /\ BegunRun \in RunRec
  BY Nothing, BegunIs DEF TypeOK
<1>s. Chats \in Sets /\ \A c \in Chats : {c} \in Sets
  BY DEF Sets
<1>1. CASE run' = run
  BY <1>0, <1>1
<1>2. ASSUME NEW X \in Sets, Disturb(X) PROVE run' \in [Callers -> RunRec]
  BY <1>2, Disturbed
<1>3. ASSUME NEW c \in Chats, PortalStep(c) PROVE run' \in [Callers -> RunRec]
  <2>1. run' = run \/ Disturb({c})
    BY <1>3 DEF PortalStep, OpenChat, SaveBytes, PoolLists, RecordFile, DeleteChat, DeleteFile,
                    WipeBytes, SandboxRemoves, PoolDrops
  <2> QED BY <1>0, <1>2, <1>s, <2>1
<1>4. ASSUME NEW x \in Restorers, Repopulate(x) \/ SwapStep(x) PROVE run' \in [Callers -> RunRec]
  <2>1. run' = run \/ Disturb(Chats)
    BY <1>4 DEF Repopulate, SwapStep, Extract, SetAside, PutInPlace, RemoveOld, Elsewhere
  <2> QED BY <1>0, <1>2, <1>s, <2>1
<1>5. ASSUME StartAuto \/ \E r \in Manuals : CreateBackupNow(r) PROVE run' \in [Callers -> RunRec]
  <2>1. \E r \in Callers : run' = [run EXCEPT ![r] = BegunRun]
    BY <1>5 DEF CreateBackupNow, StartAuto, BeginDump, Callers, BegunRun
  <2> HIDE DEF BegunRun
  <2> QED BY <1>0, <2>1
<1>6. ASSUME NEW r \in Callers, DumpStep(r) PROVE run' \in [Callers -> RunRec]
  <2>1. CASE DumpFiles(r) \/ Walk(r)
    BY <2>1, DumpsRead
  <2>2. CASE Finish(r) \/ FailDump(r)
    BY <1>0, <2>2 DEF Finish, FailDump, Returned
  <2> QED BY <1>6, <2>1, <2>2 DEF DumpStep
<1>7. ASSUME Restart PROVE run' \in [Callers -> RunRec]
  BY <1>0, <1>7 DEF Restart
<1>8. ASSUME \/ UNCHANGED vars \/ Clock \/ SaveReads \/ SaveWrites
             \/ \E x \in Restorers : FailRestore(x)
             \/ \E a \in archives : DeleteBackup(a) \/ \E x \in Restorers : Decode(x, a)
      PROVE  run' = run
  BY <1>8 DEF vars, Clock, SaveReads, SaveWrites, FailRestore, DeleteBackup, Decode
<1>9. ASSUME ScheduleStep, ~StartAuto PROVE run' = run
  BY <1>9 DEF ScheduleStep, TickStarts, ReadStamp, WriteStamp, FailStamp, ListStale, Unlink
<1> QED BY <1>1, <1>3, <1>4, <1>5, <1>6, <1>7, <1>8, <1>9, NextSteps

\* How the settings a dump has may change.
CfgMoves(r) == \/ run'[r].at = run[r].at /\ run'[r].cfg = run[r].cfg
               \/ run[r].at # 0 /\ run'[r].cfg = run[r].cfg
               \/ run'[r].at = 0 /\ run'[r].cfg = NoCfg
               \/ run'[r].cfg = db.cfg

\* A dump has the settings it began with.
LEMMA RunCfgStep ==
  ASSUME TypeOK, [Next]_vars, NEW r \in Callers
  PROVE  CfgMoves(r)
<1>0. run \in [Callers -> RunRec] /\ NoRun.at = 0 /\ NoRun.cfg = NoCfg /\ BegunRun.cfg = db.cfg
  BY NothingIs, BegunIs DEF TypeOK
<1>c. Chats \in Sets /\ \A c \in Chats : {c} \in Sets
  BY DEF Sets
<1>1. CASE run' = run
  BY <1>1 DEF CfgMoves
<1>2. ASSUME NEW X \in Sets, Disturb(X) PROVE CfgMoves(r)
  BY <1>2, Disturbed DEF CfgMoves
<1>3. ASSUME NEW c \in Chats, PortalStep(c) PROVE CfgMoves(r)
  <2>1. run' = run \/ Disturb({c})
    BY <1>3 DEF PortalStep, OpenChat, SaveBytes, PoolLists, RecordFile, DeleteChat, DeleteFile,
                    WipeBytes, SandboxRemoves, PoolDrops
  <2> QED BY <1>1, <1>2, <1>c, <2>1
<1>4. ASSUME NEW x \in Restorers, Repopulate(x) \/ SwapStep(x) PROVE CfgMoves(r)
  <2>1. run' = run \/ Disturb(Chats)
    BY <1>4 DEF Repopulate, SwapStep, Extract, SetAside, PutInPlace, RemoveOld, Elsewhere
  <2> QED BY <1>1, <1>2, <1>c, <2>1
<1>5. ASSUME StartAuto \/ \E q \in Manuals : CreateBackupNow(q) PROVE CfgMoves(r)
  <2>1. \E q \in Callers : run' = [run EXCEPT ![q] = BegunRun]
    BY <1>5 DEF CreateBackupNow, StartAuto, BeginDump, Callers, BegunRun
  <2> HIDE DEF BegunRun
  <2> QED BY <1>0, <2>1 DEF CfgMoves
<1>6. ASSUME NEW q \in Callers, DumpStep(q) PROVE CfgMoves(r)
  <2>1. CASE DumpFiles(q) \/ Walk(q)
    <3>1. CASE q = r
      <4>1. run[r].at # 0 /\ run'[r].cfg = run[r].cfg
        BY <2>1, <3>1, DumpsRead
      <4> QED BY <4>1 DEF CfgMoves
    <3>2. CASE q # r
      <4>1. run'[r] = run[r]
        BY <2>1, <3>2, DumpsRead
      <4> QED BY <4>1 DEF CfgMoves
    <3> QED BY <3>1, <3>2
  <2>2. CASE Finish(q) \/ FailDump(q)
    BY <1>0, <2>2 DEF Finish, FailDump, Returned, CfgMoves
  <2> QED BY <1>6, <2>1, <2>2 DEF DumpStep
<1>7. ASSUME Restart PROVE CfgMoves(r)
  BY <1>0, <1>7 DEF Restart, CfgMoves
<1>8. ASSUME \/ UNCHANGED vars \/ Clock \/ SaveReads \/ SaveWrites
             \/ \E x \in Restorers : FailRestore(x)
             \/ \E a \in archives : DeleteBackup(a) \/ \E x \in Restorers : Decode(x, a)
      PROVE  run' = run
  BY <1>8 DEF vars, Clock, SaveReads, SaveWrites, FailRestore, DeleteBackup, Decode
<1>9. ASSUME ScheduleStep, ~StartAuto PROVE run' = run
  BY <1>9 DEF ScheduleStep, TickStarts, ReadStamp, WriteStamp, FailStamp, ListStale, Unlink
<1> QED BY <1>1, <1>3, <1>4, <1>5, <1>6, <1>7, <1>8, <1>9, NextSteps

\* The tick stays of its type.
LEMMA TickTyped ==
  ASSUME TypeOK, FormOK, PruneOK, [Next]_vars
  PROVE  tick' \in TickRec
<1>0. /\ tick \in TickRec /\ NoTick \in TickRec /\ tick.stale \in Lists
      /\ {"none", "stamp", "write", "start", "dump", "prune", "unlink"} = Phases
  BY Fields, Nothing DEF Phases
<1>1. ASSUME NEW p \in Phases, tick' = [tick EXCEPT !.at = p] PROVE tick' \in TickRec
  BY <1>0, <1>1, TickAt
<1>2. ASSUME NEW r \in Callers, Finish(r) \/ FailDump(r) PROVE tick' \in TickRec
  <2>1. tick' = tick \/ tick' = NoTick \/ tick' = [tick EXCEPT !.at = "prune"]
    BY <1>2 DEF Finish, FailDump, Returned
  <2> QED BY <1>0, <1>1, <2>1
<1>3. ASSUME NEW a \in archives, DeleteBackup(a) PROVE tick' \in TickRec
  BY <1>0, <1>3, TickCleared DEF DeleteBackup
<1>4. ASSUME TickStarts PROVE tick' \in TickRec
  <2> DEFINE p == "stamp"
             k == db.cfg.keep
             d == Today
  <2>1. p \in Phases /\ k \in Nat /\ d \in Stamps
    BY <1>0, Fields, Bounds DEF Cfgs
  <2>2. tick' = [NoTick EXCEPT !.at = p, !.keep = k, !.day = d]
    BY <1>4 DEF TickStarts
  <2> HIDE DEF p, k, d
  <2> QED BY <1>0, <2>1, <2>2, TickBegun
<1>5. ASSUME ReadStamp PROVE tick' \in TickRec
  <2>1. db.cfg \in AnyCfg
    BY Fields DEF AnyCfg
  <2> QED BY <1>0, <1>5, <2>1, TickRead DEF ReadStamp
<1>6. ASSUME WriteStamp \/ FailStamp \/ StartAuto PROVE tick' \in TickRec
  BY <1>0, <1>1, <1>6 DEF WriteStamp, FailStamp, StartAuto
<1>7. ASSUME ListStale PROVE tick' \in TickRec
  <2> DEFINE l == {a.no : a \in archives \ Newest(tick.keep)}
  <2>1. l \in Lists
    BY DEF TypeOK, Archive, Lists
  <2>2. tick' = NoTick \/ tick' = [tick EXCEPT !.at = "unlink", !.stale = l, !.cleared = FALSE]
    BY <1>7 DEF ListStale
  <2> HIDE DEF l
  <2> QED BY <1>0, <2>1, <2>2, TickListed
<1>8. ASSUME Unlink PROVE tick' \in TickRec
  <2> DEFINE l == tick.stale \ {Max(tick.stale)}
  <2>1. l \in Lists
    BY <1>0 DEF Lists
  <2>2. tick' = NoTick \/ tick' = [tick EXCEPT !.stale = l]
    BY <1>8 DEF Unlink
  <2> HIDE DEF l
  <2> QED BY <1>0, <2>1, <2>2, TickShorter
<1>9. ASSUME Restart PROVE tick' \in TickRec
  BY <1>0, <1>9 DEF Restart
<1> QED BY <1>0, <1>2, <1>3, <1>4, <1>5, <1>6, <1>7, <1>8, <1>9, Frames DEF ScheduleStep

\* So does the save,
LEMMA SaveTyped ==
  ASSUME TypeOK, [Next]_vars
  PROVE  save' \in SaveRec
<1>0. save \in SaveRec /\ NoSave \in SaveRec
  BY Fields, Nothing
<1>1. ASSUME SaveReads PROVE save' \in SaveRec
  <2>1. db.cfg \in Cfgs
    BY Fields
  <2> QED BY <1>1, <2>1 DEF SaveReads, SaveRec
<1> QED BY <1>0, <1>1, Frames DEF SaveWrites, Restart

\* A restore that somebody touches a chat of goes on.
LEMMA TouchedIs ==
  ASSUME TypeOK, NEW x \in Restorers, NEW X \in Sets
  PROVE  LET rec == Touched(x, X)
         IN /\ rec \in RestoreRec /\ rec.at = restore[x].at /\ rec.from = restore[x].from
            /\ rec.no = restore[x].no
            /\ restore[x].at # "none" => rec.touched = restore[x].touched \cup X
<1> DEFINE t == restore[x].touched \cup X
<1>1. restore[x] \in RestoreRec /\ t \in Sets
  BY Fields DEF Sets
<1>2. Touched(x, X) = IF restore[x].at = "none" THEN restore[x] ELSE [restore[x] EXCEPT !.touched = t]
  BY DEF Touched
<1> HIDE DEF t
<1>3. [restore[x] EXCEPT !.touched = t] \in RestoreRec
  BY <1>1, RestoreTouched
<1>4. restore[x] \in [at : Stages, from : Sources, no : Numbers, touched : Sets]
  BY <1>1 DEF RestoreRec, Stages, Sources, Numbers
<1> QED BY <1>1, <1>2, <1>3, <1>4 DEF t

\* A restore that goes on is everybody else's concern.
LEMMA Proceeded ==
  ASSUME TypeOK, NEW x \in Restorers, NEW rec \in RestoreRec, Proceed(x, rec)
  PROVE  /\ restore' \in [Restorers -> RestoreRec] /\ restore'[x] = rec
         /\ \A y \in Restorers \ {x} : restore'[y] = Touched(y, Chats)
<1>1. \A y \in Restorers : Touched(y, Chats) \in RestoreRec
  BY TouchedIs DEF Sets
<1>2. restore' = [y \in Restorers |-> IF y = x THEN rec ELSE Touched(y, Chats)]
  BY DEF Proceed
<1> QED BY <1>1, <1>2

\* The stages of a restore, and the ways it is given up.
LEMMA NowIs ==
  ASSUME TypeOK, NEW x \in Restorers, NEW p \in Stages
  PROVE  /\ Now(x, p) \in RestoreRec /\ Now(x, p).at = p /\ Now(x, p).from = restore[x].from
         /\ Now(x, p).no = restore[x].no /\ Now(x, p).touched = restore[x].touched
<1>1. restore[x] \in RestoreRec
  BY Fields
<1>2. restore[x] \in [at : Stages, from : Sources, no : Numbers, touched : Sets]
  BY <1>1 DEF RestoreRec, Stages, Sources, Numbers
<1> QED BY <1>1, <1>2, RestoreAt DEF Now

OwnStep(x) == Repopulate(x) \/ SwapStep(x) \/ FailRestore(x)
Moves(x) ==
  \/ restore'[x] = restore[x] \/ restore'[x] = NoRestore
  \/ \E X \in Sets : restore'[x] = Touched(x, X)
  \/ restore[x].at # "none" /\ \E p \in Stages : restore'[x] = Now(x, p)
  \/ \E a \in archives : Decode(x, a)

\* A restore's own step takes it on or gives it up; the others see it, or nothing
\* has changed.
LEMMA OwnMoves ==
  ASSUME TypeOK, NEW x \in Restorers, OwnStep(x)
  PROVE  /\ restore' \in [Restorers -> RestoreRec]
         /\ \/ restore'[x] = NoRestore
            \/ restore[x].at # "none" /\ \E p \in Stages : restore'[x] = Now(x, p)
         /\ \A y \in Restorers \ {x} : \/ restore'[y] = Touched(y, Chats)
                                       \/ restore'[y] = restore[y] /\ UNCHANGED <<db, tree, live>>
<1>0. restore \in [Restorers -> RestoreRec] /\ NoRestore \in RestoreRec
  BY Nothing DEF TypeOK
<1>1. \/ Proceed(x, NoRestore)
      \/ restore[x].at # "none" /\ \E p \in Stages : Proceed(x, Now(x, p))
      \/ restore' = [restore EXCEPT ![x] = NoRestore] /\ UNCHANGED <<db, tree, live>>
  <2>1. CASE Repopulate(x)
    BY <2>1 DEF Repopulate, Stages
  <2>2. CASE Extract(x)
    BY <2>2 DEF Extract, Stages
  <2>3. CASE SetAside(x)
    BY <2>3 DEF SetAside, Stages
  <2>4. CASE PutInPlace(x)
    BY <2>4 DEF PutInPlace, Stages
  <2>5. CASE RemoveOld(x)
    BY <2>5 DEF RemoveOld, Stages
  <2>6. CASE FailRestore(x)
    BY <2>6 DEF FailRestore, portal
  <2> QED BY <2>1, <2>2, <2>3, <2>4, <2>5, <2>6 DEF OwnStep, SwapStep
<1>2. CASE Proceed(x, NoRestore)
  BY <1>0, <1>2, Proceeded
<1>3. CASE restore[x].at # "none" /\ \E p \in Stages : Proceed(x, Now(x, p))
  <2>1. PICK p \in Stages : Proceed(x, Now(x, p))
    BY <1>3
  <2>2. Now(x, p) \in RestoreRec
    BY NowIs
  <2> QED BY <1>3, <2>1, <2>2, Proceeded
<1>4. CASE restore' = [restore EXCEPT ![x] = NoRestore] /\ UNCHANGED <<db, tree, live>>
  BY <1>0, <1>4
<1> QED BY <1>1, <1>2, <1>3, <1>4

\* How a restore goes on.
LEMMA RestoreTyped ==
  ASSUME TypeOK, [Next]_vars
  PROVE  /\ restore' \in [Restorers -> RestoreRec]
         /\ \A x \in Restorers : Moves(x)
<1> DEFINE Goal == restore' \in [Restorers -> RestoreRec] /\ \A x \in Restorers : Moves(x)
<1>0. restore \in [Restorers -> RestoreRec] /\ NoRestore \in RestoreRec /\ Chats \in Sets
      /\ \A c \in Chats : {c} \in Sets
  BY Nothing DEF TypeOK, Sets
<1>1. CASE restore' = restore
  BY <1>0, <1>1 DEF Moves
<1>2. ASSUME NEW c \in Chats, PortalStep(c) PROVE Goal
  <2>1. restore' = [x \in Restorers |-> Touched(x, {c})]
    BY <1>2 DEF PortalStep, OpenChat, SaveBytes, PoolLists, RecordFile, DeleteChat, DeleteFile,
                WipeBytes, SandboxRemoves, PoolDrops, Used, Touch
  <2>2. \A x \in Restorers : Touched(x, {c}) \in RestoreRec
    BY <1>0, TouchedIs
  <2>3. restore' \in [Restorers -> RestoreRec] /\ \A x \in Restorers : restore'[x] = Touched(x, {c})
    BY <2>1, <2>2
  <2> QED BY <1>0, <2>3 DEF Moves
<1>3. ASSUME NEW x \in Restorers, NEW a \in archives, Decode(x, a) PROVE Goal
  <2> DEFINE p == "decoded"
             n == uses'
             t == {}
             rec == [at |-> p, from |-> a, no |-> n, touched |-> t]
  <2>1. p \in Stages /\ a \in Sources /\ n \in Numbers /\ t \in Sets
    BY <1>3, Fields, Bounds, Within DEF Stages, TypeOK, Sources, Numbers, Decode, Sets
  <2>2. restore' = [restore EXCEPT ![x] = rec]
    BY <1>3 DEF Decode
  <2> HIDE DEF p, n, t
  <2>3. rec \in RestoreRec
    BY <2>1, RestoreMade
  <2> HIDE DEF rec
  <2>4. restore' \in [Restorers -> RestoreRec] /\ \A y \in Restorers \ {x} : restore'[y] = restore[y]
    BY <1>0, <2>2, <2>3
  <2> QED BY <1>3, <2>4 DEF Moves
<1>4. ASSUME NEW x \in Restorers, OwnStep(x) PROVE Goal
  <2>1. /\ restore' \in [Restorers -> RestoreRec]
        /\ \/ restore'[x] = NoRestore
           \/ restore[x].at # "none" /\ \E p \in Stages : restore'[x] = Now(x, p)
        /\ \A y \in Restorers \ {x} : restore'[y] = Touched(y, Chats) \/ restore'[y] = restore[y]
    BY <1>4, OwnMoves
  <2> QED BY <1>0, <2>1 DEF Moves
<1>5. ASSUME Restart PROVE Goal
  BY <1>0, <1>5 DEF Restart, Moves
<1> HIDE DEF Goal
<1>6. Goal
  BY <1>1, <1>2, <1>3, <1>4, <1>5, Frames DEF Goal, OwnStep
<1> QED BY <1>6 DEF Goal

\* What is decoded.
LEMMA DecodeIs ==
  ASSUME TypeOK, NEW x \in Restorers, NEW a \in archives, Decode(x, a)
  PROVE  /\ restore'[x].at = "decoded" /\ restore'[x].from = a /\ restore'[x].no = uses + 1
         /\ uses' = uses + 1 /\ \A y \in Restorers \ {x} : restore'[y] = restore[y]
<1>1. restore \in [Restorers -> RestoreRec]
  BY DEF TypeOK
<1> QED BY <1>1 DEF Decode

\* the history of attempts
LEMMA AttemptsTyped ==
  ASSUME TypeOK, [Next]_vars
  PROVE  attempts' \in [days : SUBSET Stamps, undone : BOOLEAN, twice : BOOLEAN]
<1>0. attempts \in [days : SUBSET Stamps, undone : BOOLEAN, twice : BOOLEAN]
  BY DEF TypeOK
<1>1. ASSUME StartAuto PROVE attempts' \in [days : SUBSET Stamps, undone : BOOLEAN, twice : BOOLEAN]
  <2> DEFINE D == attempts.days \cup {tick.day}
             b == attempts.twice \/ tick.day \in attempts.days
  <2>1. D \in SUBSET Stamps /\ b \in BOOLEAN
    BY Fields
  <2>2. attempts' = [attempts EXCEPT !.days = D, !.twice = b]
    BY <1>1 DEF StartAuto
  <2> HIDE DEF D, b
  <2> QED BY <1>0, <2>1, <2>2
<1>2. ASSUME NEW b \in BOOLEAN, attempts' = [attempts EXCEPT !.undone = b]
      PROVE  attempts' \in [days : SUBSET Stamps, undone : BOOLEAN, twice : BOOLEAN]
  BY <1>0, <1>2
<1>3. ASSUME SaveWrites \/ \E x \in Restorers : Repopulate(x), attempts' # attempts
      PROVE  attempts' \in [days : SUBSET Stamps, undone : BOOLEAN, twice : BOOLEAN]
  <2>1. \E n \in {save.cfg.stamp} \cup {restore[x].from.cfg.stamp : x \in Restorers} :
          attempts' = [attempts EXCEPT !.undone = attempts.undone \/ n < db.cfg.stamp]
    BY <1>3 DEF SaveWrites, Repopulate
  <2>2. \A n : (attempts.undone \/ n < db.cfg.stamp) \in BOOLEAN
    OBVIOUS
  <2> QED BY <1>2, <2>1, <2>2
<1> QED BY <1>0, <1>1, <1>3, Frames

\* and what is aside.
LEMMA AsideTyped ==
  ASSUME TypeOK, FormOK, [Next]_vars
  PROVE  aside' \in SUBSET [no : 1..MaxUses, has : Sets]
<1>0. aside \in SUBSET [no : 1..MaxUses, has : Sets]
  BY DEF TypeOK
<1>1. ASSUME NEW x \in Restorers, SetAside(x) PROVE aside' \in SUBSET [no : 1..MaxUses, has : Sets]
  <2> DEFINE n == restore[x].no
             h == tree.has
  <2>1. n \in 1..MaxUses /\ h \in Sets
    BY <1>1, Fields, Bounds DEF SetAside, FormOK, SourceOK, Numbers
  <2>2. aside' = aside \/ aside' = aside \cup {[no |-> n, has |-> h]}
    BY <1>1 DEF SetAside
  <2> HIDE DEF n, h
  <2> QED BY <1>0, <2>1, <2>2
<1>2. ASSUME NEW x \in Restorers, Extract(x) \/ PutInPlace(x) \/ RemoveOld(x)
      PROVE  aside' \in SUBSET [no : 1..MaxUses, has : Sets]
  BY <1>0, <1>2 DEF Extract, PutInPlace, RemoveOld
<1> QED BY <1>0, <1>1, <1>2, Frames DEF SwapStep

-----------------------------------------------------------------------------
(* The bound on archives, and the types together *)

One(p) == IF p THEN 1 ELSE 0

\* The dumps under way, how many, and what one that begins or ends makes of it.
Dumping(R)   == {r \in Callers : R[r].at # 0}
Planning   == tick.at \in {"stamp", "write", "start"}
Planned    == made + Cardinality(Dumping(run)) + One(Planning)

\* They are finitely many.
LEMMA UnderWay ==
  ASSUME NEW R
  PROVE  IsFiniteSet(Dumping(R)) /\ Cardinality(Dumping(R)) \in Nat
<1>1. Dumping(R) \subseteq Callers
  BY DEF Dumping
<1> QED BY <1>1, Bounds, FS_Subset, FS_CardinalityType

\* One more when one begins,
LEMMA OneMore ==
  ASSUME NEW R, NEW Q, NEW r \in Callers, R[r].at = 0, Q[r].at # 0,
         \A q \in Callers \ {r} : Q[q] = R[q]
  PROVE  Cardinality(Dumping(Q)) = Cardinality(Dumping(R)) + 1
<1>1. Dumping(Q) = Dumping(R) \cup {r} /\ r \notin Dumping(R)
  BY DEF Dumping
<1> QED BY <1>1, UnderWay, FS_AddElement

\* as many when none begins or ends,
LEMMA AsMany ==
  ASSUME NEW R, NEW Q, \A q \in Callers : Q[q].at # 0 <=> R[q].at # 0
  PROVE  Cardinality(Dumping(Q)) = Cardinality(Dumping(R))
<1>1. Dumping(Q) = Dumping(R)
  BY DEF Dumping
<1> QED BY <1>1

\* none when all are idle.
LEMMA NoneLeft ==
  ASSUME NEW R, \A q \in Callers : R[q].at = 0
  PROVE  Cardinality(Dumping(R)) = 0
<1>1. Dumping(R) = {}
  BY DEF Dumping
<1> QED BY <1>1, FS_EmptySet

\* A part of a sum of numbers is at most the sum.
LEMMA PartOfSum ==
  ASSUME NEW d \in Nat, NEW m \in Nat, NEW q \in Nat, NEW x \in Nat, NEW a,
         a = d + m + q, a <= x
  PROVE  d \in 0..x
OBVIOUS

\* The bound on archives, as a sum.
LEMMA InSightIs == InSight = Planned
BY DEF InSight, Planned, Planning, Dumping, One

\* How the phase of a tick and the two dumps go on together.
LEMMA PhasesStep ==
  ASSUME TypeOK, FormOK, [Next]_vars
  PROVE  /\ made' \in Nat /\ Planned' <= MaxArchives
         /\ tick'.at = "dump" <=> run'["auto"].at # 0
<1> DEFINE Goal == /\ made' \in Nat /\ Planned' <= MaxArchives
                   /\ tick'.at = "dump" <=> run'["auto"].at # 0
<1>0. /\ made \in Nat /\ MaxArchives \in Nat /\ Planned <= MaxArchives
      /\ "auto" \in Callers /\ Manuals \subseteq Callers /\ "auto" \notin Manuals
      /\ run \in [Callers -> RunRec] /\ NoRun.at = 0 /\ NoTick.at = "none" /\ BegunRun.at = 1
      /\ tick.at = "dump" <=> run["auto"].at # 0
  <2>1. made \in Nat /\ InSight <= MaxArchives
    BY Fields DEF FormOK
  <2> QED BY <2>1, Bounds, BackupsAssumption, InSightIs, NothingIs, BegunIs DEF TypeOK, Callers
<1>t. tick \in [at : Phases, keep : Nat, day : Stamps, cfg : AnyCfg, stale : Lists, cleared : BOOLEAN]
  BY Fields DEF TickRec, Phases, AnyCfg, Lists
<1>c. Chats \in Sets /\ \A c \in Chats : {c} \in Sets
  BY DEF Sets
\* Nobody begins and nobody is done.
<1>1. ASSUME \A r \in Callers : run'[r].at # 0 <=> run[r].at # 0, made' = made, tick'.at = tick.at
      PROVE  Goal
  <2>1. Cardinality(Dumping(run')) = Cardinality(Dumping(run))
    BY <1>1, AsMany
  <2>2. "auto" \in Callers
    BY <1>0
  <2> QED BY <1>0, <1>1, <2>1, <2>2 DEF Planned, Planning
<1>2. ASSUME NEW X \in Sets, Disturb(X), made' = made, tick' = tick PROVE Goal
  BY <1>1, <1>2, Disturbed
<1>3. ASSUME NEW c \in Chats, PortalStep(c) PROVE Goal
  <2>1. (run' = run \/ Disturb({c})) /\ made' = made /\ tick' = tick
    BY <1>3 DEF PortalStep, OpenChat, SaveBytes, PoolLists, RecordFile, DeleteChat, DeleteFile,
                    WipeBytes, SandboxRemoves, PoolDrops, Used
  <2> QED BY <1>1, <1>2, <1>c, <2>1
<1>4. ASSUME NEW x \in Restorers, Repopulate(x) \/ SwapStep(x) PROVE Goal
  <2>1. (run' = run \/ Disturb(Chats)) /\ made' = made /\ tick' = tick
    BY <1>4 DEF Repopulate, SwapStep, Extract, SetAside, PutInPlace, RemoveOld, Elsewhere
  <2> QED BY <1>1, <1>2, <1>c, <2>1
<1>5. ASSUME NEW r \in Manuals, CreateBackupNow(r) PROVE Goal
  <2>1. /\ run[r].at = 0 /\ Planned < MaxArchives /\ run' = [run EXCEPT ![r] = BegunRun]
        /\ made' = made /\ tick' = tick
    BY <1>0, <1>5, InSightIs, Within DEF CreateBackupNow, BeginDump, BegunRun
  <2>2. run'[r].at = 1 /\ r \in Callers /\ r # "auto" /\ \A q \in Callers \ {r} : run'[q] = run[q]
    BY <1>0, <2>1
  <2>3. Cardinality(Dumping(run')) = Cardinality(Dumping(run)) + 1
    <3>1. run'[r].at # 0 /\ run[r].at = 0
      BY <2>1, <2>2
    <3> QED BY <2>2, <3>1, OneMore
  <2>4. run'["auto"] = run["auto"]
    BY <1>0, <2>2
  <2>5. Planned' = Planned + 1 /\ Planned \in Int
    BY <1>0, <2>1, <2>3, UnderWay DEF Planned, Planning, One
  <2> QED BY <1>0, <2>1, <2>4, <2>5
<1>6. ASSUME NEW r \in Callers, DumpFiles(r) \/ Walk(r) PROVE Goal
  <2>1. made' = made /\ tick' = tick
    BY <1>6 DEF DumpFiles, Walk
  <2>2. run'[r].at # 0 /\ run[r].at # 0 /\ \A q \in Callers \ {r} : run'[q] = run[q]
    BY <1>6, DumpsRead
  <2> QED BY <1>1, <2>1, <2>2
<1>7. ASSUME NEW r \in Callers, Finish(r) \/ FailDump(r) PROVE Goal
  <2>0. run[r].at # 0
    <3>1. CASE Finish(r)
      BY <3>1, OrderIs DEF Finish, Dumped
    <3>2. CASE FailDump(r)
      BY <3>2 DEF FailDump
    <3> QED BY <1>7, <3>1, <3>2
  <2>1. /\ run' = [run EXCEPT ![r] = NoRun] /\ made' \in {made, made + 1}
        /\ IF r # "auto" THEN tick' = tick
           ELSE tick' = [tick EXCEPT !.at = "prune"] \/ tick' = NoTick
    BY <1>7 DEF Finish, FailDump, Returned
  <2>2. run'[r].at = 0 /\ \A q \in Callers \ {r} : run'[q] = run[q]
    BY <1>0, <2>1
  <2>3. Cardinality(Dumping(run)) = Cardinality(Dumping(run')) + 1 /\ Cardinality(Dumping(run')) \in Nat
    BY <2>0, <2>2, OneMore, UnderWay
  <2>4. CASE r # "auto"
    <3>1. run'["auto"] = run["auto"] /\ tick' = tick
      BY <1>0, <2>1, <2>2, <2>4
    <3> QED BY <1>0, <2>1, <2>3, <3>1 DEF Planned, Planning, One
  <2>5. CASE r = "auto"
    <3>1. tick'.at \in {"prune", "none"} /\ tick.at = "dump"
      BY <1>0, <1>t, <2>0, <2>1, <2>5
    <3> QED BY <1>0, <2>1, <2>2, <2>3, <2>5, <3>1 DEF Planned, Planning, One
  <2> QED BY <2>4, <2>5
<1>8. ASSUME NEW a \in archives, DeleteBackup(a) \/ \E x \in Restorers : Decode(x, a) PROVE Goal
  <2>1. run' = run /\ made' = made /\ (tick' = tick \/ tick' = [tick EXCEPT !.cleared = TRUE])
    BY <1>8 DEF DeleteBackup, Decode
  <2>2. tick'.at = tick.at
    BY <1>t, <2>1
  <2> QED BY <1>1, <2>1, <2>2
<1>9. ASSUME TickStarts PROVE Goal
  <2>1. /\ run' = run /\ made' = made /\ Planned < MaxArchives /\ tick.at = "none"
        /\ tick' = [NoTick EXCEPT !.at = "stamp", !.keep = db.cfg.keep, !.day = Today]
    BY <1>0, <1>9, InSightIs, Within DEF TickStarts
  <2>2. tick'.at = "stamp"
    BY <2>1 DEF NoTick
  <2> QED BY <1>0, <2>1, <2>2, UnderWay DEF Planned, Planning, One
<1>10. ASSUME ReadStamp \/ WriteStamp \/ FailStamp \/ ListStale \/ Unlink PROVE Goal
  <2>1. run' = run /\ made' = made /\ tick.at # "dump"
    BY <1>10 DEF ReadStamp, WriteStamp, FailStamp, ListStale, Unlink
  <2>2. tick'.at # "dump" /\ (tick'.at \in {"stamp", "write", "start"} => Planning)
    <3>1. CASE ReadStamp \/ WriteStamp \/ FailStamp
      BY <1>0, <1>t, <3>1 DEF ReadStamp, WriteStamp, FailStamp, Planning
    <3>2. CASE ListStale
      <4> DEFINE l == {a.no : a \in archives \ Newest(tick.keep)}
      <4>1. tick' = NoTick \/ tick' = [tick EXCEPT !.at = "unlink", !.stale = l, !.cleared = FALSE]
        BY <3>2 DEF ListStale
      <4> HIDE DEF l
      <4> QED BY <1>0, <1>t, <4>1
    <3>3. CASE Unlink
      <4> DEFINE l == tick.stale \ {Max(tick.stale)}
      <4>1. tick.at = "unlink" /\ (tick' = NoTick \/ tick' = [tick EXCEPT !.stale = l])
        BY <3>3 DEF Unlink
      <4> HIDE DEF l
      <4> QED BY <1>0, <1>t, <4>1
    <3> QED BY <1>10, <3>1, <3>2, <3>3
  <2> QED BY <1>0, <2>1, <2>2, UnderWay DEF Planned, Planning, One
<1>11. ASSUME StartAuto PROVE Goal
  <2>1. /\ run' = [run EXCEPT !["auto"] = BegunRun] /\ made' = made /\ tick.at = "start"
        /\ tick' = [tick EXCEPT !.at = "dump"]
    BY <1>11 DEF StartAuto, BeginDump, BegunRun
  <2>2. run'["auto"].at = 1 /\ tick'.at = "dump" /\ run["auto"].at = 0
        /\ \A q \in Callers \ {"auto"} : run'[q] = run[q]
    BY <1>0, <1>t, <2>1
  <2>3. Cardinality(Dumping(run')) = Cardinality(Dumping(run)) + 1 /\ Cardinality(Dumping(run)) \in Nat
    BY <1>0, <2>2, OneMore, UnderWay
  <2> QED BY <1>0, <2>1, <2>2, <2>3 DEF Planned, Planning, One
<1>12. ASSUME Restart PROVE Goal
  <2>1. \A r \in Callers : run'[r].at = 0
    BY <1>0, <1>12 DEF Restart
  <2>2. made' = made /\ tick'.at = "none"
    BY <1>0, <1>12 DEF Restart
  <2>3. Cardinality(Dumping(run')) = 0 /\ Cardinality(Dumping(run)) \in Nat
    BY <2>1, NoneLeft, UnderWay
  <2> QED BY <1>0, <2>1, <2>2, <2>3 DEF Planned, Planning, One
<1>13. ASSUME \/ UNCHANGED vars \/ Clock \/ SaveReads \/ SaveWrites
              \/ \E x \in Restorers : FailRestore(x)
       PROVE  Goal
  <2>1. run' = run /\ made' = made /\ tick' = tick
    BY <1>13 DEF vars, Clock, SaveReads, SaveWrites, FailRestore
  <2> QED BY <1>1, <2>1
<1> HIDE DEF Goal
<1>14. Goal
  BY <1>3, <1>4, <1>5, <1>6, <1>7, <1>8, <1>9, <1>10, <1>11, <1>12, <1>13, NextSteps
     DEF DumpStep, ScheduleStep
<1> QED BY <1>14 DEF Goal

\* What is listed is what a dump has read.
LEMMA ArchiveAdded ==
  ASSUME TypeOK, FormOK, NEW r \in Callers, Finish(r)
  PROVE  \E a \in Archive :
           /\ a.no = made + 1 /\ a.chats = run[r].chats /\ a.files = run[r].files
           /\ a.bytes = run[r].bytes /\ a.cfg = run[r].cfg /\ a.touched = run[r].touched
           /\ archives' = archives \cup {a} /\ made' = made + 1
<1> DEFINE n == made + 1
           c == run[r].chats
           f == run[r].files
           b == run[r].bytes
           s == run[r].cfg
           t == run[r].touched
           a == [no |-> n, chats |-> c, files |-> f, bytes |-> b, cfg |-> s, touched |-> t]
<1>1. archives' = archives \cup {a} /\ made' = n
  BY DEF Finish
<1>2. c \in Sets /\ f \in Sets /\ b \in Sets /\ s \in Cfgs /\ t \in Sets
  <2>1. run[r].at # 0
    BY OrderIs DEF Finish, Dumped
  <2> QED BY <2>1, Fields DEF FormOK
<1>3. n \in 1..MaxArchives
  <2>0. made \in Nat /\ InSight <= MaxArchives
    BY Fields DEF FormOK
  <2>1. r \in Dumping(run) /\ Planned <= MaxArchives /\ made \in Nat /\ MaxArchives \in Nat
    BY <2>0, OrderIs, InSightIs, Bounds DEF Finish, Dumped, Dumping
  <2>2. Cardinality(Dumping(run)) \in Nat /\ Cardinality(Dumping(run)) # 0
    BY <2>1, UnderWay, FS_EmptySet
  <2> QED BY <2>1, <2>2 DEF Planned, One
<1> HIDE DEF n, c, f, b, s, t
<1>4. a \in Archive
  BY <1>2, <1>3 DEF Archive
<1>5. a.no = n /\ a.chats = c /\ a.files = f /\ a.bytes = b /\ a.cfg = s /\ a.touched = t
  OBVIOUS
<1> QED BY <1>1, <1>4, <1>5 DEF n, c, f, b, s, t

\* Every step keeps the types.
LEMMA TypeStep ==
  ASSUME TypeOK, FormOK, PruneOK, [Next]_vars
  PROVE  TypeOK' /\ FormOK'
<1>1. /\ db' \in [chats : Sets, files : Sets, cfg : Cfgs]
      /\ tree' \in [here : BOOLEAN, has : Sets]
      /\ live' \in [opened : Sets, uploading : Sets, wiping : Sets]
      /\ aside' \in SUBSET [no : 1..MaxUses, has : Sets]
      /\ run' \in [Callers -> RunRec] /\ tick' \in TickRec /\ save' \in SaveRec
      /\ restore' \in [Restorers -> RestoreRec]
      /\ attempts' \in [days : SUBSET Stamps, undone : BOOLEAN, twice : BOOLEAN]
  BY PortalTyped, AsideTyped, RunTyped, TickTyped, SaveTyped, RestoreTyped, AttemptsTyped
<1>2. /\ made' \in Nat /\ Planned' <= MaxArchives
      /\ tick'.at = "dump" <=> run'["auto"].at # 0
  BY PhasesStep
<1>3. InSight' <= MaxArchives
  <2>1. InSight' = Planned'
    BY DEF InSight, Planned, Planning, Dumping, One
  <2> QED BY <1>2, <2>1
<1>4. made' \in 0..MaxArchives
  <2> DEFINE m == Cardinality(Dumping(run'))
             q == One(Planning')
             all == Planned'
  <2>1. m \in Nat /\ q \in Nat
    BY UnderWay DEF One
  <2>2. made' \in Nat /\ MaxArchives \in Nat /\ all <= MaxArchives /\ all = made' + m + q
    BY <1>2, Bounds DEF Planned
  <2> HIDE DEF m, q, all
  <2> QED BY <2>1, <2>2, PartOfSum
<1>5. archives' \in SUBSET Archive
  <2>1. archives \in SUBSET Archive
    BY DEF TypeOK
  <2>2. ASSUME NEW r \in Callers, Finish(r) PROVE archives' \in SUBSET Archive
    BY <2>1, <2>2, ArchiveAdded
  <2>3. ASSUME NEW a \in archives, DeleteBackup(a) PROVE archives' \in SUBSET Archive
    BY <2>1, <2>3 DEF DeleteBackup
  <2>4. ASSUME Unlink PROVE archives' \in SUBSET Archive
    BY <2>1, <2>4 DEF Unlink
  <2> QED BY <2>1, <2>2, <2>3, <2>4, Frames
<1>6. clock' \in 2..MaxClock /\ uses' \in 0..MaxUses /\ faults' \in 0..MaxFaults
  <2>0. clock \in 2..MaxClock /\ uses \in 0..MaxUses /\ faults \in 0..MaxFaults
        /\ MaxUses \in Nat /\ MaxFaults \in Nat /\ MaxClock \in Nat
        /\ (MayUse => uses < MaxUses) /\ (MayFail => faults < MaxFaults)
    BY Bounds, Within DEF TypeOK
  <2>1. ASSUME UNCHANGED vars \/ Clock \/ Restart
        PROVE  clock' \in 2..MaxClock /\ uses' \in 0..MaxUses /\ faults' \in 0..MaxFaults
    BY <2>0, <2>1 DEF vars, Clock, Restart, portal
  <2>2. ASSUME NEW c \in Chats, PortalStep(c)
        PROVE  clock' \in 2..MaxClock /\ uses' \in 0..MaxUses /\ faults' \in 0..MaxFaults
    <3>1. clock' = clock /\ faults' = faults /\ (uses' = uses \/ (MayUse /\ uses' = uses + 1))
      BY <2>2 DEF PortalStep, OpenChat, SaveBytes, PoolLists, RecordFile, DeleteChat, DeleteFile,
                    WipeBytes, SandboxRemoves, PoolDrops, Used
    <3> QED BY <2>0, <3>1
  <2>3. ASSUME \/ SaveReads \/ SaveWrites \/ \E r \in Manuals : CreateBackupNow(r)
               \/ \E x \in Restorers : FailRestore(x) \/ Repopulate(x)
        PROVE  clock' \in 2..MaxClock /\ uses' \in 0..MaxUses /\ faults' \in 0..MaxFaults
    BY <2>0, <2>3 DEF CreateBackupNow, SaveReads, SaveWrites, FailRestore, Repopulate, portal
  <2>4. ASSUME NEW r \in Callers, DumpStep(r)
        PROVE  clock' \in 2..MaxClock /\ uses' \in 0..MaxUses /\ faults' \in 0..MaxFaults
    <3>1. CASE DumpFiles(r) \/ Walk(r) \/ Finish(r)
      BY <2>0, <3>1 DEF DumpFiles, Walk, Finish, portal
    <3>2. CASE FailDump(r)
      BY <2>0, <3>2 DEF FailDump, portal
    <3> QED BY <2>4, <3>1, <3>2 DEF DumpStep
  <2>5. ASSUME NEW a \in archives, DeleteBackup(a) \/ \E x \in Restorers : Decode(x, a)
        PROVE  clock' \in 2..MaxClock /\ uses' \in 0..MaxUses /\ faults' \in 0..MaxFaults
    BY <2>0, <2>5 DEF DeleteBackup, Decode
  <2>6. ASSUME ScheduleStep
        PROVE  clock' \in 2..MaxClock /\ uses' \in 0..MaxUses /\ faults' \in 0..MaxFaults
    BY <2>0, <2>6 DEF ScheduleStep, TickStarts, ReadStamp, WriteStamp, FailStamp, StartAuto,
                      ListStale, Unlink, portal
  <2>7. ASSUME NEW x \in Restorers, SwapStep(x)
        PROVE  clock' \in 2..MaxClock /\ uses' \in 0..MaxUses /\ faults' \in 0..MaxFaults
    BY <2>0, <2>7 DEF SwapStep, Extract, SetAside, PutInPlace, RemoveOld, Elsewhere
  <2> QED BY <2>1, <2>2, <2>3, <2>4, <2>5, <2>6, <2>7, NextSteps
<1>7. tick'.at = "write" => tick'.cfg \in Cfgs
  <2>0. tick \in TickRec /\ db.cfg \in Cfgs
    BY Fields
  <2>t. tick \in [at : Phases, keep : Nat, day : Stamps, cfg : AnyCfg, stale : Lists, cleared : BOOLEAN]
    BY <2>0 DEF TickRec, Phases, AnyCfg, Lists
  <2>1. CASE tick' = tick
    BY <2>1 DEF FormOK
  <2>2. ASSUME NEW r \in Callers, Finish(r) \/ FailDump(r) PROVE tick'.at # "write" \/ tick' = tick
    <3>1. tick' = tick \/ tick' = NoTick \/ tick' = [tick EXCEPT !.at = "prune"]
      BY <2>2 DEF Finish, FailDump, Returned
    <3> QED BY <2>t, <3>1, NothingIs
  <2>3. ASSUME NEW a \in archives, DeleteBackup(a) PROVE tick'.at = tick.at /\ tick'.cfg = tick.cfg
    BY <2>t, <2>3 DEF DeleteBackup
  <2>4. ASSUME ReadStamp PROVE tick'.cfg \in Cfgs
    BY <2>0, <2>t, <2>4 DEF ReadStamp
  <2>5. ASSUME \/ TickStarts \/ WriteStamp \/ FailStamp \/ StartAuto \/ ListStale \/ Unlink
               \/ Restart
        PROVE  tick'.at # "write"
    <3>1. \/ tick' = NoTick
          \/ tick' = [NoTick EXCEPT !.at = "stamp", !.keep = db.cfg.keep, !.day = Today]
          \/ tick' = [tick EXCEPT !.at = "start"] \/ tick' = [tick EXCEPT !.at = "dump"]
          \/ tick.at = "unlink" /\ tick' = [tick EXCEPT !.stale = tick.stale \ {Max(tick.stale)}]
          \/ tick' = [tick EXCEPT !.at = "unlink", !.stale = {a.no : a \in archives \ Newest(tick.keep)},
                                  !.cleared = FALSE]
      BY <2>5 DEF TickStarts, WriteStamp, FailStamp, StartAuto, ListStale, Unlink, Restart
    <3>2. [NoTick EXCEPT !.at = "stamp", !.keep = db.cfg.keep, !.day = Today].at = "stamp"
      BY DEF NoTick
    <3> QED BY <2>t, <3>1, <3>2, NothingIs
  <2> QED BY <2>1, <2>2, <2>3, <2>4, <2>5, Frames DEF ScheduleStep, FormOK
<1>8. save'.at = "write" => save'.cfg \in Cfgs
  <2>1. ASSUME SaveReads PROVE save'.cfg \in Cfgs
    BY <2>1, Fields DEF SaveReads
  <2>2. ASSUME SaveWrites \/ Restart PROVE save'.at # "write"
    BY <2>2, NothingIs DEF SaveWrites, Restart
  <2> QED BY <2>1, <2>2, Frames DEF FormOK
<1>9. \A x \in Restorers : SourceOK(restore'[x])
  <2> TAKE x \in Restorers
  <2>0. SourceOK(restore[x]) /\ uses \in Nat /\ archives \subseteq Archive
    BY Fields DEF FormOK, TypeOK
  <2>1. CASE restore'[x] = restore[x] \/ restore'[x] = NoRestore
    BY <2>0, <2>1, NothingIs DEF SourceOK
  <2>2. ASSUME NEW X \in Sets, restore'[x] = Touched(x, X) PROVE SourceOK(restore'[x])
    BY <2>0, <2>2, TouchedIs DEF SourceOK
  <2>3. ASSUME NEW p \in Stages, restore[x].at # "none", restore'[x] = Now(x, p)
        PROVE  SourceOK(restore'[x])
    BY <2>0, <2>3, NowIs DEF SourceOK
  <2>4. ASSUME NEW a \in archives, Decode(x, a) PROVE SourceOK(restore'[x])
    BY <2>0, <2>4, DecodeIs DEF SourceOK
  <2> QED BY <2>1, <2>2, <2>3, <2>4, RestoreTyped DEF Moves
<1>r. \A r \in Callers : run'[r].at # 0 => run'[r].cfg \in Cfgs
  <2>1. ASSUME NEW r \in Callers PROVE run'[r].at # 0 => run'[r].cfg \in Cfgs
    BY RunCfgStep, Fields DEF FormOK, CfgMoves
  <2> QED BY <2>1
<1>10. TypeOK'
  BY <1>1, <1>2, <1>4, <1>5, <1>6 DEF TypeOK
<1>11. FormOK'
  BY <1>3, <1>7, <1>8, <1>9, <1>r DEF FormOK
<1> QED BY <1>10, <1>11

-----------------------------------------------------------------------------
(* Dates, step by step *)

\* Every date is one that somebody had.
DbStamp ==
  \/ db'.cfg.stamp = db.cfg.stamp
  \/ WriteStamp /\ db'.cfg.stamp = tick.day
  \/ SaveWrites /\ db'.cfg.stamp = save.cfg.stamp
  \/ \E x \in Restorers : /\ Repopulate(x) /\ restore[x].at # "none"
                          /\ db'.cfg.stamp = restore[x].from.cfg.stamp

\* A step leaves the stamp in the settings, writes one a save or a restore
\* carried, or the day of the tick.
LEMMA DbStampStep ==
  ASSUME TypeOK, FormOK, [Next]_vars
  PROVE  DbStamp
<1>0. db \in [chats : Sets, files : Sets, cfg : Cfgs] /\ db' \in [chats : Sets, files : Sets, cfg : Cfgs]
  BY PortalTyped DEF TypeOK
<1>1. CASE db' = db
  BY <1>1 DEF DbStamp
<1>2. ASSUME NEW c \in Chats, PortalStep(c) PROVE DbStamp
  <2>1. db'.cfg = db.cfg
    BY <1>0, <1>2 DEF PortalStep, OpenChat, SaveBytes, PoolLists, RecordFile, DeleteChat, DeleteFile,
                    WipeBytes, SandboxRemoves, PoolDrops
  <2> QED BY <2>1 DEF DbStamp
<1>3. ASSUME WriteStamp PROVE DbStamp
  <2>1. db'.cfg = [tick.cfg EXCEPT !.stamp = tick.day] /\ tick.cfg \in Cfgs
    BY <1>0, <1>3 DEF WriteStamp, FormOK
  <2>2. db'.cfg.stamp = tick.day
    BY <2>1 DEF Cfgs
  <2> QED BY <1>3, <2>2 DEF DbStamp
<1>4. ASSUME SaveWrites PROVE DbStamp
  <2>1. PICK keep \in Keeps : db'.cfg = [save.cfg EXCEPT !.keep = keep]
    BY <1>0, <1>4 DEF SaveWrites
  <2>2. save.cfg \in Cfgs
    BY <1>4 DEF SaveWrites, FormOK
  <2>3. db'.cfg.stamp = save.cfg.stamp
    BY <2>1, <2>2 DEF Cfgs
  <2> QED BY <1>4, <2>3 DEF DbStamp
<1>5. ASSUME NEW x \in Restorers, Repopulate(x) PROVE DbStamp
  <2>1. CASE db' = db
    BY <2>1 DEF DbStamp
  <2>2. CASE db' # db
    <3>1. db'.cfg = restore[x].from.cfg /\ restore[x].at # "none"
      BY <1>5, <2>2 DEF Repopulate
    <3> QED BY <1>5, <3>1 DEF DbStamp
  <2> QED BY <2>1, <2>2
<1> QED BY <1>1, <1>2, <1>3, <1>4, <1>5, Frames

\* A restore keeps to its archive.
LEMMA RestoreFromStep ==
  ASSUME TypeOK, [Next]_vars, NEW x \in Restorers, restore'[x].at # "none"
  PROVE  \/ restore[x].at # "none" /\ restore'[x].from = restore[x].from
         \/ restore'[x].from \in archives
<1>1. CASE restore'[x] = restore[x] \/ restore'[x] = NoRestore
  BY <1>1, NothingIs
<1>2. ASSUME NEW X \in Sets, restore'[x] = Touched(x, X)
      PROVE  restore[x].at # "none" /\ restore'[x].from = restore[x].from
  BY <1>2, TouchedIs
<1>3. ASSUME NEW p \in Stages, restore[x].at # "none", restore'[x] = Now(x, p)
      PROVE  restore'[x].from = restore[x].from
  BY <1>3, NowIs
<1>4. ASSUME NEW a \in archives, Decode(x, a) PROVE restore'[x].from = a
  BY <1>4, DecodeIs
<1> QED BY <1>1, <1>2, <1>3, <1>4, RestoreTyped DEF Moves

\* A tick goes on with its day and its count.
LEMMA TickMoves ==
  ASSUME TypeOK, [Next]_vars
  PROVE  \/ tick'.at = "none"
         \/ TickStarts /\ tick'.at = "stamp" /\ tick'.day = Today
         \/ tick'.day = tick.day /\ tick'.keep = tick.keep /\ tick.at # "none"
              /\ \/ tick'.at = tick.at
                 \/ ReadStamp /\ tick'.at = "write"
                 \/ WriteStamp /\ tick'.at = "start"
                 \/ tick'.at \in {"dump", "prune", "unlink"}
<1> DEFINE Goal ==
         \/ tick'.at = "none"
         \/ TickStarts /\ tick'.at = "stamp" /\ tick'.day = Today
         \/ tick'.day = tick.day /\ tick'.keep = tick.keep /\ tick.at # "none"
              /\ \/ tick'.at = tick.at
                 \/ ReadStamp /\ tick'.at = "write"
                 \/ WriteStamp /\ tick'.at = "start"
                 \/ tick'.at \in {"dump", "prune", "unlink"}
<1>t. /\ tick \in [at : Phases, keep : Nat, day : Stamps, cfg : AnyCfg, stale : Lists,
                   cleared : BOOLEAN]
      /\ NoTick.at = "none"
  BY Fields, NothingIs DEF TickRec, Phases, AnyCfg, Lists
<1>1. CASE tick' = tick
  BY <1>1
<1>2. ASSUME NEW r \in Callers, Finish(r) \/ FailDump(r) PROVE Goal
  <2>1. \/ tick' = tick \/ tick' = NoTick
        \/ r = "auto" /\ tick' = [tick EXCEPT !.at = "prune"]
    BY <1>2 DEF Finish, FailDump, Returned
  <2>2. run[r].at # 0
    <3>1. CASE Finish(r)
      BY <3>1, OrderIs DEF Finish, Dumped
    <3>2. CASE FailDump(r)
      BY <3>2 DEF FailDump
    <3> QED BY <1>2, <3>1, <3>2
  <2>3. r = "auto" => tick.at = "dump"
    BY <2>2 DEF TypeOK
  <2> QED BY <1>t, <2>1, <2>3
<1>3. ASSUME NEW a \in archives, DeleteBackup(a) PROVE Goal
  <2>1. tick' = [tick EXCEPT !.cleared = TRUE]
    BY <1>3 DEF DeleteBackup
  <2> QED BY <1>t, <2>1
<1>4. ASSUME TickStarts PROVE Goal
  <2>1. tick' = [NoTick EXCEPT !.at = "stamp", !.keep = db.cfg.keep, !.day = Today]
    BY <1>4 DEF TickStarts
  <2>2. tick'.at = "stamp" /\ tick'.day = Today
    BY <2>1 DEF NoTick
  <2> QED BY <1>4, <2>2
<1>5. ASSUME ReadStamp PROVE Goal
  <2>1. tick.at = "stamp" /\ tick' = [tick EXCEPT !.at = "write", !.cfg = db.cfg]
    BY <1>5 DEF ReadStamp
  <2> QED BY <1>5, <1>t, <2>1
<1>6. ASSUME WriteStamp PROVE Goal
  <2>1. tick.at = "write" /\ tick' = [tick EXCEPT !.at = "start"]
    BY <1>6 DEF WriteStamp
  <2> QED BY <1>6, <1>t, <2>1
<1>7. ASSUME FailStamp \/ Restart PROVE Goal
  BY <1>7, <1>t DEF FailStamp, Restart
<1>8. ASSUME StartAuto PROVE Goal
  <2>1. tick.at = "start" /\ tick' = [tick EXCEPT !.at = "dump"]
    BY <1>8 DEF StartAuto
  <2> QED BY <1>t, <2>1
<1>9. ASSUME ListStale PROVE Goal
  <2> DEFINE l == {a.no : a \in archives \ Newest(tick.keep)}
  <2>1. /\ tick.at = "prune"
        /\ tick' = NoTick \/ tick' = [tick EXCEPT !.at = "unlink", !.stale = l, !.cleared = FALSE]
    BY <1>9 DEF ListStale
  <2> HIDE DEF l
  <2> QED BY <1>t, <2>1
<1>10. ASSUME Unlink PROVE Goal
  <2> DEFINE l == tick.stale \ {Max(tick.stale)}
  <2>1. tick.at = "unlink" /\ (tick' = NoTick \/ tick' = [tick EXCEPT !.stale = l])
    BY <1>10 DEF Unlink
  <2> HIDE DEF l
  <2> QED BY <1>t, <2>1
<1> HIDE DEF Goal
<1>11. Goal
  BY <1>1, <1>2, <1>3, <1>4, <1>5, <1>6, <1>7, <1>8, <1>9, <1>10, Frames DEF ScheduleStep, Goal
<1> QED BY <1>11 DEF Goal

\* The day never goes back.
LEMMA TodayStep ==
  ASSUME TypeOK, [Next]_vars
  PROVE  Today \in Nat /\ Today' \in Nat /\ Today <= Today'
<1>1. clock' = clock \/ clock' = clock + 1
  <2>1. ASSUME NEW c \in Chats, PortalStep(c) PROVE clock' = clock
    BY <2>1 DEF PortalStep, OpenChat, SaveBytes, PoolLists, RecordFile, DeleteChat, DeleteFile,
                    WipeBytes, SandboxRemoves, PoolDrops, Used
  <2>2. ASSUME NEW x \in Restorers, SwapStep(x) PROVE clock' = clock
    BY <2>2 DEF SwapStep, Extract, SetAside, PutInPlace, RemoveOld, Elsewhere
  <2>3. ASSUME ScheduleStep PROVE clock' = clock
    BY <2>3 DEF ScheduleStep, TickStarts, ReadStamp, WriteStamp, FailStamp, StartAuto, ListStale, Unlink
  <2>4. ASSUME NEW r \in Callers, DumpStep(r) PROVE clock' = clock
    BY <2>4 DEF DumpStep, DumpFiles, Walk, Finish, FailDump
  <2>5. ASSUME \/ UNCHANGED vars \/ Restart \/ SaveReads \/ SaveWrites
               \/ \E r \in Manuals : CreateBackupNow(r)
               \/ \E x \in Restorers : FailRestore(x) \/ Repopulate(x)
               \/ \E a \in archives : DeleteBackup(a) \/ \E x \in Restorers : Decode(x, a)
        PROVE  clock' = clock
    BY <2>5 DEF vars, Restart, CreateBackupNow, SaveReads, SaveWrites, FailRestore, Repopulate,
                DeleteBackup, Decode
  <2> QED BY <2>1, <2>2, <2>3, <2>4, <2>5, NextSteps DEF Clock
<1>2. clock \in Nat
  BY Fields
<1> QED BY <1>1, <1>2 DEF Today

\* Nor does the last day anything can be stamped with.
LEMMA CapStep ==
  ASSUME TypeOK, StampsOK, [Next]_vars
  PROVE  /\ Cap \in Nat /\ Cap' \in Nat /\ Cap <= Cap'
         /\ tick'.at \in {"stamp", "write", "start"} => tick'.day <= Today'
<1>1. Today \in Nat /\ Today' \in Nat /\ Today <= Today'
  BY TodayStep
<1>2. tick.day \in Nat /\ (tick.at \in {"stamp", "write", "start"} => tick.day <= Today)
  BY Fields, Bounds DEF StampsOK
<1>3. CASE tick'.at = "none"
  BY <1>1, <1>2, <1>3 DEF Cap
<1>4. CASE TickStarts /\ tick'.at = "stamp" /\ tick'.day = Today
  BY <1>1, <1>4 DEF Cap, TickStarts
<1>5. CASE tick'.day = tick.day /\ tick'.at = tick.at
  BY <1>1, <1>2, <1>5 DEF Cap
<1>6. CASE tick'.day = tick.day /\ ReadStamp /\ tick'.at = "write"
  BY <1>1, <1>2, <1>6 DEF Cap, ReadStamp
<1>7. CASE tick'.day = tick.day /\ WriteStamp /\ tick'.at = "start"
  BY <1>1, <1>2, <1>7 DEF Cap, WriteStamp
<1>8. CASE tick'.at \in {"dump", "prune", "unlink"}
  BY <1>1, <1>2, <1>8 DEF Cap
<1> QED BY <1>3, <1>4, <1>5, <1>6, <1>7, <1>8, TickMoves

\* No stamp is of a day to come.
LEMMA StampsStep ==
  ASSUME TypeOK, FormOK, StampsOK, TypeOK', [Next]_vars
  PROVE  StampsOK'
<1>1. /\ Cap \in Nat /\ Cap' \in Nat /\ Cap <= Cap'
      /\ tick'.at \in {"stamp", "write", "start"} => tick'.day <= Today'
  BY CapStep
<1>2. ASSUME NEW s \in Nat, s <= Cap PROVE s <= Cap'
  BY <1>1, <1>2
<1>n. /\ db.cfg.stamp \in Nat /\ db.cfg.stamp <= Cap /\ tick.day \in Nat
      /\ NoCfg.stamp \in Nat /\ NoCfg.stamp <= Cap
      /\ \A a \in archives : a.cfg.stamp \in Nat /\ a.cfg.stamp <= Cap
      /\ \A r \in Callers : run[r].cfg.stamp \in Nat /\ run[r].cfg.stamp <= Cap
  <2>1. \A a \in archives : a.cfg \in AnyCfg
    BY DEF TypeOK, Archive, AnyCfg
  <2>2. \A r \in Callers : run[r].cfg \in AnyCfg
    BY Fields
  <2>3. db.cfg.stamp \in Stamps /\ tick.day \in Stamps /\ Stamps \subseteq Nat
    BY Fields, Bounds
  <2>4. /\ db.cfg.stamp <= Cap /\ \A a \in archives : a.cfg.stamp <= Cap
        /\ \A r \in Callers : run[r].cfg.stamp <= Cap
    BY DEF StampsOK
  <2>5. /\ \A a \in archives : a.cfg.stamp \in Nat
        /\ \A r \in Callers : run[r].cfg.stamp \in Nat
        /\ db.cfg.stamp \in Nat /\ tick.day \in Nat
    BY <2>1, <2>2, <2>3, CfgStamp
  <2>6. NoCfg.stamp \in Nat /\ NoCfg.stamp <= Cap
    BY <1>1, NothingIs
  <2> QED BY <2>4, <2>5, <2>6
<1>s. save.cfg.stamp \in Nat /\ save.cfg.stamp <= Cap
  <2>1. save.cfg \in AnyCfg
    BY Fields
  <2>2. save.cfg.stamp \in Nat
    BY <2>1, CfgStamp, Bounds
  <2> QED BY <2>2 DEF StampsOK
<1>r. \A x \in Restorers : restore[x].at # "none" =>
        restore[x].from.cfg.stamp \in Nat /\ restore[x].from.cfg.stamp <= Cap
  <2> TAKE x \in Restorers
  <2>1. restore[x].at # "none" => restore[x].from.cfg \in AnyCfg
    BY DEF FormOK, SourceOK, Archive, AnyCfg
  <2>2. restore[x].at # "none" => restore[x].from.cfg.stamp \in Nat
    BY <2>1, CfgStamp, Bounds
  <2> QED BY <2>2 DEF StampsOK
<1>3. db'.cfg.stamp <= Cap'
  <2>1. CASE db'.cfg.stamp = db.cfg.stamp
    BY <1>1, <1>2, <1>n, <2>1
  <2>2. CASE WriteStamp /\ db'.cfg.stamp = tick.day
    <3>1. tick.day = Cap
      BY <2>2 DEF WriteStamp, Cap
    <3> QED BY <1>1, <2>2, <3>1
  <2>3. CASE db'.cfg.stamp = save.cfg.stamp
    BY <1>2, <1>s, <2>3
  <2>4. CASE \E x \in Restorers : restore[x].at # "none" /\ db'.cfg.stamp = restore[x].from.cfg.stamp
    BY <1>2, <1>r, <2>4
  <2> QED BY <2>1, <2>2, <2>3, <2>4, DbStampStep DEF DbStamp
<1>4. \A a \in archives' : a.cfg.stamp <= Cap'
  <2>1. CASE archives' \subseteq archives
    BY <1>2, <1>n, <2>1
  <2>2. ASSUME NEW r \in Callers, Finish(r) PROVE \A a \in archives' : a.cfg.stamp <= Cap'
    <3>1. PICK a \in Archive : a.cfg = run[r].cfg /\ archives' = archives \cup {a}
      BY <2>2, ArchiveAdded
    <3> QED BY <1>2, <1>n, <3>1
  <2>3. ASSUME NEW a \in archives, DeleteBackup(a) PROVE archives' \subseteq archives
    BY <2>3 DEF DeleteBackup
  <2>4. ASSUME Unlink PROVE archives' \subseteq archives
    BY <2>4 DEF Unlink
  <2> QED BY <2>1, <2>2, <2>3, <2>4, Frames
<1>5. \A r \in Callers : run'[r].cfg.stamp <= Cap'
  <2> TAKE r \in Callers
  <2>1. run'[r].cfg \in {NoCfg, run[r].cfg, db.cfg}
    BY RunCfgStep DEF CfgMoves
  <2> QED BY <1>2, <1>n, <2>1
<1>6. save'.cfg.stamp <= Cap'
  <2>1. save'.cfg \in {NoCfg, save.cfg, db.cfg}
    <3>1. ASSUME SaveReads PROVE save'.cfg = db.cfg
      BY <3>1 DEF SaveReads
    <3> QED BY <3>1, Frames, NothingIs DEF SaveWrites, Restart
  <2> QED BY <1>2, <1>n, <1>s, <2>1
<1>7. ASSUME NEW x \in Restorers, restore'[x].at # "none" PROVE restore'[x].from.cfg.stamp <= Cap'
  <2>1. \/ restore[x].at # "none" /\ restore'[x].from = restore[x].from
        \/ restore'[x].from \in archives
    BY <1>7, RestoreFromStep
  <2> QED BY <1>2, <1>n, <1>r, <2>1
<1> QED BY <1>1, <1>3, <1>4, <1>5, <1>6, <1>7 DEF StampsOK

\* A step that leaves the attempts alone, or notes that it put the date back.
LEMMA StampRises ==
  ASSUME TypeOK, FormOK, StampsOK, [Next]_vars, ~StartAuto, ~attempts'.undone
  PROVE  /\ ~attempts.undone /\ attempts'.days = attempts.days /\ attempts'.twice = attempts.twice
         /\ db'.cfg.stamp \in Nat /\ db.cfg.stamp <= db'.cfg.stamp
<1>a. attempts \in [days : SUBSET Stamps, undone : BOOLEAN, twice : BOOLEAN]
  BY DEF TypeOK
<1>d. db.cfg.stamp \in Nat /\ db.cfg.stamp <= Cap
  BY Fields, Bounds DEF StampsOK
<1>1. CASE SaveWrites
  <2>1. attempts' = [attempts EXCEPT !.undone = attempts.undone \/ save.cfg.stamp < db.cfg.stamp]
    BY <1>1 DEF SaveWrites
  <2> DEFINE p == attempts.undone \/ save.cfg.stamp < db.cfg.stamp
  <2>2. ~p /\ attempts'.days = attempts.days /\ attempts'.twice = attempts.twice
    BY <1>a, <2>1
  <2>3. save.cfg \in Cfgs
    BY <1>1 DEF SaveWrites, FormOK
  <2>4. save.cfg.stamp \in Nat
    BY <2>3, Bounds DEF Cfgs
  <2>5. PICK keep \in Keeps : db' = [db EXCEPT !.cfg = [save.cfg EXCEPT !.keep = keep]]
    BY <1>1 DEF SaveWrites
  <2>6. db'.cfg = [save.cfg EXCEPT !.keep = keep]
    BY <2>5 DEF TypeOK
  <2>7. db'.cfg.stamp = save.cfg.stamp
    BY <2>3, <2>6 DEF Cfgs
  <2> QED BY <1>d, <2>2, <2>4, <2>7
<1>2. ASSUME NEW x \in Restorers, Repopulate(x), db' # db
      PROVE  /\ ~attempts.undone /\ attempts'.days = attempts.days /\ attempts'.twice = attempts.twice
             /\ db'.cfg.stamp \in Nat /\ db.cfg.stamp <= db'.cfg.stamp
  <2> DEFINE n == restore[x].from.cfg.stamp
  <2>1. /\ attempts' = [attempts EXCEPT !.undone = attempts.undone \/ n < db.cfg.stamp]
        /\ db'.cfg = restore[x].from.cfg /\ restore[x].at = "decoded"
    BY <1>2 DEF Repopulate
  <2>2. /\ ~attempts.undone /\ ~(n < db.cfg.stamp)
        /\ attempts'.days = attempts.days /\ attempts'.twice = attempts.twice
    BY <1>a, <2>1
  <2>3. n \in Nat
    BY <2>1, Bounds DEF FormOK, SourceOK, Archive, Cfgs
  <2> QED BY <1>d, <2>1, <2>2, <2>3
<1>3. ASSUME NEW x \in Restorers, Repopulate(x), db' = db
      PROVE  /\ ~attempts.undone /\ attempts'.days = attempts.days /\ attempts'.twice = attempts.twice
             /\ db'.cfg.stamp \in Nat /\ db.cfg.stamp <= db'.cfg.stamp
  <2>1. \/ attempts' = attempts
        \/ attempts' = [attempts EXCEPT !.undone = attempts.undone \/ restore[x].from.cfg.stamp < db.cfg.stamp]
    BY <1>3 DEF Repopulate
  <2>2. ~attempts.undone /\ attempts'.days = attempts.days /\ attempts'.twice = attempts.twice
    BY <1>a, <2>1
  <2> QED BY <1>3, <1>d, <2>2
<1>4. CASE attempts' = attempts /\ ~SaveWrites /\ \A x \in Restorers : ~Repopulate(x)
  <2>1. db'.cfg.stamp = db.cfg.stamp \/ (WriteStamp /\ db'.cfg.stamp = tick.day)
    BY <1>4, DbStampStep DEF DbStamp
  <2>2. WriteStamp => Cap = tick.day
    BY DEF WriteStamp, Cap
  <2>3. tick.day \in Nat
    BY Fields, Bounds
  <2> QED BY <1>4, <1>d, <2>1, <2>2, <2>3
<1> QED BY <1>1, <1>2, <1>3, <1>4, Frames

\* A day's attempt is stamped before it starts: the next tick sees it.
LEMMA OnceStep ==
  ASSUME TypeOK, FormOK, StampsOK, OnceOK, [Next]_vars
  PROVE  OnceOK'
<1> SUFFICES ASSUME ~attempts'.undone
             PROVE  /\ ~attempts'.twice
                    /\ \A d \in attempts'.days : d <= db'.cfg.stamp
                    /\ tick'.at \in {"stamp", "write", "start"} => tick'.day \notin attempts'.days
                    /\ tick'.at = "start" => tick'.day <= db'.cfg.stamp
  BY DEF OnceOK
<1>a. /\ attempts \in [days : SUBSET Stamps, undone : BOOLEAN, twice : BOOLEAN]
      /\ attempts.days \subseteq Nat /\ db.cfg.stamp \in Nat /\ tick.day \in Nat
  BY Fields, Bounds DEF TypeOK
<1>1. CASE StartAuto
  <2>1. /\ tick.at = "start" /\ tick' = [tick EXCEPT !.at = "dump"] /\ db' = db
        /\ attempts' = [attempts EXCEPT !.days = attempts.days \cup {tick.day},
                                        !.twice = attempts.twice \/ tick.day \in attempts.days]
    BY <1>1 DEF StartAuto, portal
  <2>2. /\ attempts'.days = attempts.days \cup {tick.day} /\ attempts'.undone = attempts.undone
        /\ attempts'.twice = (attempts.twice \/ tick.day \in attempts.days)
    BY <1>a, <2>1
  <2>3. tick'.at = "dump"
    BY <2>1, Fields DEF TickRec
  <2>4. /\ ~attempts.twice /\ \A d \in attempts.days : d <= db.cfg.stamp
        /\ tick.day \notin attempts.days /\ tick.day <= db.cfg.stamp
    BY <2>1, <2>2 DEF OnceOK
  <2> QED BY <2>1, <2>2, <2>3, <2>4
<1>2. CASE ~StartAuto
  <2>1. /\ ~attempts.undone /\ attempts'.days = attempts.days /\ attempts'.twice = attempts.twice
        /\ db'.cfg.stamp \in Nat /\ db.cfg.stamp <= db'.cfg.stamp
    BY <1>2, StampRises
  <2>2. /\ ~attempts.twice /\ \A d \in attempts.days : d <= db.cfg.stamp
        /\ tick.at \in {"stamp", "write", "start"} => tick.day \notin attempts.days
        /\ tick.at = "start" => tick.day <= db.cfg.stamp
    BY <2>1 DEF OnceOK
  <2>3. \A d \in attempts'.days : d <= db'.cfg.stamp
    BY <1>a, <2>1, <2>2
  <2>4. CASE tick'.at \in {"none", "dump", "prune", "unlink"}
    BY <2>1, <2>2, <2>3, <2>4
  <2>5. CASE TickStarts /\ tick'.at = "stamp" /\ tick'.day = Today
    <3>1. tick.at = "none" /\ db.cfg.stamp # Today
      BY <2>5 DEF TickStarts, Due
    <3>2. db.cfg.stamp <= Today
      BY <3>1 DEF StampsOK, Cap
    <3>3. Today \in Nat
      BY Fields
    <3>4. Today \notin attempts.days
      BY <1>a, <2>2, <3>1, <3>2, <3>3
    <3> QED BY <2>1, <2>2, <2>3, <2>5, <3>4
  <2>6. CASE tick'.day = tick.day /\ tick'.at = tick.at
    BY <1>a, <2>1, <2>2, <2>3, <2>6
  <2>7. CASE tick'.day = tick.day /\ ReadStamp /\ tick'.at = "write"
    BY <2>1, <2>2, <2>3, <2>7 DEF ReadStamp
  <2>8. CASE tick'.day = tick.day /\ WriteStamp /\ tick'.at = "start"
    <3>1. tick.at = "write" /\ db'.cfg = [tick.cfg EXCEPT !.stamp = tick.day] /\ tick.cfg \in Cfgs
      BY <2>8 DEF WriteStamp, FormOK, TypeOK
    <3>2. db'.cfg.stamp = tick.day
      BY <3>1 DEF Cfgs
    <3> QED BY <1>a, <2>1, <2>2, <2>3, <2>8, <3>1, <3>2
  <2> QED BY <2>4, <2>5, <2>6, <2>7, <2>8, TickMoves
<1> QED BY <1>1, <1>2

-----------------------------------------------------------------------------
(* The tree, step by step *)

\* Uses are only ever more.
LEMMA UsesRise ==
  ASSUME TypeOK, [Next]_vars
  PROVE  uses \in Nat /\ uses' \in Nat /\ uses <= uses'
<1>0. uses \in Nat
  BY Fields
<1>1. uses' = uses \/ uses' = uses + 1
  <2>1. ASSUME NEW c \in Chats, PortalStep(c) PROVE uses' = uses \/ uses' = uses + 1
    BY <2>1 DEF PortalStep, OpenChat, SaveBytes, PoolLists, RecordFile, DeleteChat, DeleteFile,
                WipeBytes, SandboxRemoves, PoolDrops
  <2>2. ASSUME NEW x \in Restorers, SwapStep(x) PROVE uses' = uses
    BY <2>2 DEF SwapStep, Extract, SetAside, PutInPlace, RemoveOld, Elsewhere
  <2>3. ASSUME ScheduleStep PROVE uses' = uses
    BY <2>3 DEF ScheduleStep, TickStarts, ReadStamp, WriteStamp, FailStamp, StartAuto, ListStale, Unlink,
                portal
  <2>4. ASSUME NEW r \in Callers, DumpStep(r) PROVE uses' = uses
    BY <2>4 DEF DumpStep, DumpFiles, Walk, Finish, FailDump, portal
  <2>5. ASSUME \/ UNCHANGED vars \/ Restart \/ Clock \/ SaveWrites
               \/ \E r \in Manuals : CreateBackupNow(r)
               \/ \E x \in Restorers : FailRestore(x) \/ Repopulate(x)
        PROVE  uses' = uses
    BY <2>5 DEF vars, Restart, Clock, CreateBackupNow, SaveWrites, FailRestore, Repopulate, portal
  <2>6. ASSUME SaveReads \/ \E a \in archives : DeleteBackup(a) \/ \E x \in Restorers : Decode(x, a)
        PROVE  uses' = uses + 1
    BY <2>6 DEF SaveReads, DeleteBackup, Decode
  <2> QED BY <2>1, <2>2, <2>3, <2>4, <2>5, <2>6, NextSteps
<1> QED BY <1>0, <1>1

\* A restore has its number from its beginning to its end.
LEMMA NumberStep ==
  ASSUME TypeOK, [Next]_vars, NEW x \in Restorers, restore'[x].at # "none"
  PROVE  \/ restore[x].at # "none" /\ restore'[x].no = restore[x].no
         \/ /\ restore'[x].no = uses + 1 /\ uses' = uses + 1
            /\ \A y \in Restorers \ {x} : restore'[y] = restore[y]
<1>1. CASE restore'[x] = restore[x] \/ restore'[x] = NoRestore
  BY <1>1, NothingIs
<1>2. ASSUME NEW X \in Sets, restore'[x] = Touched(x, X)
      PROVE  restore[x].at # "none" /\ restore'[x].no = restore[x].no
  BY <1>2, TouchedIs
<1>3. ASSUME NEW p \in Stages, restore[x].at # "none", restore'[x] = Now(x, p)
      PROVE  restore'[x].no = restore[x].no
  BY <1>3, NowIs
<1>4. ASSUME NEW a \in archives, Decode(x, a)
      PROVE  /\ restore'[x].no = uses + 1 /\ uses' = uses + 1
             /\ \A y \in Restorers \ {x} : restore'[y] = restore[y]
  BY <1>4, DecodeIs
<1> QED BY <1>1, <1>2, <1>3, <1>4, RestoreTyped DEF Moves

\* What is put in place was set aside by the same restore, and nobody else's
\* stage changes with it.
LEMMA StageStep ==
  ASSUME TypeOK, [Next]_vars, NEW x \in Restorers, restore'[x].at = "placed"
  PROVE  \/ restore[x].at = "placed" /\ restore'[x].no = restore[x].no
         \/ PutInPlace(x) /\ tree'.here
<1>0. restore \in [Restorers -> RestoreRec]
  BY DEF TypeOK
<1>1. CASE restore'[x] = restore[x] \/ restore'[x] = NoRestore
  BY <1>1, NothingIs
<1>2. ASSUME NEW X \in Sets, restore'[x] = Touched(x, X)
      PROVE  restore[x].at = "placed" /\ restore'[x].no = restore[x].no
  BY <1>2, TouchedIs
<1>3. ASSUME NEW a \in archives, Decode(x, a) PROVE FALSE
  BY <1>3, DecodeIs
<1>4. ASSUME NEW p \in Stages, restore'[x] = Now(x, p), restore'[x] # restore[x],
             \A X \in Sets : restore'[x] # Touched(x, X)
      PROVE  PutInPlace(x) /\ tree'.here
  <2>1. Now(x, p).at = "placed" /\ \A q \in Stages : Now(x, q).at = q
    BY <1>4, NowIs
  <2>2. ASSUME NEW y \in Restorers, OwnStep(y) PROVE y = x
    <3>1. Chats \in Sets
      BY DEF Sets
    <3> QED BY <1>4, <2>2, <3>1, OwnMoves
  <2>3. OwnStep(x)
    <3>1. \A c \in Chats : {c} \in Sets
      BY DEF Sets
    <3>2. ASSUME NEW c \in Chats, PortalStep(c) PROVE restore'[x] = Touched(x, {c})
      BY <3>2 DEF PortalStep, OpenChat, SaveBytes, PoolLists, RecordFile, DeleteChat, DeleteFile,
                  WipeBytes, SandboxRemoves, PoolDrops, Used, Touch
    <3>3. ASSUME NEW y \in Restorers, NEW a \in archives, Decode(y, a) PROVE FALSE
      BY <1>3, <1>4, <3>3, DecodeIs
    <3>4. ASSUME Restart PROVE FALSE
      <4>1. restore'[x] = NoRestore
        BY <3>4 DEF Restart
      <4> QED BY <4>1, NothingIs
    <3> QED BY <1>4, <2>2, <3>1, <3>2, <3>3, <3>4, Frames DEF OwnStep
  <2>4. CASE Repopulate(x)
    <3>1. restore'[x] = NoRestore \/ Proceed(x, Now(x, "extract"))
      BY <1>0, <2>4 DEF Repopulate
    <3>2. ASSUME Proceed(x, Now(x, "extract")) PROVE restore'[x].at = "extract"
      BY <3>2, NowIs, Proceeded DEF Stages
    <3> QED BY <3>1, <3>2, NothingIs
  <2>5. CASE Extract(x) \/ SetAside(x) \/ RemoveOld(x)
    <3>1. PICK q \in Stages \ {"placed"} : Proceed(x, Now(x, q))
      BY <2>5 DEF Extract, SetAside, RemoveOld, Stages
    <3>2. restore'[x].at = q
      BY <3>1, NowIs, Proceeded
    <3> QED BY <3>1, <3>2
  <2>6. CASE FailRestore(x)
    <3>1. restore'[x] = NoRestore
      BY <1>0, <2>6 DEF FailRestore
    <3> QED BY <3>1, NothingIs
  <2>7. CASE PutInPlace(x)
    <3>1. ASSUME Proceed(x, NoRestore) PROVE FALSE
      BY <3>1, Nothing, NothingIs, Proceeded
    <3> QED BY <2>7, <3>1 DEF PutInPlace
  <2> QED BY <2>3, <2>4, <2>5, <2>6, <2>7 DEF OwnStep, SwapStep
<1> QED BY <1>1, <1>2, <1>3, <1>4, RestoreTyped DEF Moves

\* Where there is no tree one is aside, whoever swaps.
LEMMA TreeStep ==
  ASSUME TypeOK, TreeOK, [Next]_vars
  PROVE  TreeOK'
<1>0. tree \in [here : BOOLEAN, has : Sets] /\ restore \in [Restorers -> RestoreRec]
  BY DEF TypeOK
<1>u. /\ uses \in Nat /\ uses' \in Nat /\ uses <= uses'
      /\ \A x \in Restorers : restore[x].no \in Nat
  BY UsesRise, Fields DEF Numbers
<1>1. ASSUME NEW x \in Restorers, restore'[x].at # "none" PROVE restore'[x].no <= uses'
  BY <1>1, <1>u, NumberStep DEF TreeOK
<1>2. ASSUME NEW x \in Restorers, NEW y \in Restorers, x # y,
             restore'[x].at # "none", restore'[y].at # "none"
      PROVE  restore'[x].no # restore'[y].no
  <2> DEFINE Same(z) == restore[z].at # "none" /\ restore'[z].no = restore[z].no
             New(z)  == /\ restore'[z].no = uses + 1
                        /\ \A w \in Restorers \ {z} : restore'[w] = restore[w]
  <2>1. (Same(x) \/ New(x)) /\ (Same(y) \/ New(y))
    BY <1>2, NumberStep
  <2>2. CASE Same(x) /\ Same(y)
    BY <1>2, <2>2 DEF TreeOK
  <2>3. CASE New(x)
    <3>1. restore'[y] = restore[y] /\ restore[y].no <= uses
      BY <1>2, <2>3 DEF TreeOK
    <3> QED BY <1>u, <2>3, <3>1
  <2>4. CASE New(y)
    <3>1. restore'[x] = restore[x] /\ restore[x].no <= uses
      BY <1>2, <2>4 DEF TreeOK
    <3> QED BY <1>u, <2>4, <3>1
  <2> QED BY <2>1, <2>2, <2>3, <2>4
<1>3. ASSUME ~tree'.here PROVE \E old \in aside' : Safe(old)'
  <2>1. ASSUME NEW x \in Restorers, restore'[x].at = "placed"
        PROVE  restore[x].at = "placed" /\ restore'[x].no = restore[x].no
    BY <1>3, <2>1, StageStep
  <2>2. ASSUME NEW old, Safe(old) PROVE Safe(old)'
    BY <2>1, <2>2 DEF Safe
  <2>3. ASSUME ~tree.here, aside \subseteq aside' PROVE \E old \in aside' : Safe(old)'
    BY <2>2, <2>3 DEF TreeOK
  <2>4. ASSUME NEW x \in Restorers, SetAside(x) PROVE \E old \in aside' : Safe(old)'
    <3>1. CASE ~tree.here
      BY <2>3, <2>4, <3>1 DEF SetAside
    <3>2. CASE tree.here
      <4> DEFINE old == [no |-> restore[x].no, has |-> tree.has]
      <4>1. old \in aside' /\ restore[x].at = "staged"
        BY <2>4, <3>2 DEF SetAside
      <4>2. ASSUME NEW y \in Restorers, restore[y].at = "placed" PROVE restore[y].no # restore[x].no
        BY <4>1, <4>2 DEF TreeOK
      <4>3. Safe(old)
        BY <4>2 DEF Safe
      <4> QED BY <2>2, <4>1, <4>3
    <3> QED BY <3>1, <3>2
  <2>5. ASSUME NEW x \in Restorers, RemoveOld(x) PROVE \E old \in aside' : Safe(old)'
    <3>1. ~tree.here /\ restore[x].at = "placed" /\ aside' = {old \in aside : old.no # restore[x].no}
      BY <1>3, <2>5 DEF RemoveOld
    <3>2. PICK old \in aside : Safe(old)
      BY <3>1 DEF TreeOK
    <3>3. old \in aside'
      BY <3>1, <3>2 DEF Safe
    <3> QED BY <2>2, <3>2, <3>3
  <2>6. ASSUME NEW x \in Restorers, Extract(x) \/ PutInPlace(x) PROVE ~tree.here /\ aside' = aside
    BY <1>3, <2>6 DEF Extract, PutInPlace
  <2>7. ASSUME NEW c \in Chats, PortalStep(c) PROVE ~tree.here /\ aside' = aside
    <3>1. /\ aside' = aside
          /\ \/ tree' = tree \/ tree' = [here |-> TRUE, has |-> tree.has \cup {c}]
             \/ tree' = [tree EXCEPT !.has = tree.has \ {c}]
      BY <2>7 DEF PortalStep, OpenChat, SaveBytes, PoolLists, RecordFile, DeleteChat, DeleteFile,
                  WipeBytes, SandboxRemoves, PoolDrops, Used
    <3> QED BY <1>0, <1>3, <3>1
  <2>8. CASE tree' = tree /\ aside' = aside
    BY <1>3, <2>3, <2>8
  <2> QED BY <2>3, <2>4, <2>5, <2>6, <2>7, <2>8, Frames DEF SwapStep
<1> QED BY <1>1, <1>2, <1>3 DEF TreeOK

-----------------------------------------------------------------------------
(* Dumps, step by step *)

\* What the dump of r and the chat c have to do with each other.
Row(c)     == c \in db.chats
File(c)    == c \in db.files
Bytes(c)   == c \in tree.has
Coming(c)  == c \in live.uploading
SameChat(c) == (Row(c)' = Row(c)) /\ (File(c)' = File(c)) /\ (Bytes(c)' = Bytes(c))
                 /\ (Coming(c)' = Coming(c))
SameRead(r) == /\ run'[r].at = run[r].at /\ run'[r].chats = run[r].chats
               /\ run'[r].files = run[r].files /\ run'[r].bytes = run[r].bytes

\* A dump stays right about the chats nobody touched since it began.
LEMMA SameDump ==
  ASSUME NEW r \in Callers, TypeOK, DumpOK(r), SameRead(r),
         run[r].at # 0 => /\ run[r].touched \subseteq run'[r].touched
                          /\ \A c \in Chats \ run'[r].touched : SameChat(c)
  PROVE  DumpOK(r)'
<1> SUFFICES ASSUME run'[r].at # 0, NEW c \in Chats \ run'[r].touched
             PROVE  /\ c \in db'.chats <=> c \in run'[r].chats
                    /\ c \in live'.uploading => c \in tree'.has
                    /\ c \in db'.files => c \in db'.chats /\ c \in tree'.has
                    /\ run'[r].at > 1 /\ c \in run'[r].files => c \in run'[r].chats /\ c \in tree'.has
                    /\ run'[r].at > 2 /\ c \in run'[r].files => c \in run'[r].bytes
  BY DEF DumpOK
<1>1. run[r].at # 0 /\ c \in Chats \ run[r].touched /\ SameChat(c)
  BY DEF SameRead
<1>2. /\ c \in db.chats <=> c \in run[r].chats
      /\ c \in live.uploading => c \in tree.has
      /\ c \in db.files => c \in db.chats /\ c \in tree.has
      /\ run[r].at > 1 /\ c \in run[r].files => c \in run[r].chats /\ c \in tree.has
      /\ run[r].at > 2 /\ c \in run[r].files => c \in run[r].bytes
  BY <1>1 DEF DumpOK
<1> QED BY <1>1, <1>2 DEF SameChat, SameRead, Row, File, Bytes, Coming

\* The rows a step of the portal leaves alone.
LEMMA OthersKept ==
  ASSUME TypeOK, NEW c \in Chats, PortalStep(c), NEW d \in Chats, d # c
  PROVE  SameChat(d)
<1>0. /\ db \in [chats : Sets, files : Sets, cfg : Cfgs]
      /\ tree \in [here : BOOLEAN, has : Sets]
      /\ live \in [opened : Sets, uploading : Sets, wiping : Sets]
  BY DEF TypeOK
<1> USE DEF SameChat, Row, File, Bytes, Coming
<1>1. CASE OpenChat(c)
  BY <1>0, <1>1 DEF OpenChat
<1>2. CASE SaveBytes(c)
  BY <1>0, <1>2 DEF SaveBytes
<1>3. CASE RecordFile(c)
  BY <1>0, <1>3 DEF RecordFile
<1>4. CASE DeleteChat(c)
  BY <1>0, <1>4 DEF DeleteChat
<1>5. CASE WipeBytes(c)
  BY <1>0, <1>5 DEF WipeBytes
<1>6. CASE PoolLists(c)
  BY <1>0, <1>6 DEF PoolLists
<1>7. CASE DeleteFile(c)
  BY <1>0, <1>7 DEF DeleteFile
<1>8. CASE SandboxRemoves(c)
  BY <1>0, <1>8 DEF SandboxRemoves
<1>9. CASE PoolDrops(c)
  BY <1>0, <1>9 DEF PoolDrops
<1> QED BY <1>1, <1>2, <1>3, <1>4, <1>5, <1>6, <1>7, <1>8, <1>9 DEF PortalStep

\* A chat somebody uses is one the dump makes no claim about.
LEMMA SoundPortal ==
  ASSUME TypeOK, NEW r \in Callers, DumpOK(r), NEW c \in Chats, PortalStep(c)
  PROVE  DumpOK(r)'
<1>0. /\ db \in [chats : Sets, files : Sets, cfg : Cfgs]
      /\ tree \in [here : BOOLEAN, has : Sets]
      /\ live \in [opened : Sets, uploading : Sets, wiping : Sets]
      /\ {c} \in Sets
  BY DEF TypeOK, Sets
<1>1. CASE Disturb({c})
  <2>1. SameRead(r) /\ (run[r].at # 0 => run'[r].touched = run[r].touched \cup {c})
    BY <1>0, <1>1, Disturbed DEF SameRead
  <2>2. run[r].at # 0 => \A d \in Chats \ run'[r].touched : SameChat(d)
    BY <2>1, OthersKept
  <2> QED BY <2>1, <2>2, SameDump
<1> DEFINE Read(R, d) ==
      /\ d \in db'.chats <=> d \in R.chats
      /\ d \in live'.uploading => d \in tree'.has
      /\ d \in db'.files => d \in db'.chats /\ d \in tree'.has
      /\ R.at > 1 /\ d \in R.files => d \in R.chats /\ d \in tree'.has
      /\ R.at > 2 /\ d \in R.files => d \in R.bytes
<1>2. ASSUME \/ SaveBytes(c) \/ PoolLists(c) \/ RecordFile(c) \/ DeleteFile(c) \/ PoolDrops(c)
      PROVE  DumpOK(r)'
  <2>1. run' = run
    BY <1>2 DEF SaveBytes, PoolLists, RecordFile, DeleteFile, PoolDrops
  <2>2. SUFFICES ASSUME run[r].at # 0, NEW d \in Chats \ run[r].touched PROVE Read(run[r], d)
    BY <2>1 DEF DumpOK
  <2>3. /\ d \in db.chats <=> d \in run[r].chats
        /\ d \in live.uploading => d \in tree.has
        /\ d \in db.files => d \in db.chats /\ d \in tree.has
        /\ run[r].at > 1 /\ d \in run[r].files => d \in run[r].chats /\ d \in tree.has
        /\ run[r].at > 2 /\ d \in run[r].files => d \in run[r].bytes
    BY <2>2 DEF DumpOK
  <2>4. CASE d # c
    <3>1. SameChat(d)
      BY <1>2, <2>4, OthersKept DEF PortalStep
    <3> QED BY <2>3, <3>1 DEF SameChat, Row, File, Bytes, Coming
  <2>5. CASE d = c /\ SaveBytes(c)
    <3>1. db' = db /\ c \in tree'.has /\ c \in db.chats /\ c \notin db.files
      BY <1>0, <2>5 DEF SaveBytes
    <3> QED BY <2>3, <2>5, <3>1
  <2>6. CASE d = c /\ RecordFile(c)
    <3>1. /\ tree' = tree /\ c \in live.uploading
          /\ db'.chats = db.chats /\ (c \in db'.files => c \in db.chats \/ c \in db.files)
      BY <1>0, <2>6 DEF RecordFile
    <3> QED BY <2>3, <2>6, <3>1
  <2>7. CASE d = c /\ PoolLists(c)
    <3>1. tree' = tree /\ db' = db /\ c \in tree.has
      BY <2>7 DEF PoolLists
    <3> QED BY <2>3, <2>7, <3>1
  <2>8. CASE d = c /\ (DeleteFile(c) \/ PoolDrops(c))
    <3>1. /\ tree' = tree /\ live'.uploading = live.uploading
          /\ db'.chats = db.chats /\ c \notin db'.files
      BY <1>0, <2>8 DEF DeleteFile, PoolDrops
    <3> QED BY <2>3, <2>8, <3>1
  <2> QED BY <1>2, <2>4, <2>5, <2>6, <2>7, <2>8
<1> QED BY <1>1, <1>2 DEF PortalStep, OpenChat, DeleteChat, WipeBytes, SandboxRemoves

\* Every step keeps a dump right about the chats nobody touched.
LEMMA SoundStep ==
  ASSUME TypeOK, NEW r \in Callers, DumpOK(r), [Next]_vars
  PROVE  DumpOK(r)'
<1>0. /\ run \in [Callers -> RunRec] /\ NoRun.at = 0
      /\ db \in [chats : Sets, files : Sets, cfg : Cfgs] /\ Chats \in Sets
  BY NothingIs DEF TypeOK, Sets
\* Every chat is as it was, and so is the dump.
<1>1. ASSUME run'[r] = run[r], db' = db, tree' = tree, live' = live PROVE DumpOK(r)'
  BY <1>1 DEF DumpOK
<1>2. ASSUME run'[r].at = 0 PROVE DumpOK(r)'
  BY <1>2 DEF DumpOK
<1>3. ASSUME NEW x \in Restorers, Repopulate(x) \/ SwapStep(x) PROVE DumpOK(r)'
  <2>1. (run' = run /\ db' = db /\ tree' = tree /\ live' = live) \/ Disturb(Chats)
    BY <1>3 DEF Repopulate, SwapStep, Extract, SetAside, PutInPlace, RemoveOld, Elsewhere
  <2>2. CASE Disturb(Chats)
    <3>1. SameRead(r) /\ (run[r].at # 0 => run'[r].touched = run[r].touched \cup Chats)
      BY <1>0, <2>2, Disturbed DEF SameRead
    <3> QED BY <3>1, SameDump
  <2> QED BY <1>1, <2>1, <2>2
<1>4. ASSUME WriteStamp \/ SaveWrites PROVE DumpOK(r)'
  <2>1. /\ run' = run /\ db'.chats = db.chats /\ db'.files = db.files
        /\ tree' = tree /\ live' = live
    BY <1>0, <1>4 DEF WriteStamp, SaveWrites
  <2> QED BY <2>1 DEF DumpOK
<1>5. ASSUME StartAuto \/ \E q \in Manuals : CreateBackupNow(q) PROVE DumpOK(r)'
  <2>1. /\ \E q \in Callers : run' = [run EXCEPT ![q] = BegunRun]
        /\ db' = db /\ tree' = tree /\ live' = live
    BY <1>5 DEF CreateBackupNow, StartAuto, BeginDump, Callers, BegunRun, portal
  <2>2. BegunRun.at = 1 /\ BegunRun.chats = db.chats /\ BegunRun.touched = Broken
    BY BegunIs
  <2> HIDE DEF BegunRun
  <2>3. CASE run'[r] = BegunRun
    <3>1. \A c \in Chats \ Broken :
            /\ c \in live.uploading => c \in tree.has
            /\ c \in db.files => c \in db.chats /\ c \in tree.has
      BY DEF Broken
    <3> QED BY <2>1, <2>2, <2>3, <3>1 DEF DumpOK
  <2> QED BY <1>0, <1>1, <2>1, <2>3
<1>6. ASSUME NEW q \in Callers, DumpFiles(q) \/ Walk(q) PROVE DumpOK(r)'
  <2>1. db' = db /\ tree' = tree /\ live' = live
    BY <1>6 DEF DumpFiles, Walk, portal
  <2>2. CASE q # r
    <3>1. run'[r] = run[r]
      BY <1>6, <2>2, DumpsRead
    <3> QED BY <1>1, <2>1, <3>1
  <2>3. CASE q = r /\ DumpFiles(r)
    <3>1. /\ run[r].at = 1 /\ run'[r].at = 2 /\ run'[r].chats = run[r].chats
          /\ run'[r].touched = run[r].touched /\ run'[r].files = db.files
      BY <2>3, DumpsRead
    <3> QED BY <2>1, <3>1 DEF DumpOK
  <2>4. CASE q = r /\ Walk(r)
    <3>1. /\ run[r].at = 2 /\ run'[r].at = 3 /\ run'[r].chats = run[r].chats
          /\ run'[r].touched = run[r].touched /\ run'[r].files = run[r].files
          /\ run'[r].bytes = tree.has
      BY <2>4, DumpsRead
    <3> QED BY <2>1, <3>1 DEF DumpOK
  <2> QED BY <1>6, <2>2, <2>3, <2>4
<1>7. ASSUME NEW q \in Callers, Finish(q) \/ FailDump(q) PROVE DumpOK(r)'
  <2>1. run' = [run EXCEPT ![q] = NoRun] /\ db' = db /\ tree' = tree /\ live' = live
    BY <1>7 DEF Finish, FailDump, Returned, portal
  <2>2. run'[r] = run[r] \/ run'[r] = NoRun
    BY <1>0, <2>1
  <2> QED BY <1>0, <1>1, <1>2, <2>1, <2>2
<1>8. ASSUME Restart PROVE run'[r].at = 0
  BY <1>0, <1>8 DEF Restart
<1>9. ASSUME \/ UNCHANGED vars \/ Clock \/ SaveReads \/ \E x \in Restorers : FailRestore(x)
             \/ \E a \in archives : DeleteBackup(a) \/ \E x \in Restorers : Decode(x, a)
      PROVE  run' = run /\ db' = db /\ tree' = tree /\ live' = live
  BY <1>9 DEF vars, Clock, SaveReads, FailRestore, DeleteBackup, Decode, portal
<1>10. ASSUME TickStarts \/ ReadStamp \/ FailStamp \/ ListStale \/ Unlink
       PROVE  run' = run /\ db' = db /\ tree' = tree /\ live' = live
  BY <1>10 DEF TickStarts, ReadStamp, FailStamp, ListStale, Unlink, portal
<1>11. ASSUME NEW c \in Chats, PortalStep(c) PROVE DumpOK(r)'
  BY <1>11, SoundPortal
<1> QED BY <1>1, <1>2, <1>3, <1>4, <1>5, <1>6, <1>7, <1>8, <1>9, <1>10, <1>11, NextSteps
        DEF DumpStep, ScheduleStep

-----------------------------------------------------------------------------
(* A restore, step by step *)

\* A restore that everybody's chats are touched beside makes no claim.
LEMMA AllTouched ==
  ASSUME TypeOK, NEW x \in Restorers, restore'[x] = Touched(x, Chats)
  PROVE  RestoreOK(x)'
<1>1. /\ restore'[x].at = restore[x].at
      /\ restore[x].at # "none" => restore'[x].touched = restore[x].touched \cup Chats
  BY TouchedIs DEF Sets
<1> QED BY <1>1 DEF RestoreOK

\* A restore puts back what its archive says of the chats nobody touched ...
LEMMA OwnPutBack ==
  ASSUME TypeOK, NEW x \in Restorers, RestoreOK(x), OwnStep(x)
  PROVE  RestoreOK(x)'
<1>0. restore \in [Restorers -> RestoreRec] /\ NoRestore \in RestoreRec /\ NoRestore.at = "none"
  BY Nothing, NothingIs DEF TypeOK
<1>m. ASSUME NEW p \in Stages, Proceed(x, Now(x, p))
      PROVE  /\ restore'[x].at = p /\ restore'[x].from = restore[x].from
             /\ restore'[x].touched = restore[x].touched
  BY <1>m, NowIs, Proceeded
<1>1. ASSUME restore'[x].at = "none" PROVE RestoreOK(x)'
  BY <1>1 DEF RestoreOK
<1>2. ASSUME Proceed(x, NoRestore) PROVE RestoreOK(x)'
  BY <1>0, <1>1, <1>2, Proceeded
<1>3. CASE Repopulate(x)
  <2>1. CASE Fits(restore[x].from)
    <3>1. /\ db'.chats = restore[x].from.chats /\ db'.files = restore[x].from.files
          /\ Proceed(x, Now(x, "extract"))
      BY <1>3, <2>1 DEF Repopulate
    <3>2. /\ restore'[x].at = "extract" /\ restore'[x].from = restore[x].from
          /\ restore'[x].touched = restore[x].touched
      BY <1>m, <3>1 DEF Stages
    <3> QED BY <3>1, <3>2 DEF RestoreOK
  <2>2. CASE ~Fits(restore[x].from)
    <3>1. restore'[x] = NoRestore
      BY <1>0, <1>3, <2>2 DEF Repopulate
    <3> QED BY <1>0, <1>1, <3>1
  <2> QED BY <2>1, <2>2
<1>4. CASE Extract(x) \/ SetAside(x)
  <2>1. /\ restore[x].at \in {"extract", "staged"} /\ db' = db
        /\ Proceed(x, Now(x, "staged")) \/ Proceed(x, Now(x, "aside"))
    BY <1>4 DEF Extract, SetAside, Elsewhere
  <2>2. /\ restore'[x].at \in {"staged", "aside"} /\ restore'[x].from = restore[x].from
        /\ restore'[x].touched = restore[x].touched
    BY <1>m, <2>1 DEF Stages
  <2> QED BY <2>1, <2>2 DEF RestoreOK
<1>5. CASE PutInPlace(x)
  <2>1. ASSUME Proceed(x, Now(x, "placed")), tree'.has = restore[x].from.bytes PROVE RestoreOK(x)'
    <3>1. restore[x].at = "aside" /\ db' = db
      BY <1>5 DEF PutInPlace, Elsewhere
    <3>2. /\ restore'[x].at = "placed" /\ restore'[x].from = restore[x].from
          /\ restore'[x].touched = restore[x].touched
      BY <1>m, <2>1 DEF Stages
    <3> QED BY <2>1, <3>1, <3>2 DEF RestoreOK
  <2>2. \/ Proceed(x, Now(x, "placed")) /\ tree'.has = restore[x].from.bytes
        \/ Proceed(x, NoRestore)
    BY <1>5 DEF PutInPlace
  <2> QED BY <1>2, <2>1, <2>2
<1>6. CASE RemoveOld(x)
  <2>1. restore[x].at = "placed" /\ Proceed(x, Now(x, "done")) /\ tree' = tree /\ db' = db
    BY <1>6 DEF RemoveOld, Elsewhere
  <2>2. /\ restore'[x].at = "done" /\ restore'[x].from = restore[x].from
        /\ restore'[x].touched = restore[x].touched
    BY <1>m, <2>1 DEF Stages
  <2> QED BY <2>1, <2>2 DEF RestoreOK
<1>7. CASE FailRestore(x)
  <2>1. restore'[x] = NoRestore
    BY <1>0, <1>7 DEF FailRestore
  <2> QED BY <1>0, <1>1, <2>1
<1> QED BY <1>3, <1>4, <1>5, <1>6, <1>7 DEF OwnStep, SwapStep

\* ... whatever else happens.
LEMMA PutBackStep ==
  ASSUME TypeOK, NEW x \in Restorers, RestoreOK(x), [Next]_vars
  PROVE  RestoreOK(x)'
<1>0. /\ restore \in [Restorers -> RestoreRec] /\ NoRestore.at = "none"
      /\ db \in [chats : Sets, files : Sets, cfg : Cfgs]
  BY NothingIs DEF TypeOK
<1>1. ASSUME restore'[x] = restore[x], db'.chats = db.chats, db'.files = db.files, tree' = tree
      PROVE  RestoreOK(x)'
  BY <1>1 DEF RestoreOK
<1>2. ASSUME NEW c \in Chats, PortalStep(c) PROVE RestoreOK(x)'
  <2>1. restore'[x] = Touched(x, {c}) /\ {c} \in Sets
    BY <1>2 DEF PortalStep, OpenChat, SaveBytes, PoolLists, RecordFile, DeleteChat, DeleteFile,
                WipeBytes, SandboxRemoves, PoolDrops, Used, Touch, Sets
  <2>2. /\ restore'[x].at = restore[x].at /\ restore'[x].from = restore[x].from
        /\ restore[x].at # "none" => restore'[x].touched = restore[x].touched \cup {c}
    BY <2>1, TouchedIs
  <2>3. \A d \in Chats \ {c} : SameChat(d)
    BY <1>2, OthersKept
  <2> QED BY <2>2, <2>3 DEF RestoreOK, SameChat, Row, File, Bytes
<1>3. ASSUME NEW y \in Restorers, NEW a \in archives, Decode(y, a) PROVE RestoreOK(x)'
  <2>1. db' = db /\ tree' = tree
    BY <1>3 DEF Decode
  <2>2. CASE y = x
    BY <1>3, <2>2, DecodeIs DEF RestoreOK
  <2>3. CASE y # x
    BY <1>1, <1>3, <2>1, <2>3, DecodeIs
  <2> QED BY <2>2, <2>3
<1>4. ASSUME NEW y \in Restorers, OwnStep(y) PROVE RestoreOK(x)'
  <2>1. CASE y = x
    BY <1>4, <2>1, OwnPutBack
  <2>2. CASE y # x
    BY <1>1, <1>4, <2>2, OwnMoves, AllTouched
  <2> QED BY <2>1, <2>2
<1>5. ASSUME Restart PROVE RestoreOK(x)'
  <2>1. restore'[x] = NoRestore
    BY <1>5 DEF Restart
  <2> QED BY <1>0, <2>1 DEF RestoreOK
<1>6. ASSUME WriteStamp \/ SaveWrites
       PROVE  restore' = restore /\ db'.chats = db.chats /\ db'.files = db.files /\ tree' = tree
  BY <1>0, <1>6 DEF WriteStamp, SaveWrites
<1> QED BY <1>1, <1>2, <1>3, <1>4, <1>5, <1>6, Frames DEF OwnStep

-----------------------------------------------------------------------------
(* Archives, step by step *)

\* An archive that is finished has what its dump was right about.
LEMMA CohereStep ==
  ASSUME TypeOK, FormOK, ArchivesCohere, \A r \in Callers : DumpOK(r), [Next]_vars
  PROVE  ArchivesCohere'
<1>1. ASSUME archives' \subseteq archives PROVE ArchivesCohere'
  BY <1>1 DEF ArchivesCohere
<1>2. ASSUME NEW r \in Callers, Finish(r) PROVE ArchivesCohere'
  <2>1. PICK a \in Archive :
          /\ a.chats = run[r].chats /\ a.files = run[r].files /\ a.bytes = run[r].bytes
          /\ a.touched = run[r].touched /\ archives' = archives \cup {a}
    BY <1>2, ArchiveAdded
  <2>2. run[r].at = 3
    BY <1>2, OrderIs DEF Finish, Dumped
  <2>3. a.files \in Sets
    BY <2>1 DEF Archive
  <2>4. \A c \in a.files \ a.touched : c \in a.chats /\ c \in a.bytes
    BY <2>1, <2>2, <2>3 DEF DumpOK, Sets
  <2> QED BY <2>1, <2>4 DEF ArchivesCohere
<1>3. ASSUME Unlink \/ \E a \in archives : DeleteBackup(a) PROVE archives' \subseteq archives
  BY <1>3 DEF Unlink, DeleteBackup
<1> QED BY <1>1, <1>2, <1>3, Frames

-----------------------------------------------------------------------------
(* Pruning *)

\* A set of numbers up to a bound has a largest.
LEMMA LargestOf ==
  ASSUME NEW S \in Lists, S # {}
  PROVE  \E n \in S : \A m \in S : m <= n
<1>0. MaxArchives \in Nat /\ S \subseteq 1..MaxArchives
  BY Bounds DEF Lists
<1> DEFINE R == OpToRel(<, Nat)
           T == {MaxArchives - n : n \in S}
<1>1. IsWellFoundedOn(R, Nat)
  BY NatLessThanWellFounded
<1>2. \A m, n \in Nat : <<m, n>> \in R <=> m < n
  BY DEF OpToRel
<1> HIDE DEF R
<1>3. T \subseteq Nat /\ T # {}
  <2>1. \A n \in S : MaxArchives - n \in Nat
    BY <1>0
  <2> QED BY <2>1
<1>4. PICK t \in T : \A u \in T : ~(<<u, t>> \in R)
  BY <1>1, <1>3, WFMin
<1>5. PICK n \in S : t = MaxArchives - n
  BY <1>4
<1>6. ASSUME NEW m \in S PROVE m <= n
  <2>1. MaxArchives - m \in T /\ MaxArchives - m \in Nat /\ t \in Nat
    BY <1>3, <1>4
  <2>2. ~(MaxArchives - m < t)
    BY <1>2, <1>4, <2>1
  <2> QED BY <1>0, <1>5, <2>2
<1> QED BY <1>6

\* ... and Max finds it.
LEMMA MaxIs ==
  ASSUME NEW S \in Lists, S # {}
  PROVE  Max(S) \in S
<1>1. \E n \in S : \A m \in S : n >= m
  <2>1. PICK n \in S : \A m \in S : m <= n
    BY LargestOf
  <2>2. \A m \in S : m \in Int /\ n \in Int
    BY Bounds DEF Lists
  <2> QED BY <2>1, <2>2
<1> QED BY <1>1 DEF Max

\* More of a set is no fewer.
LEMMA NoFewer ==
  ASSUME NEW S, NEW T, IsFiniteSet(T), S \subseteq T, NEW k \in Nat, Cardinality(S) >= k
  PROVE  Cardinality(T) >= k
<1>1. IsFiniteSet(S) /\ Cardinality(S) <= Cardinality(T)
  BY FS_Subset
<1>2. Cardinality(S) \in Nat /\ Cardinality(T) \in Nat
  BY <1>1, FS_CardinalityType
<1> QED BY <1>1, <1>2

\* What is listed as stale has enough newer ones that are not listed.
LEMMA ListedIsStale ==
  ASSUME TypeOK, PruneOK, NEW a \in archives \ Newest(tick.keep)
  PROVE  Cardinality({b \in Newest(tick.keep) : b.no > a.no}) >= tick.keep
<1>1. tick.keep \in Nat /\ IsFiniteSet(archives) /\ \A b \in archives : b.no \in 1..MaxArchives
  BY Fields DEF PruneOK, TypeOK, Archive
<1> DEFINE k == tick.keep
           Stale == archives \ Newest(k)
           S == {b.no : b \in Stale}
<1>2. S \in Lists /\ S # {}
  BY <1>1 DEF Lists
<1>3. PICK n \in S : \A m \in S : m <= n
  <2> HIDE DEF S
  <2> QED BY <1>2, LargestOf
<1>4. PICK s \in Stale : s.no = n
  BY <1>3
<1> DEFINE N == {b \in archives : b.no > s.no}
<1>5. Cardinality(N) >= k
  <2>1. IsFiniteSet(N)
    BY <1>1, FS_Subset
  <2>2. Cardinality(N) \in Nat
    BY <2>1, FS_CardinalityType
  <2>3. ~(Cardinality(N) < k)
    BY <1>4 DEF Newest
  <2> HIDE DEF N, k
  <2> QED BY <1>1, <2>2, <2>3 DEF k
<1> DEFINE M == {b \in Newest(k) : b.no > a.no}
<1>6. N \subseteq M
  <2> SUFFICES ASSUME NEW b \in archives, b.no > s.no PROVE b \in Newest(k) /\ b.no > a.no
    OBVIOUS
  <2>1. a.no \in S /\ a.no <= s.no
    BY <1>3, <1>4
  <2>2. b.no \notin S
    <3>1. b.no \in Nat /\ s.no \in Nat /\ n = s.no
      BY <1>1, <1>4
    <3> QED BY <1>3, <3>1
  <2>3. b \in Newest(k)
    BY <2>2
  <2>4. b.no \in Nat /\ s.no \in Nat /\ a.no \in Nat
    BY <1>1, <1>4
  <2> QED BY <2>1, <2>3, <2>4
<1>7. IsFiniteSet(M)
  BY <1>1, FS_Subset DEF Newest
<1> HIDE DEF N, M
<1>8. Cardinality(M) >= k
  BY <1>1, <1>5, <1>6, <1>7, NoFewer
<1> QED BY <1>8 DEF M

\* The schedule deletes archives only beyond the newest it keeps.
LEMMA PruneStep ==
  ASSUME TypeOK, FormOK, PruneOK, [Next]_vars
  PROVE  PruneOK'
<1>0. /\ IsFiniteSet(archives) /\ made \in Nat /\ tick.keep \in Nat /\ NoTick.at = "none"
      /\ \A a \in archives : a.no <= made /\ a.no \in Nat
      /\ \A a, b \in archives : a.no = b.no => a = b
  BY Fields, NothingIs, Bounds DEF PruneOK, TypeOK, Archive
<1>t. tick \in [at : Phases, keep : Nat, day : Stamps, cfg : AnyCfg, stale : Lists, cleared : BOOLEAN]
  BY Fields DEF TickRec, Phases, AnyCfg, Lists
\* The list goes on as it is.
<1>1. ASSUME archives' \subseteq archives, made' = made, tick'.at # "unlink" PROVE PruneOK'
  <2>1. IsFiniteSet(archives')
    BY <1>0, <1>1, FS_Subset
  <2> QED BY <1>0, <1>1, <2>1 DEF PruneOK
<1>2. ASSUME archives' = archives, made' = made, tick' = tick PROVE PruneOK'
  BY <1>2 DEF PruneOK, Kept
<1>3. ASSUME NEW r \in Callers, Finish(r) PROVE PruneOK'
  <2>1. PICK a \in Archive : a.no = made + 1 /\ archives' = archives \cup {a} /\ made' = made + 1
    BY <1>3, ArchiveAdded
  <2>2. IsFiniteSet(archives')
    BY <1>0, <2>1, FS_AddElement
  <2>3. \A b \in archives' : b.no <= made'
    BY <1>0, <2>1
  <2>4. \A b, c \in archives' : b.no = c.no => b = c
    BY <1>0, <2>1
  <2>5. CASE tick'.at # "unlink"
    BY <2>2, <2>3, <2>4, <2>5 DEF PruneOK
  <2>6. CASE tick'.at = "unlink"
    <3>1. tick' = tick
      <4>1. tick' = tick \/ tick' = NoTick \/ tick' = [tick EXCEPT !.at = "prune"]
        BY <1>3 DEF Finish, Returned
      <4> QED BY <1>0, <1>t, <2>6, <4>1
    <3>2. tick.stale # {} /\ \A n \in tick.stale : n \in Nat /\ n <= made
      BY <2>6, <3>1, Fields, Bounds DEF PruneOK, Lists
    <3>3. \A n \in tick.stale : n <= made'
      BY <1>0, <2>1, <3>2
    <3>4. ASSUME ~tick.cleared, NEW n \in tick.stale PROVE Cardinality(Kept(n)') >= tick.keep
      <4>1. Cardinality(Kept(n)) >= tick.keep
        BY <2>6, <3>1, <3>4 DEF PruneOK
      <4>2. Kept(n) \subseteq Kept(n)'
        BY <2>1, <3>1 DEF Kept
      <4>3. IsFiniteSet(Kept(n)')
        BY <2>2, FS_Subset DEF Kept
      <4> QED BY <1>0, <4>1, <4>2, <4>3, NoFewer
    <3> QED BY <2>2, <2>3, <2>4, <3>1, <3>2, <3>3, <3>4 DEF PruneOK
  <2> QED BY <2>5, <2>6
<1>4. ASSUME NEW a \in archives, DeleteBackup(a) PROVE PruneOK'
  <2>1. archives' \subseteq archives /\ made' = made /\ tick' = [tick EXCEPT !.cleared = TRUE]
    BY <1>4 DEF DeleteBackup
  <2>2. tick'.at = tick.at /\ tick'.stale = tick.stale /\ tick'.cleared
    BY <1>t, <2>1
  <2>3. IsFiniteSet(archives')
    BY <1>0, <2>1, FS_Subset
  <2> QED BY <1>0, <2>1, <2>2, <2>3 DEF PruneOK
<1>5. ASSUME ListStale PROVE PruneOK'
  <2> DEFINE l == {a.no : a \in archives \ Newest(tick.keep)}
  <2>1. /\ archives' = archives /\ made' = made
        /\ \/ tick' = NoTick
           \/ /\ archives \ Newest(tick.keep) # {}
              /\ tick' = [tick EXCEPT !.at = "unlink", !.stale = l, !.cleared = FALSE]
    BY <1>5 DEF ListStale
  <2>2. CASE tick' = NoTick
    BY <1>0, <1>1, <2>1, <2>2
  <2>3. CASE tick' # NoTick
    <3>0. l # {} /\ \A n \in l : n <= made
      BY <1>0, <2>1, <2>3
    <3>1. /\ \A a \in archives : a.no \in l => a \notin Newest(tick.keep)
          /\ Newest(tick.keep) \subseteq archives
      BY <1>0 DEF Newest
    <3>2. \A n \in l : \E a \in archives \ Newest(tick.keep) : a.no = n
      OBVIOUS
    <3> DEFINE S == l
    <3>3. tick' = [tick EXCEPT !.at = "unlink", !.stale = S, !.cleared = FALSE]
      BY <2>1, <2>3
    <3> HIDE DEF l, S
    <3>4. tick'.at = "unlink" /\ tick'.stale = S /\ ~tick'.cleared /\ tick'.keep = tick.keep
      BY <1>t, <3>3
    <3>5. ASSUME NEW n \in S PROVE Cardinality(Kept(n)') >= tick.keep
      <4>1. PICK a \in archives \ Newest(tick.keep) : a.no = n
        BY <3>2, <3>5 DEF S
      <4>2. {b \in Newest(tick.keep) : b.no > a.no} \subseteq Kept(n)'
        BY <2>1, <3>1, <3>4, <4>1 DEF Kept, S
      <4>3. IsFiniteSet(Kept(n)')
        BY <1>0, <2>1, FS_Subset DEF Kept
      <4>4. Cardinality({b \in Newest(tick.keep) : b.no > a.no}) >= tick.keep
        BY ListedIsStale
      <4> DEFINE N == {b \in Newest(tick.keep) : b.no > a.no}
                 M == Kept(n)'
      <4>5. N \subseteq M /\ IsFiniteSet(M) /\ Cardinality(N) >= tick.keep
        BY <4>2, <4>3, <4>4
      <4> HIDE DEF N, M
      <4>6. Cardinality(M) >= tick.keep
        BY <1>0, <4>5, NoFewer
      <4> QED BY <4>6 DEF M
    <3> QED BY <1>0, <2>1, <3>0, <3>4, <3>5 DEF PruneOK, S
  <2> QED BY <2>2, <2>3
<1>6. ASSUME Unlink PROVE PruneOK'
  <2> DEFINE m == Max(tick.stale)
             l == tick.stale \ {m}
  <2>1. /\ tick.at = "unlink" /\ made' = made /\ archives' = {a \in archives : a.no # m}
        /\ \/ tick' = NoTick
           \/ tick.stale # {m} /\ tick' = [tick EXCEPT !.stale = l]
    BY <1>6 DEF Unlink
  <2>2. tick.stale \in Lists /\ tick.stale # {} /\ \A n \in tick.stale : n <= made
    BY <2>1, Fields DEF PruneOK
  <2>3. m \in tick.stale
    BY <2>2, MaxIs
  <2> HIDE DEF m
  <2>4. archives' \subseteq archives /\ (l # {} \/ tick' = NoTick)
    BY <2>1, <2>2
  <2>5. CASE tick' = NoTick
    BY <1>0, <1>1, <2>1, <2>5
  <2>6. CASE tick' # NoTick
    <3>0. IsFiniteSet(archives')
      BY <1>0, <2>4, FS_Subset
    <3> DEFINE S == l
    <3>1. tick' = [tick EXCEPT !.stale = S]
      BY <2>1, <2>6
    <3>2. S # {} /\ S \subseteq tick.stale /\ \A n \in Nat : n \in S <=> n \in tick.stale /\ n # m
      BY <2>4, <2>6
    <3> HIDE DEF S, l
    <3>3. tick'.at = "unlink" /\ tick'.stale = S /\ tick'.keep = tick.keep /\ tick'.cleared = tick.cleared
      BY <1>t, <2>1, <3>1
    <3>4. ASSUME ~tick.cleared, NEW n \in S PROVE Cardinality(Kept(n)') >= tick.keep
      <4>1. Cardinality(Kept(n)) >= tick.keep
        BY <2>1, <3>2, <3>4 DEF PruneOK
      <4>2. Kept(n)' = Kept(n)
        BY <1>0, <2>1, <2>3, <3>2, <3>3 DEF Kept
      <4> QED BY <4>1, <4>2
    <3> QED BY <1>0, <2>1, <2>2, <2>4, <2>6, <3>0, <3>2, <3>3, <3>4 DEF PruneOK
  <2> QED BY <2>5, <2>6
<1>7. ASSUME \/ TickStarts \/ ReadStamp \/ WriteStamp \/ FailStamp \/ StartAuto \/ Restart
             \/ \E r \in Callers : FailDump(r)
      PROVE  archives' \subseteq archives /\ made' = made /\ (tick'.at # "unlink" \/ tick' = tick)
  <2>1. archives' = archives /\ made' = made
    BY <1>7 DEF TickStarts, ReadStamp, WriteStamp, FailStamp, StartAuto, Restart, FailDump
  <2>2. \/ tick' = tick \/ tick' = NoTick \/ \E p \in Phases \ {"unlink"} : tick'.at = p
    <3>1. CASE TickStarts
      <4>1. tick' = [NoTick EXCEPT !.at = "stamp", !.keep = db.cfg.keep, !.day = Today]
        BY <3>1 DEF TickStarts
      <4>2. tick'.at = "stamp"
        BY <4>1 DEF NoTick
      <4> QED BY <4>2 DEF Phases
    <3>2. CASE ReadStamp \/ WriteStamp \/ StartAuto
      BY <1>t, <3>2 DEF ReadStamp, WriteStamp, StartAuto, Phases
    <3>3. CASE FailStamp \/ Restart
      BY <3>3 DEF FailStamp, Restart
    <3>4. ASSUME NEW r \in Callers, FailDump(r) PROVE tick' = tick \/ tick' = NoTick
      BY <3>4 DEF FailDump, Returned
    <3> QED BY <1>7, <3>1, <3>2, <3>3, <3>4
  <2> QED BY <1>0, <2>1, <2>2
<1>8. ASSUME NEW r \in Callers, FailDump(r) PROVE archives' = archives
  BY <1>8 DEF FailDump, portal
<1>9. ASSUME TickStarts \/ ReadStamp \/ WriteStamp \/ FailStamp \/ StartAuto \/ Restart
      PROVE  archives' = archives
  BY <1>9 DEF TickStarts, ReadStamp, WriteStamp, FailStamp, StartAuto, Restart, portal
<1> QED BY <1>1, <1>2, <1>3, <1>4, <1>5, <1>6, <1>7, <1>8, <1>9, Frames DEF ScheduleStep

-----------------------------------------------------------------------------
(* The theorems *)

\* A portal that starts has no archive, no dump and nothing under way.
LEMMA InitOK ==
  ASSUME Init
  PROVE  StoreInv
<1>1. PICK keep \in Keeps, chats \in {{}, Chats}, files \in SUBSET Chats :
        /\ db = [chats |-> chats, files |-> files,
                 cfg |-> [on |-> TRUE, keep |-> keep, stamp |-> 0]]
        /\ tree = [here |-> TRUE, has |-> files]
        /\ live = [Closed EXCEPT !.opened = chats]
  BY DEF Init
<1>2. /\ clock = 2 /\ aside = {} /\ archives = {} /\ made = 0
      /\ run = [c \in Callers |-> NoRun]
      /\ tick = NoTick /\ save = NoSave /\ restore = [x \in Restorers |-> NoRestore]
      /\ attempts = [days |-> {}, undone |-> FALSE, twice |-> FALSE]
      /\ uses = 0 /\ faults = 0
  BY DEF Init
<1>3. chats \in Sets /\ files \in Sets /\ {} \in Sets /\ 0 \in Stamps
  BY Bounds DEF Sets
<1>4. /\ db \in [chats : Sets, files : Sets, cfg : Cfgs]
      /\ tree \in [here : BOOLEAN, has : Sets]
      /\ live \in [opened : Sets, uploading : Sets, wiping : Sets]
  <2> DEFINE z == 0
             c == [on |-> TRUE, keep |-> keep, stamp |-> z]
  <2>1. z \in Stamps
    BY <1>3
  <2>2. db = [chats |-> chats, files |-> files, cfg |-> c]
    BY <1>1
  <2> HIDE DEF z
  <2>3. c \in Cfgs
    BY <2>1 DEF Cfgs
  <2>4. live = [opened |-> chats, uploading |-> {}, wiping |-> {}]
    BY <1>1 DEF Closed
  <2> HIDE DEF c
  <2>5. db \in [chats : Sets, files : Sets, cfg : Cfgs]
    BY <1>3, <2>2, <2>3
  <2>6. tree \in [here : BOOLEAN, has : Sets]
    BY <1>1, <1>3
  <2> DEFINE e == {}
  <2>7. e \in Sets /\ live = [opened |-> chats, uploading |-> e, wiping |-> e]
    BY <1>3, <2>4
  <2> HIDE DEF e
  <2>8. live \in [opened : Sets, uploading : Sets, wiping : Sets]
    BY <1>3, <2>7
  <2> QED BY <2>5, <2>6, <2>8
<1>5. attempts \in [days : SUBSET Stamps, undone : BOOLEAN, twice : BOOLEAN]
  BY <1>2
<1>6. TypeOK
  <2>1. clock \in 2..MaxClock /\ made \in 0..MaxArchives /\ uses \in 0..MaxUses /\ faults \in 0..MaxFaults
    BY <1>2, Bounds
  <2>2. /\ aside \in SUBSET [no : 1..MaxUses, has : Sets] /\ archives \in SUBSET Archive
        /\ tick \in TickRec /\ save \in SaveRec /\ restore \in [Restorers -> RestoreRec]
    BY <1>2, Nothing
  <2>3. run \in [Callers -> RunRec] /\ (tick.at = "dump" <=> run["auto"].at # 0)
    BY <1>2, Nothing, NothingIs DEF Callers
  <2> QED BY <1>4, <1>5, <2>1, <2>2, <2>3 DEF TypeOK
<1>7. FormOK
  <2>1. InSight = Planned
    BY <1>2, InSightIs
  <2>2. Cardinality(Dumping(run)) = 0
    BY <1>2, NothingIs, NoneLeft
  <2>3. Planned = 0
    BY <1>2, <2>2, NothingIs DEF Planned, One, Planning
  <2> QED BY <1>2, <2>1, <2>3, Bounds, NothingIs DEF FormOK, SourceOK
<1>8. StampsOK
  <2>1. Cap = 1 /\ db.cfg.stamp = 0
    BY <1>1, <1>2, NothingIs DEF Cap, Today
  <2> QED BY <1>2, <2>1, NothingIs DEF StampsOK
<1>9. OnceOK /\ TreeOK /\ (\A x \in Restorers : RestoreOK(x)) /\ ArchivesCohere
  BY <1>1, <1>2, NothingIs DEF OnceOK, TreeOK, RestoreOK, ArchivesCohere
<1>10. \A r \in Callers : DumpOK(r)
  BY <1>2, NothingIs DEF DumpOK
<1>11. PruneOK
  BY <1>2, NothingIs, FS_EmptySet DEF PruneOK
<1> QED BY <1>6, <1>7, <1>8, <1>9, <1>10, <1>11 DEF StoreInv

\* Every step keeps the invariant.
LEMMA StepOK ==
  ASSUME StoreInv, [Next]_vars
  PROVE  StoreInv'
<1>1. /\ TypeOK /\ FormOK /\ StampsOK /\ OnceOK /\ TreeOK
      /\ \A r \in Callers : DumpOK(r)
      /\ \A x \in Restorers : RestoreOK(x)
      /\ PruneOK /\ ArchivesCohere
  BY DEF StoreInv
<1>2. TypeOK' /\ FormOK'
  BY <1>1, TypeStep
<1>3. StampsOK' /\ OnceOK' /\ TreeOK'
  BY <1>1, <1>2, StampsStep, OnceStep, TreeStep
<1>4. \A r \in Callers : DumpOK(r)'
  BY <1>1, SoundStep
<1>5. (\A x \in Restorers : RestoreOK(x)') /\ PruneOK' /\ ArchivesCohere'
  BY <1>1, PutBackStep, PruneStep, CohereStep
<1> QED BY <1>2, <1>3, <1>4, <1>5 DEF StoreInv

\* The types, the stamps, the order of a dump's reads, the restore's swap and the
\* pruning hold together through every interleaving, fault and restart
\* (backup.ts).
THEOREM StoreKept == Spec => []StoreInv
<1>1. Init => StoreInv
  BY InitOK
<1>2. StoreInv /\ [Next]_vars => StoreInv'
  BY StepOK
<1> QED BY <1>1, <1>2, PTL DEF Spec

\* Whatever fails or restarts, and however uploads, dumps and saves interleave,
\* the tables and the archives keep their form, the storage tree is in its place
\* or aside (the renames of restoreFromZip), and the schedule attempts a date once
\* unless a save or a restore put the stamp back (schedulerTick).
THEOREM BackupsHold == Spec => []BackupsInv
<1>1. StoreInv => BackupsInv
  BY DEF StoreInv, BackupsInv, TreeOK, OneTreeStands, OnceOK, OncePerDate
<1> QED BY <1>1, StoreKept, PTL

\* Each file row of a finished archive has its chat and its bytes, although
\* createBackup reads the tables one after another and the files last, unless
\* meanwhile the chat was opened, deleted or restored or the file's bytes were
\* removed, or they were missing when it began.
THEOREM ArchivesAreWhole == Spec => []ArchivesCohere
<1>1. StoreInv => ArchivesCohere
  BY DEF StoreInv
<1> QED BY <1>1, StoreKept, PTL

\* A restore that returns success leaves every chat nobody touched since it began,
\* no other restore either, as the archive has it, rows and bytes (restoreFromZip).
THEOREM RestoreIsArchive == Spec => []RestoredAsArchived
<1>1. StoreInv => RestoredAsArchived
  <2> SUFFICES ASSUME StoreInv, NEW x \in Restorers, restore[x].at = "done",
                      NEW c \in Chats \ restore[x].touched
               PROVE  /\ c \in db.chats <=> c \in restore[x].from.chats
                      /\ c \in db.files <=> c \in restore[x].from.files
                      /\ c \in tree.has <=> c \in restore[x].from.bytes
    BY DEF RestoredAsArchived
  <2> QED BY DEF StoreInv, RestoreOK
<1> QED BY <1>1, StoreKept, PTL

\* The nightly pruning leaves the configured number of newest archives, whatever
\* backups finish beside it (pruneBackups), unless an admin deleted one after it
\* had listed them.
THEOREM PruningKeeps == Spec => PruneKeepsEnough
<1> DEFINE Removal ==
      (tick.at = "unlink" /\ uses' = uses /\ ~tick.cleared) =>
         \A a \in archives \ archives' :
           Cardinality({b \in archives : b.no > a.no}) >= tick.keep
<1>1. ASSUME StoreInv, [Next]_vars PROVE Removal
  <2> SUFFICES ASSUME tick.at = "unlink", uses' = uses, ~tick.cleared,
                      NEW a \in archives \ archives'
               PROVE  Cardinality({b \in archives : b.no > a.no}) >= tick.keep
    OBVIOUS
  <2>0. TypeOK /\ FormOK /\ PruneOK /\ uses \in Nat /\ tick.keep \in Nat
    BY <1>1, Fields DEF StoreInv
  <2>1. ASSUME NEW b \in archives PROVE ~DeleteBackup(b)
    BY <2>0 DEF DeleteBackup
  <2>2. ASSUME NEW r \in Callers PROVE ~Finish(r)
    <3> SUFFICES ASSUME Finish(r) PROVE FALSE
      OBVIOUS
    <3>1. archives \subseteq archives'
      BY <2>0, ArchiveAdded
    <3> QED BY <3>1
  <2>3. Unlink
    BY <1>1, <2>1, <2>2, Frames
  <2> DEFINE m == Max(tick.stale)
  <2>4. a.no = m
    BY <2>3 DEF Unlink
  <2>5. m \in tick.stale
    BY <2>0, Fields, MaxIs DEF PruneOK
  <2> HIDE DEF m
  <2>6. Cardinality(Kept(a.no)) >= tick.keep
    BY <2>0, <2>4, <2>5 DEF PruneOK
  <2> DEFINE K == Kept(a.no)
             T == {b \in archives : b.no > a.no}
  <2>7. K \subseteq T
    BY DEF Kept
  <2>8. IsFiniteSet(T)
    BY <2>0, FS_Subset DEF PruneOK
  <2> HIDE DEF K, T
  <2>9. Cardinality(T) >= tick.keep
    BY <2>0, <2>6, <2>7, <2>8, NoFewer DEF K
  <2> QED BY <2>9 DEF T
<1> HIDE DEF Removal
<1>2. StoreInv /\ [Next]_vars => [Removal]_vars
  BY <1>1
<1> QED BY <1>2, StoreKept, PTL DEF Spec, PruneKeepsEnough, Removal

=============================================================================
