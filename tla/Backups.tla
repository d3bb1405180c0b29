------------------------------- MODULE Backups -------------------------------
(***************************************************************************)
(* Backup, restore and the nightly schedule (lib/backup.ts and its callers *)
(* actions/backup.ts and api/admin/backup/restore) while the portal is in  *)
(* use: a dump reads one table after another and then walks the files, a   *)
(* restore commits the database and then swaps the storage tree, and one   *)
(* settings row is read and rewritten by the schedule and by the admin.    *)
(*                                                                         *)
(* Of the tables the model keeps `conversations`, `settings`' backup row   *)
(* and one table that refers to conversations, `files`: a chat has at most *)
(* one file.  A day has two moments, before and after the configured hour. *)
(***************************************************************************)
EXTENDS Integers, FiniteSets, FiniteSetsExt

CONSTANTS
  Chats,
  Manuals,      \* dumps admins ask for
  Restorers,    \* restores they ask for
  Keeps,        \* retention counts an admin may set
  MaxFiles,     \* bound: files there are to begin with
  MaxClock,     \* bound: half-days
  MaxUses,      \* bound: chats opened or deleted, files added or removed, saves, restores
  MaxArchives,  \* bound: archives ever finished
  MaxFaults,    \* bound: failures and restarts
  MaxEvents     \* bound: all of these, and the midnights, together

ASSUME BackupsAssumption ==
  /\ Chats # {} /\ IsFiniteSet(Chats)
  /\ "auto" \notin Manuals /\ IsFiniteSet(Manuals)
  /\ IsFiniteSet(Restorers)
  /\ Keeps \subseteq Nat \ {0} /\ Keeps # {}
  /\ MaxClock \in Nat /\ MaxClock >= 2
  /\ {MaxFiles, MaxUses, MaxArchives, MaxFaults, MaxEvents} \subseteq Nat

VARIABLES
  clock,     \* half-days gone by
  db,        \* [chats, files, cfg]: the tables
  tree,      \* storage/<tenant>: is it there, and the chats whose bytes it holds
  aside,     \* trees renamed to <tenant>.old-*
  live,      \* [opened, uploading, wiping]: handlers of the chat in progress
  archives,  \* finished archives, as listBackups sees them
  made,      \* archives ever finished
  run,       \* the createBackups of admins and of the schedule ("auto")
  tick,      \* schedulerTick past its early returns (`ticking`)
  save,      \* saveBackupConfig between its read and its write
  restore,   \* the calls of restoreFromZip: nothing keeps them apart
  attempts,  \* (history) days of the scheduled attempts; was a stamp undone?
  uses, faults

vars == <<clock, db, tree, aside, live, archives, made, run, tick, save,
          restore, attempts, uses, faults>>
portal == <<db, tree, aside, live, uses>>

Today     == clock \div 2
AfterHour == clock % 2 = 1

Callers == Manuals \cup {"auto"}
NoCfg   == [on |-> FALSE, keep |-> 1, stamp |-> 0]
NoRun   == [at |-> 0, chats |-> {}, files |-> {}, bytes |-> {}, cfg |-> NoCfg, touched |-> {}]
NoTick  == [at |-> "none", keep |-> 1, day |-> 0, cfg |-> NoCfg, stale |-> {}, cleared |-> FALSE]
NoSave  == [at |-> "none", cfg |-> NoCfg]
NoRestore == [at |-> "none", from |-> [no |-> 0], no |-> 0, touched |-> {}]
Closed  == [opened |-> {}, uploading |-> {}, wiping |-> {}]

\* (for the bounds) Archives there may be once everything under way is finished;
\* what may still happen.
InSight == made + Cardinality({r \in Callers : run[r].at # 0})
                + (IF tick.at \in {"stamp", "write", "start"} THEN 1 ELSE 0)
Quiet   == uses + faults + InSight + Today - 1 < MaxEvents
MayUse  == uses < MaxUses /\ Quiet
MayDump == InSight < MaxArchives /\ Quiet
MayFail == faults < MaxFaults /\ Quiet

\* `stamp` is lastRunDate, 0 for never; days count from 1.  The portal is new,
\* or holds every chat and a few files.
Init ==
  /\ clock = 2
  /\ \E keep \in Keeps : \E chats \in {{}, Chats} : \E files \in {f \in SUBSET chats : Cardinality(f) <= MaxFiles} :
       /\ db = [chats |-> chats, files |-> files,
                cfg |-> [on |-> TRUE, keep |-> keep, stamp |-> 0]]
       /\ tree = [here |-> TRUE, has |-> files]
       /\ live = [Closed EXCEPT !.opened = chats]
  /\ aside = {}
  /\ archives = {} /\ made = 0
  /\ run = [c \in Callers |-> NoRun]
  /\ tick = NoTick /\ save = NoSave
  /\ restore = [x \in Restorers |-> NoRestore]
  /\ attempts = [days |-> {}, undone |-> FALSE, twice |-> FALSE]
  /\ uses = 0 /\ faults = 0

---------------------------------------------------------------------------
(* The portal in use.                                                      *)

\* (history) the bytes of c went, or c is new to the tables, during a dump ...
Disturb(changed) ==
  run' = [r \in Callers |-> IF run[r].at = 0 THEN run[r]
                            ELSE [run[r] EXCEPT !.touched = @ \cup changed]]

\* (history) ... or c changed in any way since a restore began.
Touched(x, changed) ==
  IF restore[x].at = "none" THEN restore[x] ELSE [restore[x] EXCEPT !.touched = @ \cup changed]
Touch(c) == restore' = [x \in Restorers |-> Touched(x, {c})]

Used(c) == /\ Touch(c)
           /\ UNCHANGED <<clock, aside, archives, made, tick, save, attempts, faults>>

OpenChat(c) ==
  /\ MayUse /\ c \notin live.opened
  /\ db' = [db EXCEPT !.chats = @ \cup {c}]
  /\ live' = [live EXCEPT !.opened = @ \cup {c}]
  /\ uses' = uses + 1
  /\ UNCHANGED tree /\ Used(c) /\ Disturb({c})

\* saveFileToPool, under a name that is free: the pool directory is made with
\* its parents.  (The Sandbox's own writes are such bytes too.)
SaveBytes(c) ==
  /\ MayUse /\ c \in db.chats /\ c \notin db.files \cup live.uploading \cup tree.has
  /\ tree' = [here |-> TRUE, has |-> tree.has \cup {c}]
  /\ live' = [live EXCEPT !.uploading = @ \cup {c}]
  /\ uses' = uses + 1
  /\ UNCHANGED db /\ Used(c) /\ UNCHANGED run

\* syncPool finds bytes that have no row ...
PoolLists(c) ==
  /\ c \in db.chats /\ c \in tree.has \ (db.files \cup live.uploading)
  /\ live' = [live EXCEPT !.uploading = @ \cup {c}]
  /\ UNCHANGED <<db, tree, uses>> /\ Used(c) /\ UNCHANGED run

\* ... and, as an upload does, an await later writes it, refused when the chat
\* is gone.
RecordFile(c) ==
  /\ c \in live.uploading
  /\ db' = IF c \in db.chats THEN [db EXCEPT !.files = @ \cup {c}] ELSE db
  /\ live' = [live EXCEPT !.uploading = @ \ {c}]
  /\ UNCHANGED <<tree, uses>> /\ Used(c) /\ UNCHANGED run

\* Deleting a chat cascades to its rows; its bytes go afterwards.
DeleteChat(c) ==
  /\ MayUse /\ c \in db.chats
  /\ db' = [db EXCEPT !.chats = @ \ {c}, !.files = @ \ {c}]
  /\ live' = [live EXCEPT !.wiping = @ \cup {c}]
  /\ uses' = uses + 1
  /\ UNCHANGED tree /\ Used(c) /\ Disturb({c})

\* So do those of a single file that is deleted ...
DeleteFile(c) ==
  /\ MayUse /\ c \in db.files
  /\ db' = [db EXCEPT !.files = @ \ {c}]
  /\ live' = [live EXCEPT !.wiping = @ \cup {c}]
  /\ uses' = uses + 1
  /\ UNCHANGED tree /\ Used(c) /\ UNCHANGED run

WipeBytes(c) ==
  /\ c \in live.wiping
  /\ tree' = [tree EXCEPT !.has = @ \ {c}]
  /\ live' = [live EXCEPT !.wiping = @ \ {c}]
  /\ UNCHANGED <<db, uses>> /\ Used(c) /\ Disturb({c})

\* ... while the Sandbox removes bytes first, and syncPool their row.
SandboxRemoves(c) ==
  /\ MayUse /\ c \in tree.has
  /\ tree' = [tree EXCEPT !.has = @ \ {c}]
  /\ uses' = uses + 1
  /\ UNCHANGED <<db, live>> /\ Used(c) /\ Disturb({c})

PoolDrops(c) ==
  /\ c \in db.files \ tree.has
  /\ db' = [db EXCEPT !.files = @ \ {c}]
  /\ UNCHANGED <<tree, live, uses>> /\ Used(c) /\ UNCHANGED run

---------------------------------------------------------------------------
(* createBackup                                                            *)

\* Chats whose rows and bytes do not agree to begin with, or are about not to.
Broken == {c \in db.files : c \notin db.chats \/ c \notin tree.has}
            \cup (live.uploading \ tree.has)

\* Bug: the storage tree is walked before the files' rows are read.
OrderSwapped == <<"walk", "files">>

\* After the settings and the chats, a dump reads the files' rows and then
\* walks the storage tree into a .part file: `at` says how far it is.
Order == <<"files", "walk">>
At(r, what) == run[r].at \in DOMAIN Order /\ Order[run[r].at] = what
Dumped(r)   == run[r].at = 1 + Cardinality(DOMAIN Order)

BeginDump(r) ==
  run' = [run EXCEPT ![r] = [NoRun EXCEPT !.at = 1, !.chats = db.chats,
                               !.cfg = db.cfg, !.touched = Broken]]

CreateBackupNow(r) ==
  /\ run[r].at = 0 /\ MayDump
  /\ BeginDump(r)
  /\ UNCHANGED <<clock, portal, archives, made, tick, save, restore, attempts, faults>>

DumpFiles(r) ==
  /\ At(r, "files")
  /\ run' = [run EXCEPT ![r].at = @ + 1, ![r].files = db.files]
  /\ UNCHANGED <<clock, portal, archives, made, tick, save, restore, attempts, faults>>

Walk(r) ==
  /\ At(r, "walk")
  /\ run' = [run EXCEPT ![r].at = @ + 1, ![r].bytes = tree.has]
  /\ UNCHANGED <<clock, portal, archives, made, tick, save, restore, attempts, faults>>

\* Bug: either caller goes on as the schedule does.
ReturnedPrunes(r, ok) ==
  /\ run' = [run EXCEPT ![r] = NoRun]
  /\ tick' = IF ok THEN [tick EXCEPT !.at = "prune"] ELSE NoTick

\* What follows createBackup in its caller: pruning, for the schedule.
Returned(r, ok) ==
  /\ run' = [run EXCEPT ![r] = NoRun]
  /\ IF r # "auto" THEN UNCHANGED tick
     ELSE tick' = IF ok THEN [tick EXCEPT !.at = "prune"] ELSE NoTick

\* The .part is renamed: from here on listBackups shows it.
Finish(r) ==
  /\ Dumped(r)
  /\ made' = made + 1
  /\ archives' = archives \cup
       {[no |-> made', chats |-> run[r].chats, files |-> run[r].files, bytes |-> run[r].bytes,
         cfg |-> run[r].cfg, touched |-> run[r].touched]}
  /\ Returned(r, TRUE)
  /\ UNCHANGED <<clock, portal, save, restore, attempts, faults>>

\* A full disk, an unreadable file, a failed query: only a .part is left.
FailDump(r) ==
  /\ run[r].at # 0 /\ MayFail
  /\ faults' = faults + 1
  /\ Returned(r, FALSE)
  /\ UNCHANGED <<clock, portal, archives, made, save, restore, attempts>>

\* An admin deletes a listed archive.
DeleteBackup(a) ==
  /\ a \in archives /\ MayUse /\ uses' = uses + 1
  /\ archives' = archives \ {a}
  /\ tick' = [tick EXCEPT !.cleared = TRUE]
  /\ UNCHANGED <<clock, db, tree, aside, live, made, run, save, restore, attempts, faults>>

---------------------------------------------------------------------------
(* The schedule                                                            *)

\* isBackupDue: on, past the hour, and not attempted on this date.
Due == db.cfg.on /\ AfterHour /\ db.cfg.stamp # Today

\* The configuration that made it due is kept for the pruning.
TickStarts ==
  /\ tick.at = "none" /\ Due /\ MayDump
  /\ tick' = [NoTick EXCEPT !.at = "stamp", !.keep = db.cfg.keep, !.day = Today]
  /\ UNCHANGED <<clock, portal, archives, made, run, save, restore, attempts, faults>>

\* setBackupConfig reads the row ...
ReadStamp ==
  /\ tick.at = "stamp"
  /\ tick' = [tick EXCEPT !.at = "write", !.cfg = db.cfg]
  /\ UNCHANGED <<clock, portal, archives, made, run, save, restore, attempts, faults>>

\* Bug: the row is written back without the date.
WriteNoStamp ==
  /\ tick.at = "write"
  /\ db' = [db EXCEPT !.cfg = tick.cfg]
  /\ tick' = [tick EXCEPT !.at = "start"]
  /\ UNCHANGED <<clock, tree, aside, live, uses, archives, made, run, save, restore,
                 attempts, faults>>

\* ... and writes it back with today's date, before any work is done;
WriteStamp ==
  /\ tick.at = "write"
  /\ db' = [db EXCEPT !.cfg = [tick.cfg EXCEPT !.stamp = tick.day]]
  /\ tick' = [tick EXCEPT !.at = "start"]
  /\ UNCHANGED <<clock, tree, aside, live, uses, archives, made, run, save, restore,
                 attempts, faults>>

\* a failed query before that is no attempt: the next tick finds it due again.
FailStamp ==
  /\ tick.at \in {"stamp", "write"} /\ MayFail /\ faults' = faults + 1
  /\ tick' = NoTick
  /\ UNCHANGED <<clock, portal, archives, made, run, save, restore, attempts>>

StartAuto ==
  /\ tick.at = "start"
  /\ BeginDump("auto")
  /\ tick' = [tick EXCEPT !.at = "dump"]
  /\ attempts' = [attempts EXCEPT !.days = @ \cup {tick.day},
                                  !.twice = @ \/ tick.day \in attempts.days]
  /\ UNCHANGED <<clock, portal, archives, made, save, restore, faults>>

\* Bug: the list is oldest first.
Oldest(n) == {a \in archives : Cardinality({b \in archives : b.no < a.no}) < n}

Newest(n) == {a \in archives : Cardinality({b \in archives : b.no > a.no}) < n}

\* pruneBackups lists, newest first, ...
ListStale ==
  /\ tick.at = "prune"
  /\ tick' = IF archives \ Newest(tick.keep) = {} THEN NoTick
             ELSE [tick EXCEPT !.at = "unlink", !.stale = {a.no : a \in archives \ Newest(tick.keep)},
                               !.cleared = FALSE]
  /\ UNCHANGED <<clock, portal, archives, made, run, save, restore, attempts, faults>>

\* ... and deletes what is beyond the count, one at a time.
Unlink ==
  /\ tick.at = "unlink"
  /\ LET no == Max(tick.stale)
     IN /\ archives' = {a \in archives : a.no # no}
        /\ tick' = IF tick.stale = {no} THEN NoTick ELSE [tick EXCEPT !.stale = @ \ {no}]
  /\ UNCHANGED <<clock, portal, made, run, save, restore, attempts, faults>>

---------------------------------------------------------------------------
(* saveBackupConfig: the same row, read and rewritten by the admin.        *)

SaveReads ==
  /\ save.at = "none" /\ MayUse /\ uses' = uses + 1
  /\ save' = [at |-> "write", cfg |-> db.cfg]
  /\ UNCHANGED <<clock, db, tree, aside, live, archives, made, run, tick, restore, attempts, faults>>

SaveWrites ==
  /\ save.at = "write"
  /\ \E keep \in Keeps : db' = [db EXCEPT !.cfg = [save.cfg EXCEPT !.keep = keep]]
  /\ attempts' = [attempts EXCEPT !.undone = @ \/ save.cfg.stamp < db.cfg.stamp]
  /\ save' = NoSave
  /\ UNCHANGED <<clock, tree, aside, live, uses, archives, made, run, tick, restore, faults>>

---------------------------------------------------------------------------
(* restoreFromZip                                                          *)

\* Every foreign key of the archive's rows is among its rows.
Fits(a) == a.files \subseteq a.chats

\* Another restore's step: (history) whatever it changes, it changes for us.
Proceed(x, rec) ==
  restore' = [y \in Restorers |-> IF y = x THEN rec ELSE Touched(y, Chats)]
Now(x, at) == [restore[x] EXCEPT !.at = at]

\* The archive is read and decoded before anything is wiped.
Decode(x, a) ==
  /\ restore[x].at \in {"none", "done"} /\ a \in archives
  /\ MayUse /\ uses' = uses + 1
  /\ restore' = [restore EXCEPT ![x] =
       [at |-> "decoded", from |-> a, no |-> uses', touched |-> {}]]
  /\ UNCHANGED <<clock, db, tree, aside, live, archives, made, run, tick, save, attempts, faults>>

\* Bug: the tables are refilled without being emptied.
RepopulateMerges(x) ==
  /\ restore[x].at = "decoded"
  /\ db' = [chats |-> db.chats \cup restore[x].from.chats,
            files |-> db.files \cup restore[x].from.files, cfg |-> restore[x].from.cfg]
  /\ Proceed(x, Now(x, "extract"))
  /\ attempts' = [attempts EXCEPT !.undone = @ \/ restore[x].from.cfg.stamp < db.cfg.stamp]
  /\ Disturb(Chats)
  /\ UNCHANGED <<clock, tree, aside, live, uses, archives, made, tick, save, faults>>

\* One transaction: every table emptied and refilled, or nothing.
Repopulate(x) ==
  /\ restore[x].at = "decoded"
  /\ LET a == restore[x].from
     IN IF Fits(a)
        THEN /\ db' = [chats |-> a.chats, files |-> a.files, cfg |-> a.cfg]
             /\ Proceed(x, Now(x, "extract"))
             /\ attempts' = [attempts EXCEPT !.undone = @ \/ a.cfg.stamp < db.cfg.stamp]
             /\ Disturb(Chats)
        ELSE restore' = [restore EXCEPT ![x] = NoRestore] /\ UNCHANGED <<db, run, attempts>>
  /\ UNCHANGED <<clock, tree, aside, live, uses, archives, made, tick, save, faults>>

Elsewhere == Disturb(Chats) /\ UNCHANGED <<clock, db, live, uses, archives, made, tick, save, attempts, faults>>

\* The files are extracted into a staging directory.
Extract(x) ==
  /\ restore[x].at = "extract"
  /\ Proceed(x, Now(x, "staged"))
  /\ UNCHANGED <<tree, aside>> /\ Elsewhere

\* Bug: the tree is wiped instead of kept aside.
WipeInstead(x) ==
  /\ restore[x].at = "staged"
  /\ tree' = [here |-> FALSE, has |-> {}]
  /\ UNCHANGED aside /\ Proceed(x, Now(x, "aside")) /\ Elsewhere

\* The tree in use is renamed aside ...
SetAside(x) ==
  /\ restore[x].at = "staged"
  /\ aside' = IF tree.here THEN aside \cup {[no |-> restore[x].no, has |-> tree.has]} ELSE aside
  /\ tree' = [here |-> FALSE, has |-> {}]
  /\ Proceed(x, Now(x, "aside")) /\ Elsewhere

\* ... the staged one renamed into its place.  If an upload or another restore
\* has made the directory anew, the rename fails, unless it is empty.
PutInPlace(x) ==
  /\ restore[x].at = "aside"
  /\ \/ /\ ~tree.here \/ tree.has = {}
        /\ tree' = [here |-> TRUE, has |-> restore[x].from.bytes]
        /\ Proceed(x, Now(x, "placed"))
     \/ tree.here /\ Proceed(x, NoRestore) /\ UNCHANGED tree
  /\ UNCHANGED aside /\ Elsewhere

\* ... and the old one removed.
RemoveOld(x) ==
  /\ restore[x].at = "placed"
  /\ aside' = {old \in aside : old.no # restore[x].no}
  /\ Proceed(x, Now(x, "done")) /\ UNCHANGED tree /\ Elsewhere

\* The disk fails a step: staging is removed, the error returned.
FailRestore(x) ==
  /\ restore[x].at \in {"decoded", "extract", "staged", "aside"} /\ MayFail
  /\ faults' = faults + 1
  /\ restore' = [restore EXCEPT ![x] = NoRestore]
  /\ UNCHANGED <<clock, portal, archives, made, run, tick, save, attempts>>

---------------------------------------------------------------------------
\* The server restarts: handlers, dumps, the tick and a restore are gone.
Restart ==
  /\ MayFail /\ faults' = faults + 1
  /\ live' = [Closed EXCEPT !.opened = live.opened]
  /\ run' = [r \in Callers |-> NoRun]
  /\ tick' = NoTick /\ save' = NoSave
  /\ restore' = [x \in Restorers |-> NoRestore]
  /\ UNCHANGED <<clock, db, tree, aside, archives, made, attempts, uses>>

Clock ==
  /\ clock < MaxClock /\ (AfterHour => Quiet)
  /\ clock' = clock + 1
  /\ UNCHANGED <<portal, archives, made, run, tick, save, restore, attempts, faults>>

Next ==
  \/ \E c \in Chats :
       \/ OpenChat(c) \/ SaveBytes(c) \/ PoolLists(c) \/ RecordFile(c)
       \/ DeleteChat(c) \/ DeleteFile(c) \/ WipeBytes(c) \/ SandboxRemoves(c) \/ PoolDrops(c)
  \/ \E r \in Manuals : CreateBackupNow(r)
  \/ \E r \in Callers : DumpFiles(r) \/ Walk(r) \/ Finish(r) \/ FailDump(r)
  \/ \E a \in archives : DeleteBackup(a) \/ \E x \in Restorers : Decode(x, a)
  \/ TickStarts \/ ReadStamp \/ WriteStamp \/ FailStamp \/ StartAuto \/ ListStale \/ Unlink
  \/ SaveReads \/ SaveWrites
  \/ \E x \in Restorers :
       \/ Repopulate(x) \/ Extract(x) \/ SetAside(x) \/ PutInPlace(x) \/ RemoveOld(x)
       \/ FailRestore(x)
  \/ Restart \/ Clock

Spec == Init /\ [][Next]_vars

---------------------------------------------------------------------------
(* Properties.                                                             *)

Stamps == 0..MaxClock
Sets   == SUBSET Chats
Cfgs   == [on : BOOLEAN, keep : Keeps, stamp : Stamps]
Archive == [no : 1..MaxArchives, chats : Sets, files : Sets, bytes : Sets, cfg : Cfgs,
            touched : Sets]
RunRec  == [at : 0..3, chats : Sets, files : Sets, bytes : Sets, cfg : Cfgs \cup {NoCfg},
            touched : Sets]
TickRec == [at : {"none", "stamp", "write", "start", "dump", "prune", "unlink"}, keep : Nat,
            day : Stamps, cfg : Cfgs \cup {NoCfg}, stale : SUBSET (1..MaxArchives),
            cleared : BOOLEAN]
SaveRec == [at : {"none", "write"}, cfg : Cfgs \cup {NoCfg}]
RestoreRec == [at : {"none", "decoded", "extract", "staged", "aside", "placed", "done"},
               from : Archive \cup {NoRestore.from}, no : 0..MaxUses, touched : Sets]

\* The types of the tables, the archives and the phases.
TypeOK ==
  /\ clock \in 2..MaxClock
  /\ db \in [chats : Sets, files : Sets, cfg : Cfgs]
  /\ tree \in [here : BOOLEAN, has : Sets]
  /\ aside \in SUBSET [no : 1..MaxUses, has : Sets]
  /\ live \in [opened : Sets, uploading : Sets, wiping : Sets]
  /\ archives \in SUBSET Archive /\ made \in 0..MaxArchives
  /\ run \in [Callers -> RunRec] /\ tick \in TickRec
  /\ tick.at = "dump" <=> run["auto"].at # 0
  /\ save \in SaveRec /\ restore \in [Restorers -> RestoreRec]
  /\ attempts \in [days : SUBSET Stamps, undone : BOOLEAN, twice : BOOLEAN]
  /\ uses \in 0..MaxUses /\ faults \in 0..MaxFaults

\* Whatever fails or restarts between the two renames of a restore, the files
\* are still on the disk: in their place or aside (backup.ts:654-659).
OneTreeStands == tree.here \/ aside # {}

\* In a finished archive each file row has its chat and its bytes, through
\* uploads that ran beside the dump -- unless meanwhile the chat was opened,
\* deleted or restored or its file's bytes were removed, or it was already broken.
ArchivesCohere ==
  \A a \in archives : \A c \in a.files \ a.touched : c \in a.chats /\ c \in a.bytes

\* A restore that reported success left every chat that nobody touched since it
\* began, no other restore either, as the archive has it, in the tables and on
\* the disk.
RestoredAsArchived ==
  \A x \in Restorers : restore[x].at = "done" =>
    LET a == restore[x].from
    IN \A c \in Chats \ restore[x].touched :
         /\ c \in db.chats <=> c \in a.chats
         /\ c \in db.files <=> c \in a.files
         /\ c \in tree.has <=> c \in a.bytes

\* The schedule attempts one backup per date, failing or not -- unless a save
\* that had read the row before the stamp, or a restore, put the date back.
OncePerDate == attempts.twice => attempts.undone

\* What holds of the disk and of the schedule at every moment.
BackupsInv == TypeOK /\ OneTreeStands /\ OncePerDate

\* Pruning leaves the `retention` newest, whatever finishes beside it --
\* unless an admin deleted one after it had listed them.
PruneKeepsEnough ==
  [][(tick.at = "unlink" /\ uses' = uses /\ ~tick.cleared) =>
       \A a \in archives \ archives' :
         Cardinality({b \in archives : b.no > a.no}) >= tick.keep]_vars

=============================================================================
