----------------------------- MODULE Containers -----------------------------
(***************************************************************************)
(* The sandbox broker (sandboxd/index.mjs, cred-sync.sh): one long-lived   *)
(* container per chat, the attaches that run the agent's CLI in it, the    *)
(* reaper of idle containers, teardown requests of the app (agent/spawn.ts)*)
(* and the one Claude sign-in all chats share.                             *)
(*                                                                         *)
(* A step is what runs between two awaits.  Docker, the CLI and the        *)
(* provider that rotates the sign-in are external: an operation of theirs  *)
(* is one step, and may fail where the code handles a failure.             *)
(* Sign-ins are numbered in the order the provider issued them: a refresh  *)
(* succeeds only with the newest, and issues the next.                     *)
(***************************************************************************)
EXTENDS Integers, FiniteSets

CONSTANTS
  Chats,      \* conversations that use the Sandbox
  Attaches,   \* identities for attach requests in flight (reused)
  MaxRuns,    \* bound: attach requests
  MaxFaults,  \* bound: teardowns, restarts, stops, failed Docker calls
  MaxPair     \* bound: refreshes of the sign-in

ASSUME ContainersAssumption ==
  /\ IsFiniteSet(Chats) /\ Chats # {} /\ IsFiniteSet(Attaches)
  /\ MaxRuns \in Nat /\ MaxFaults \in Nat /\ MaxPair \in Nat

VARIABLES
  box,       \* [Chats -> [st, id]]: the container of that name, its Docker id
  activity,  \* SUBSET Chats: last activity less than AGENT_IDLE_SECONDS ago
  attached,  \* [Chats -> Nat]: open attaches, as counted
  run,       \* [Attaches -> record]: an attach request and the CLI it runs
  deletes,   \* SUBSET Chats: DELETE requests on their way to the broker
  listed,    \* [Chats -> Nat]: ids the sweep in progress has yet to visit, 0 for none
  file,      \* [Chats -> Linked | Blank | pair]: .credentials.json of the chat's state dir
  shared,    \* the pair in the shared volume
  newest,    \* the pair the provider accepts
  used,      \* [runs, faults]: what is spent of the bounds
  twice,     \* history: chats where one attach was counted down twice
  leaked,    \* history: chats where one was never counted down
  loose      \* history: a pair was unlinked uncarried, or renewed while an older
             \* copy was on its way or in another chat's file

vars == <<box, activity, attached, run, deletes, listed, file, shared, newest,
          used, twice, leaked, loose>>
boxVars  == <<box, listed>>
signVars == <<file, shared, newest, loose>>
count    == <<activity, attached, twice, leaked>>

Linked == -1
Blank  == -2
NoPair == -3
ByName == 0
NoBox  == [st |-> "none", id |-> 0]
NoRun  == [chat |-> CHOOSE c \in Chats : TRUE, at |-> "idle", held |-> FALSE,
           on |-> ByName, cli |-> 0, hand |-> NoPair, last |-> FALSE, erred |-> FALSE]

Init ==
  /\ box = [c \in Chats |-> NoBox]
  /\ activity = {}
  /\ attached = [c \in Chats |-> 0]
  /\ run = [a \in Attaches |-> NoRun]
  /\ deletes = {}
  /\ listed = [c \in Chats |-> 0]
  /\ file = [c \in Chats |-> Linked]
  /\ shared = 0 /\ newest = 0
  /\ used = [runs |-> 0, faults |-> 0]
  /\ twice = {} /\ leaked = {} /\ loose = FALSE

---------------------------------------------------------------------------
(* What an attach sees, and where it goes.                                 *)

Chat(a)    == run[a].chat
\* a handle by name reaches whatever has the name; a handle by id, that one
Seen(a)    == IF run[a].on \in {ByName, box[Chat(a)].id} THEN box[Chat(a)].st ELSE "none"
Busy(c)    == {a \in Attaches : Chat(a) = c /\ run[a].at # "idle"}
\* an id no handle, exec or list still names; only equality of ids matters
Ids        == 1..(2 * Cardinality(Attaches) + 2)
Named(c)   == {listed[c]} \cup UNION {{run[a].on, run[a].cli} : a \in Busy(c)}
NewId(c)   == CHOOSE n \in Ids \ Named(c) : 1..(n - 1) \subseteq Named(c)
Go(a, at)  == run' = [run EXCEPT ![a].at = at]
Ends(a)    == run' = [run EXCEPT ![a] = NoRun]
MayFault   == used.faults < MaxFaults
Fault      == MayFault /\ used' = [used EXCEPT !.faults = @ + 1]
CliLives(a) == /\ run[a].at = "open"
               /\ box[Chat(a)].st = "running" /\ box[Chat(a)].id = run[a].cli
Carrying(a) == run[a].at \in {"read", "write", "link"}
Counted(a)  == run[a].at \in {"exec", "open", "uncount"} \/ (Carrying(a) /\ run[a].last)
Open(c)     == {a \in Attaches : Chat(a) = c /\ Counted(a)}
\* Bug: the count may go below zero.
DropUnfloored(c, n) == attached' = [attached EXCEPT ![c] = @ - n]
Drop(c, n)  == attached' = [attached EXCEPT ![c] = IF @ > n THEN @ - n ELSE 0]

---------------------------------------------------------------------------
(* ensureAgentContainer                                                    *)

\* The app holds at most one run of a chat; an earlier one it let go of may
\* still be on its way out here.  What inspect said may be stale when used.
Attach(a, c) ==
  /\ run[a].at = "idle" /\ used.runs < MaxRuns
  /\ \A b \in Busy(c) : ~run[b].held
  /\ run' = [run EXCEPT ![a] = [NoRun EXCEPT !.chat = c, !.held = TRUE,
                !.at = CASE box[c].st = "running" -> "found"
                         [] box[c].st = "none"    -> "create"
                         [] OTHER                 -> "restart"]]
  /\ used' = [used EXCEPT !.runs = @ + 1]
  /\ UNCHANGED <<boxVars, count, deletes, signVars>>

\* Docker refuses to start what runs already (304) or is gone (404).
StartStale(a) ==
  /\ run[a].at = "restart"
  /\ \/ /\ Seen(a) \in {"created", "stopped"}
        /\ box' = [box EXCEPT ![Chat(a)].st = "running"]
        /\ Go(a, "found") /\ UNCHANGED used
     \/ /\ Seen(a) \in {"running", "none"}
        /\ Go(a, "discard") /\ UNCHANGED <<box, used>>
     \/ /\ Seen(a) \in {"created", "stopped"}
        /\ Fault /\ Go(a, "discard") /\ UNCHANGED box
  /\ UNCHANGED <<listed, count, deletes, signVars>>

Discard(a) ==
  /\ run[a].at = "discard"
  /\ box' = [box EXCEPT ![Chat(a)] = NoBox]
  /\ Go(a, "create")
  /\ UNCHANGED <<listed, count, deletes, signVars, used>>

\* A name that is taken refuses the request (409).
Create(a) ==
  /\ run[a].at = "create"
  /\ \/ /\ box[Chat(a)].st = "none"
        /\ box' = [box EXCEPT ![Chat(a)] = [st |-> "created", id |-> NewId(Chat(a))]]
        /\ run' = [run EXCEPT ![a].at = "boot", ![a].on = NewId(Chat(a))]
     \/ /\ box[Chat(a)].st # "none"
        /\ Ends(a) /\ UNCHANGED box
  /\ UNCHANGED <<listed, count, deletes, signVars, used>>

\* Bug: a container that will not start is left where it is.
BootLeaves(a) ==
  /\ run[a].at = "boot"
  /\ \/ /\ Seen(a) \in {"created", "stopped"}
        /\ box' = [box EXCEPT ![Chat(a)].st = "running"]
        /\ run' = [run EXCEPT ![a].at = "read", ![a].last = FALSE]
        /\ UNCHANGED used
     \/ /\ \/ Seen(a) \in {"running", "none"} /\ UNCHANGED used
           \/ Seen(a) = "created" /\ Fault
        /\ Ends(a) /\ UNCHANGED box
  /\ UNCHANGED <<listed, count, deletes, signVars>>

\* A container that will not start is removed and the request refused.
Boot(a) ==
  /\ run[a].at = "boot"
  /\ \/ /\ Seen(a) \in {"created", "stopped"}
        /\ box' = [box EXCEPT ![Chat(a)].st = "running"]
        /\ run' = [run EXCEPT ![a].at = "read", ![a].last = FALSE]
        /\ UNCHANGED used
     \/ /\ \/ Seen(a) \in {"running", "none"} /\ UNCHANGED used
           \/ Seen(a) = "created" /\ Fault
        /\ box' = [box EXCEPT ![Chat(a)] = IF Seen(a) = "none" THEN @ ELSE NoBox]
        /\ Ends(a)
  /\ UNCHANGED <<listed, count, deletes, signVars>>

---------------------------------------------------------------------------
(* captureRefreshedCredential and linkAgentCredential: when a container    *)
(* was created (last = FALSE) and when a run's stream ended (last = TRUE). *)

\* Bug: any regular file passes for a sign-in.
AnyRegular(p) == p # Linked

Usable(p) == p \notin {Linked, Blank}

ReadPair(a) ==
  /\ run[a].at = "read"
  /\ LET p == IF Seen(a) # "none" THEN file[Chat(a)] ELSE Linked
     IN run' = [run EXCEPT ![a].at = IF Usable(p) THEN "write" ELSE "link",
                           ![a].hand = IF Usable(p) THEN p ELSE NoPair]
  /\ UNCHANGED <<boxVars, count, deletes, signVars, used>>

WritePair(a) ==
  /\ run[a].at = "write"
  /\ \/ shared' = run[a].hand /\ UNCHANGED used
     \/ Fault /\ UNCHANGED shared
  /\ run' = [run EXCEPT ![a].at = "link", ![a].hand = NoPair]
  /\ UNCHANGED <<boxVars, count, deletes, file, newest, loose>>

\* cred-sync.sh inside the container, where the shared volume is read-only:
\* a regular file is dropped and the link made.  It cannot run in a
\* container that is not running, and the failure is only logged.
Relink(a) ==
  IF Seen(a) = "running"
  THEN /\ file' = [file EXCEPT ![Chat(a)] = Linked]
       /\ loose' = (loose \/ (Usable(file[Chat(a)]) /\ file[Chat(a)] # shared))
  ELSE UNCHANGED <<file, loose>>

Link(a) ==
  /\ run[a].at = "link"
  /\ Relink(a)
  /\ Go(a, IF run[a].last THEN "uncount" ELSE "found")
  /\ UNCHANGED <<boxVars, count, deletes, shared, newest, used>>

---------------------------------------------------------------------------
(* handleAgentAttach                                                       *)

Count(a) ==
  /\ run[a].at = "found"
  /\ activity' = activity \cup {Chat(a)}
  /\ attached' = [attached EXCEPT ![Chat(a)] = @ + 1]
  /\ Go(a, "exec")
  /\ UNCHANGED <<boxVars, twice, leaked, deletes, signVars, used>>

\* A failed exec answers 500; nothing counts the attach down again.
Exec(a) ==
  /\ run[a].at = "exec"
  /\ \/ /\ Seen(a) = "running"
        /\ run' = [run EXCEPT ![a].at = "open", ![a].cli = box[Chat(a)].id]
        /\ UNCHANGED used
        /\ UNCHANGED leaked
     \/ /\ \/ Seen(a) # "running" /\ UNCHANGED used
           \/ Fault
        /\ Ends(a)
        /\ leaked' = leaked \cup {Chat(a)}
  /\ UNCHANGED <<boxVars, activity, attached, twice, deletes, signVars>>

\* Output of the CLI, or input of the app.
Talk(a) ==
  /\ CliLives(a) /\ Chat(a) \notin activity
  /\ activity' = activity \cup {Chat(a)}
  /\ UNCHANGED <<boxVars, attached, twice, leaked, run, deletes, signVars, used>>

\* The CLI renews the sign-in it finds: the new pair goes into a regular file
\* of the chat's own; a refused one leaves that file with blank tokens.
Refresh(a) ==
  LET c == Chat(a)
      p == IF file[c] = Linked THEN shared ELSE file[c]
  IN /\ CliLives(a) /\ p # Blank
     /\ \/ /\ p = newest /\ newest < MaxPair
           /\ newest' = newest + 1
           /\ file' = [file EXCEPT ![c] = newest + 1]
           /\ loose' = (loose \/ \E b \in Attaches : run[b].hand # NoPair
                              \/ \E d \in Chats \ {c} : Usable(file[d]))
        \/ /\ p # newest
           /\ file' = [file EXCEPT ![c] = Blank]
           /\ UNCHANGED <<newest, loose>>
     /\ UNCHANGED <<boxVars, count, run, deletes, shared, used>>

\* The app has its result and closes the CLI's input; it may ask for another
\* run while this one winds down.
LetGo(a) ==
  /\ run[a].at = "open" /\ run[a].held
  /\ run' = [run EXCEPT ![a].held = FALSE]
  /\ UNCHANGED <<boxVars, count, deletes, signVars, used>>

\* The CLI exits, is signalled or goes down with its container.
StreamEnds(a) ==
  /\ run[a].at = "open"
  /\ run' = [run EXCEPT ![a].at = "read", ![a].last = TRUE, ![a].cli = 0]
  /\ UNCHANGED <<boxVars, count, deletes, signVars, used>>

Uncount(a) ==
  /\ run[a].at = "uncount"
  /\ activity' = activity \cup {Chat(a)}
  /\ Drop(Chat(a), 1)
  /\ Ends(a)
  /\ UNCHANGED <<boxVars, twice, leaked, deletes, signVars, used>>

\* Bug: the error handler answers and counts nothing down.
BreaksUncounted(a) ==
  /\ Fault
  /\ run[a].at = "open" /\ Ends(a)
  /\ UNCHANGED <<boxVars, count, deletes, signVars>>

\* The stream breaks under a run, or a late write to one that has ended fails:
\* the error handler counts down without asking which, and answers.
StreamBreaks(a) ==
  /\ Fault
  /\ \/ run[a].at = "open" /\ Ends(a) /\ UNCHANGED twice
     \/ /\ Counted(a) /\ run[a].at \notin {"exec", "open"} /\ ~run[a].erred
        /\ run' = [run EXCEPT ![a].held = FALSE, ![a].erred = TRUE]
        /\ twice' = twice \cup {Chat(a)}
  /\ Drop(Chat(a), 1)
  /\ UNCHANGED <<boxVars, activity, leaked, deletes, signVars>>

---------------------------------------------------------------------------
(* Teardown, the reaper, failures                                          *)

\* spawn.ts: an abort the CLI did not heed, a SIGKILL; storage.ts: the chat
\* is deleted.  The app does not wait for the answer.
Teardown(c) ==
  /\ Fault /\ c \notin deletes
  /\ deletes' = deletes \cup {c}
  /\ run' = [a \in Attaches |-> IF a \in Busy(c) THEN [run[a] EXCEPT !.held = FALSE] ELSE run[a]]
  /\ UNCHANGED <<boxVars, count, signVars>>

DestroyAgent(c) ==
  /\ c \in deletes
  /\ deletes' = deletes \ {c}
  /\ activity' = activity \ {c}
  /\ box' = [box EXCEPT ![c] = NoBox]
  /\ UNCHANGED <<listed, attached, twice, leaked, run, signVars, used>>

SweepLists ==
  /\ \A c \in Chats : listed[c] = 0
  /\ \E c \in Chats : box[c].st # "none"
  /\ listed' = [c \in Chats |-> box[c].id]
  /\ UNCHANGED <<box, count, run, deletes, signVars, used>>

\* A missing entry reads as long ago.
Idle(c)  == c \notin activity
\* Bug: quiet is taken for idle.
SpareActive(c) == ~Idle(c)
Spare(c) == attached[c] > 0 \/ ~Idle(c)

SweepVisits(c) ==
  /\ listed[c] # 0
  /\ listed' = [listed EXCEPT ![c] = 0]
  /\ \/ Spare(c) /\ UNCHANGED <<box, activity>>
     \/ /\ ~Spare(c)
        /\ box' = [box EXCEPT ![c] = IF @.id = listed[c] THEN NoBox ELSE @]
        /\ activity' = activity \ {c}
  /\ UNCHANGED <<attached, twice, leaked, run, deletes, signVars, used>>

\* AGENT_IDLE_SECONDS pass without activity.
Quiet(c) ==
  /\ c \in activity
  /\ activity' = activity \ {c}
  /\ UNCHANGED <<boxVars, attached, twice, leaked, run, deletes, signVars, used>>

\* The container dies (out of memory, a Docker restart).
BoxStops(c) ==
  /\ box[c].st = "running" /\ Fault
  /\ box' = [box EXCEPT ![c].st = "stopped"]
  /\ UNCHANGED <<listed, count, run, deletes, signVars>>

\* The broker restarts: its maps are empty, and it sweeps every container
\* away before it listens again.
Restart ==
  /\ Fault
  /\ run' = [a \in Attaches |-> NoRun]
  /\ box' = [c \in Chats |-> NoBox]
  /\ listed' = [c \in Chats |-> 0]
  /\ activity' = {}
  /\ attached' = [c \in Chats |-> 0]
  /\ deletes' = {} /\ twice' = {} /\ leaked' = {}
  /\ UNCHANGED signVars

---------------------------------------------------------------------------
Work(a) ==
  \/ StartStale(a) \/ Discard(a) \/ Create(a) \/ Boot(a)
  \/ ReadPair(a) \/ WritePair(a) \/ Link(a)
  \/ Count(a) \/ Exec(a) \/ StreamEnds(a) \/ Uncount(a)

Next ==
  \/ \E a \in Attaches, c \in Chats : Attach(a, c)
  \/ \E a \in Attaches : Work(a) \/ Talk(a) \/ Refresh(a) \/ LetGo(a) \/ StreamBreaks(a)
  \/ \E c \in Chats : Teardown(c) \/ DestroyAgent(c) \/ SweepVisits(c) \/ Quiet(c) \/ BoxStops(c)
  \/ SweepLists \/ Restart

Spec == Init /\ [][Next]_vars

---------------------------------------------------------------------------
(* Properties.                                                             *)

Pairs == 0..MaxPair

Steps  == {"idle", "restart", "discard", "create", "boot", "read", "write", "link",
           "found", "exec", "open", "uncount"}
BoxRec == [st : {"none", "created", "running", "stopped"}, id : Ids \cup {0}]
RunRec == [chat : Chats, at : Steps, held : BOOLEAN, on : Ids \cup {ByName},
           cli : Ids \cup {0}, hand : Pairs \cup {NoPair}, last : BOOLEAN, erred : BOOLEAN]

\* The types of the broker's maps, of Docker's state and of the sign-in.
TypeOK ==
  /\ box \in [Chats -> BoxRec] /\ listed \in [Chats -> Ids \cup {0}]
  /\ activity \in SUBSET Chats /\ deletes \in SUBSET Chats
  /\ attached \in [Chats -> 0..MaxRuns]
  /\ run \in [Attaches -> RunRec]
  /\ file \in [Chats -> Pairs \cup {Linked, Blank}]
  /\ shared \in Pairs /\ newest \in Pairs
  /\ used \in [runs : 0..MaxRuns, faults : 0..MaxFaults]
  /\ twice \in SUBSET Chats /\ leaked \in SUBSET Chats /\ loose \in BOOLEAN

\* A step of the reaper that takes the container of c away.
Reaps(c) == /\ listed[c] # 0 /\ listed'[c] = 0 /\ used' = used
            /\ box'[c].st = "none" /\ box[c].st # "none"

\* The reaper never takes a container from under an attach that was counted,
\* however quiet it is (index.mjs:438-440), not even with a list it drew up
\* before the attach came -- but for a chat where one attach was counted
\* down by both "end" and "error".
ReaperSparesRuns ==
  [][\A c \in Chats : Reaps(c) => Open(c) = {} \/ c \in twice]_vars

\* The count behind that guard is the number of attaches that are open,
\* through breaks, failed starts, teardowns and restarts: never less (a run
\* would be reaped) unless one was counted down twice, never more (the chat's
\* container would stay for good) unless a failed exec left one counted.
CountIsRuns ==
  \A c \in Chats :
    /\ c \notin twice  => attached[c] >= Cardinality(Open(c))
    /\ c \notin leaked => attached[c] <= Cardinality(Open(c))

\* A container that exists without having run is about to be started by the
\* attach that made it: none is left behind to refuse every later attach on
\* its name (index.mjs:175-177).
CreatedIsBooting ==
  \A c \in Chats : box[c].st = "created" =>
    \E a \in Attaches : run[a].at = "boot" /\ Chat(a) = c /\ run[a].on = box[c].id

\* What holds of containers and counts at every moment.
BrokerInv == TypeOK /\ CountIsRuns /\ CreatedIsBooting

\* The one pair the provider still accepts is never lost: it is in the shared
\* volume, in a chat's own file or on its way between the two -- as long as
\* no pair was unlinked uncarried and none renewed while an older copy was
\* about, in another chat or on its way (how the code can lose it).
Held == {shared} \cup {file[c] : c \in Chats} \cup {run[a].hand : a \in Attaches}
SignInKept == loose \/ newest \in Held

=============================================================================
