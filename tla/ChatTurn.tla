------------------------------ MODULE ChatTurn ------------------------------
(***************************************************************************)
(* One conversation of the portal: the requests that send, retry, edit,    *)
(* schedule, steer, stop and cancel (src/app/api/chat), the turn registry  *)
(* (src/lib/turn-stream.ts), the scheduled queue (src/lib/chat-queue.ts),  *)
(* the interjection mailbox (src/lib/interject.ts), the detached runner    *)
(* that produces a reply (src/lib/chat-turn.ts, src/lib/pipeline.ts), the  *)
(* removal of a member, the deletion of the chat and the deploy drain.     *)
(*                                                                         *)
(* The portal is one Node.js process.  An action is what runs between two  *)
(* awaits that wait on I/O: everything in between is one turn of the event *)
(* loop and cannot be interleaved.  A query and the code that resumes with *)
(* its result are one action unless something the resumed code reads can   *)
(* change in between and matters to a property.                            *)
(*                                                                         *)
(* A definition whose comment starts with "Bug:" is a plausible mistake in *)
(* the definition after it; nothing uses it but the mutation runs.         *)
(***************************************************************************)
EXTENDS Naturals, Sequences, FiniteSets, Functions

CONSTANTS
  Users, Owner,     \* the people of the chat at the start; who owns it
  Msgs,             \* the messages people type, each once
  Retries,          \* presses of Retry on the last reply
  Author,           \* [Calls -> Users]: who typed the message, who pressed Retry
  WithFiles,        \* the messages that carry attachments
  Edits,            \* the messages sent as the edit of an earlier one
  Steers,           \* the messages sent through the bare /api/chat/interject
  Opening,          \* the exchange the chat already holds, or None
  QueueCap,         \* QUEUE_CAP
  MaxRounds,        \* the tool-round budget of one turn
  MayDrain, MayDelete, MayRemove, MayUnconfigure, MayFail, \* what a run lets happen
  None

Calls == Msgs \cup Retries

ASSUME ChatAssumption ==
  /\ Owner \in Users
  /\ Msgs \cap Retries = {}
  /\ Author \in [Calls -> Users]
  /\ WithFiles \subseteq Msgs
  /\ Edits \subseteq Msgs
  /\ Steers \subseteq Msgs \ (WithFiles \cup Edits)
  /\ None \notin Calls
  /\ Opening \in Msgs \cup {None}
  /\ QueueCap \in Nat
  /\ MaxRounds \in Nat
  /\ {MayDrain, MayDelete, MayRemove, MayUnconfigure, MayFail} \subseteq BOOLEAN

VARIABLES
  \* the database
  rows,       \* the messages table: [role, call, at], ordered by at
  clock,      \* created_at of the next row
  exists,     \* the conversation row is there
  removal,    \* per person: in the chat, being removed, or gone
  configured, \* the assistant has a conversation model
  \* requests and runners
  stage,      \* where each call is
  doomed,     \* the rows an edit or a retry has decided to delete
  round,      \* tool rounds the call's turn has spent
  taken,      \* interjections the call's turn has drained but not yet applied
  \* process memory
  reg,        \* the registry's entry for the conversation
  aborted,    \* the turns whose AbortController fired
  queue,      \* the scheduled queue
  scheduled,  \* the calls runNextQueued has started
  box,        \* the interjection mailbox
  listening,  \* the mailbox is open
  draining,   \* the deploy drain is on
  deletion,   \* how far the owner's delete has got
  \* history, read by properties alone
  joined,     \* the turn that spliced the message in, or None
  lined       \* messages in the order the queue accepted them

db       == <<rows, clock, exists, removal, configured>>
calls    == <<doomed, round, taken>>
registry == <<reg, aborted>>
lineup   == <<queue, scheduled>>
mailbox  == <<box, listening>>
control  == <<draining, deletion>>
history  == <<joined, lined>>
vars     == <<db, stage, calls, registry, lineup, mailbox, control, history>>

(***************************************************************************)
(* Where a call can be.  Typed, then either the send route or the queue    *)
(* route, then startChatTurn, then (once registered) the detached runner.  *)
(***************************************************************************)
Starting == {"start", "load", "cut", "cutvoid", "write", "register"}
Hosting  == {"prepare", "model", "tools", "splice", "announce", "save", "close"}
Live     == {"publish", "leaked"} \cup Hosting
Over     == {"ended", "joined", "refused", "told", "withdrawn", "dropped", "crashed"}
Stages   == {"typed", "auth", "lookup", "queued", "offered"}
              \cup Starting \cup Live \cup Over

HasActiveTurn == reg # None /\ stage[reg] \in Live

UserRow(m)  == [role |-> "user", call |-> m, at |-> clock]
ReplyRow(c) == [role |-> "assistant", call |-> c, at |-> clock]
InChat(u)   == exists /\ removal[u] = "in"
Go(c, s)    == stage' = [stage EXCEPT ![c] = s]

\* The assistant rows at the end of a thread.
Trailing(R) ==
  {r \in R : r.role = "assistant" /\ \A s \in R : s.at > r.at => s.role = "assistant"}

\* Your own message, and nobody else has written after it.
CanEdit(me, r, R) ==
  /\ r.role = "user" /\ Author[r.call] = me
  /\ \A s \in R : s.at > r.at /\ s.role = "user" => Author[s.call] = me

\* The increasing listing of a finite set of positions (a singleton set).
Listings(P) ==
  {f \in [1..Cardinality(P) -> P] :
     /\ \A j, k \in DOMAIN f : j < k => f[j] < f[k]
     /\ Range(f) = P}

\* q without the entries in S, the others in the order they stood.
Excluding(q, S) ==
  {[k \in DOMAIN f |-> q[f[k]]] : f \in Listings({i \in DOMAIN q : q[i] \notin S})}

Init ==
  /\ rows = IF Opening = None THEN {}
            ELSE {[role |-> "user", call |-> Opening, at |-> 1],
                  [role |-> "assistant", call |-> Opening, at |-> 2]}
  /\ clock = IF Opening = None THEN 1 ELSE 3
  /\ exists = TRUE
  /\ removal = [u \in Users |-> "in"]
  /\ configured = TRUE
  /\ stage = [c \in Calls |-> IF c = Opening THEN "ended" ELSE "typed"]
  /\ doomed = [c \in Calls |-> {}]
  /\ round = [c \in Calls |-> 0]
  /\ taken = [c \in Calls |-> <<>>]
  /\ reg = Opening
  /\ aborted = {}
  /\ queue = <<>> /\ scheduled = {}
  /\ box = <<>> /\ listening = FALSE
  /\ draining = FALSE
  /\ deletion = "no"
  /\ joined = [m \in Msgs |-> None]
  /\ lined = <<>>

-----------------------------------------------------------------------------
\* Bug: the queue is shifted at its newest end.
RunNextNewest(st, busy) ==
  IF queue = <<>> \/ busy \/ draining THEN stage' = st /\ UNCHANGED lineup
  ELSE /\ stage' = [st EXCEPT ![queue[Len(queue)]] = "start"]
       /\ queue' = SubSeq(queue, 1, Len(queue) - 1)
       /\ scheduled' = scheduled \cup {queue[Len(queue)]}

(* runNextQueued, up to its first wait.  st is where the calls stand when it *)
(* is called; busy says whether a turn is running, which startChatTurn's     *)
(* early guard turns into a 409 and so into requeueFront: the shifted entry  *)
(* is back at the front.                                                     *)

RunNextQueued(st, busy) ==
  \/ /\ queue = <<>> \/ (busy /\ ~draining)
     /\ stage' = st
     /\ UNCHANGED lineup
  \/ /\ queue # <<>> /\ draining
     /\ stage' = [st EXCEPT ![Head(queue)] = "dropped"]
     /\ queue' = Tail(queue)
     /\ UNCHANGED scheduled
  \/ /\ queue # <<>> /\ ~draining /\ ~busy
     /\ stage' = [st EXCEPT ![Head(queue)] = "start"]
     /\ queue' = Tail(queue)
     /\ scheduled' = scheduled \cup {Head(queue)}

\* startChatTurn returned 409: a request is told so, a scheduled entry goes
\* back to the front of the queue.
Refuse409(c) ==
  /\ UNCHANGED scheduled
  /\ \/ c \notin scheduled /\ Go(c, "refused") /\ UNCHANGED queue
     \/ c \in scheduled /\ Go(c, "queued") /\ queue' = <<c>> \o queue

\* Bug: the failure of a scheduled entry is announced and that is all.
RefuseAndStop(c) ==
  /\ Go(c, IF c \in scheduled THEN "told" ELSE "refused")
  /\ UNCHANGED lineup

\* startChatTurn returned another refusal: a scheduled entry's failure is
\* announced (queue_failed) and the queue moves on.
Refuse(c) ==
  \/ c \notin scheduled /\ Go(c, "refused") /\ UNCHANGED lineup
  \/ c \in scheduled /\ RunNextQueued([stage EXCEPT ![c] = "told"], HasActiveTurn)

-----------------------------------------------------------------------------
(* POST /api/chat and startChatTurn *)

\* The drain gate is the first line of the route; an edit names the message
\* it replaces.
SendChat(c) ==
  /\ stage[c] = "typed" /\ c \notin Steers
  /\ Go(c, IF draining THEN "refused" ELSE "auth")
  /\ IF c \in Edits
     THEN \E r \in rows : /\ r.role = "user" /\ Author[r.call] = Author[c]
                          /\ doomed' = [doomed EXCEPT ![c] = {r}]
     ELSE UNCHANGED doomed
  /\ UNCHANGED <<db, round, taken, registry, lineup, mailbox, control, history>>

\* Session and body are in: the early guard of startChatTurn.
EnterTurn(c) ==
  /\ stage[c] = "auth"
  /\ Go(c, IF HasActiveTurn THEN "refused" ELSE "start")
  /\ UNCHANGED <<db, calls, registry, lineup, mailbox, control, history>>

\* The assistant's configuration and the person's access are read.
CheckAccess(c) ==
  /\ stage[c] = "start"
  /\ \/ /\ configured /\ InChat(Author[c])
        /\ Go(c, "load")
        /\ UNCHANGED lineup
     \/ /\ ~(configured /\ InChat(Author[c]))
        /\ Refuse(c)
  /\ UNCHANGED <<db, calls, registry, mailbox, control, history>>

\* loadConvo returns the thread; what an edit or a retry will delete is
\* decided on this reading of it.
LoadThread(c) ==
  /\ stage[c] = "load"
  /\ LET cut == IF c \in Retries THEN Trailing(rows)
                ELSE {r \in rows : \E e \in doomed[c] : r.at >= e.at}
         void    == c \in Retries /\ rows = cut
         refused == \/ ~exists
                    \/ void /\ cut = {}
                    \/ c \in Edits /\ ~ \A e \in doomed[c] :
                         e \in rows /\ CanEdit(Author[c], e, rows)
     IN \/ refused /\ Refuse(c) /\ UNCHANGED doomed
        \/ /\ ~refused
           /\ Go(c, CASE void     -> "cutvoid"
                      [] cut # {} -> "cut"
                      [] cut = {} /\ c \in Retries -> "register"
                      [] OTHER    -> "write")
           /\ doomed' = [doomed EXCEPT ![c] = cut]
           /\ UNCHANGED lineup
  /\ UNCHANGED <<db, round, taken, registry, mailbox, control, history>>

\* Bug: the delete goes by position, "this message and everything after".
CutThreadByPosition(c) ==
  /\ stage[c] = "cut" /\ Go(c, IF c \in Retries THEN "register" ELSE "write")
  /\ rows' = {r \in rows : \A e \in doomed[c] : r.at < e.at}
  /\ doomed' = [doomed EXCEPT ![c] = {}]
  /\ UNCHANGED <<clock, exists, removal, configured, round, taken,
                 registry, lineup, mailbox, control, history>>

\* deleteMany by the ids of that reading.  A retry left with no history is
\* refused only now.
CutThread(c) ==
  /\ \/ stage[c] = "cut" /\ UNCHANGED lineup
        /\ Go(c, IF c \in Retries THEN "register" ELSE "write")
     \/ stage[c] = "cutvoid" /\ Refuse(c)
  /\ rows' = rows \ doomed[c]
  /\ doomed' = [doomed EXCEPT ![c] = {}]
  /\ UNCHANGED <<clock, exists, removal, configured, round, taken,
                 registry, mailbox, control, history>>

\* The user row; the foreign key fails once the conversation is gone, and
\* startChatTurn throws.
WriteUser(c) ==
  /\ stage[c] = "write"
  /\ \/ /\ exists
        /\ rows' = rows \cup {UserRow(c)} /\ clock' = clock + 1
        /\ Go(c, "register")
     \/ ~exists /\ Go(c, "crashed") /\ UNCHANGED <<rows, clock>>
  /\ UNCHANGED <<exists, removal, configured, calls, registry, lineup,
                 mailbox, control, history>>

\* openInterjectionMailbox, at the head of the detached runner.
OpenMailbox == box' = <<>> /\ listening' = TRUE

\* A fresh entry.  The runner is detached in the same breath unless the
\* bubble's files have to be looked up first.
Admit(c) ==
  /\ reg' = c
  /\ \/ c \in WithFiles \ Edits /\ Go(c, "publish") /\ UNCHANGED mailbox
     \/ c \notin WithFiles \ Edits /\ Go(c, "prepare") /\ OpenMailbox
  /\ UNCHANGED lineup

\* Bug: the guard at the head of startChatTurn is thought to be enough.
RegisterUnchecked(c) ==
  /\ stage[c] = "register" /\ Admit(c)
  /\ UNCHANGED <<db, calls, aborted, control, history>>

\* startTurn: nobody can have got in between this look and the entry.
Register(c) ==
  /\ stage[c] = "register"
  /\ \/ HasActiveTurn /\ Refuse409(c) /\ UNCHANGED <<reg, mailbox>>
     \/ ~HasActiveTurn /\ Admit(c)
  /\ UNCHANGED <<db, calls, aborted, control, history>>

Publish(c) ==
  /\ stage[c] = "publish"
  /\ Go(c, "prepare") /\ OpenMailbox
  /\ UNCHANGED <<db, calls, registry, lineup, control, history>>

-----------------------------------------------------------------------------
(* The detached runner *)

\* Bug: the turn ends and its mailbox stays.
EndRunnerMailboxOpen(c) ==
  /\ RunNextQueued([stage EXCEPT ![c] = "ended"], FALSE)
  /\ UNCHANGED <<db, calls, registry, mailbox, control, history>>

\* The runner's finally block: mailbox closed (offers that were only a steer
\* die here, a scheduled one still has its copy in the queue), the turn
\* ended, the next scheduled message shifted.
EndRunner(c) ==
  /\ RunNextQueued([x \in Calls |-> IF x = c THEN "ended"
                                    ELSE IF x \in Range(box) /\ stage[x] = "offered" THEN "dropped"
                                    ELSE stage[x]], FALSE)
  /\ box' = <<>> /\ listening' = FALSE
  /\ UNCHANGED <<db, calls, registry, control, history>>

\* Bug: an empty reply row is created when the runner starts.
PrepareWithRow(c) ==
  /\ stage[c] = "prepare" /\ Go(c, "model")
  /\ rows' = rows \cup {ReplyRow(c)} /\ clock' = clock + 1
  /\ UNCHANGED <<exists, removal, configured, calls, registry, lineup,
                 mailbox, control, history>>

\* Files ingested, history compacted, prompt blocks built.
Prepare(c) ==
  /\ stage[c] = "prepare"
  /\ Go(c, IF c \in aborted THEN "save" ELSE "model")
  /\ UNCHANGED <<db, calls, registry, lineup, mailbox, control, history>>

\* Bug: one round too many.
ModelRoundOverBudget(c) ==
  /\ stage[c] = "model"
  /\ \/ Go(c, "save")
     \/ round[c] <= MaxRounds /\ Go(c, "tools")
  /\ UNCHANGED <<db, calls, registry, lineup, mailbox, control, history>>

\* A model round ends: in tool calls while the budget offers tools, in words,
\* or in an error that leaves nothing to save.  Stop ends it at once.
ModelRound(c) ==
  /\ stage[c] = "model"
  /\ \/ Go(c, "save")
     \/ c \notin aborted /\ Go(c, "close")
     \/ c \notin aborted /\ round[c] < MaxRounds /\ Go(c, "tools")
  /\ UNCHANGED <<db, calls, registry, lineup, mailbox, control, history>>

\* The buffered calls have run.  At the top of the next round: stop, or take
\* everything the mailbox holds.
RunTools(c) ==
  /\ stage[c] = "tools"
  /\ \/ /\ c \in aborted
        /\ Go(c, "save") /\ UNCHANGED <<round, taken, box>>
     \/ /\ c \notin aborted
        /\ Go(c, IF box = <<>> THEN "model" ELSE "splice")
        /\ round' = [round EXCEPT ![c] = @ + 1]
        /\ taken' = [taken EXCEPT ![c] = box]
        /\ box' = <<>>
  /\ UNCHANGED <<db, doomed, registry, lineup, listening, control, history>>

\* An interjection is persisted as its author's message.  A failing insert
\* ends the reply and leaves the rest of what was drained unapplied.
Splice(c) ==
  /\ stage[c] = "splice"
  /\ LET m == Head(taken[c]) IN
     \/ /\ exists
        /\ rows' = rows \cup {UserRow(m)} /\ clock' = clock + 1
        /\ joined' = [joined EXCEPT ![m] = c]
        /\ Go(c, "announce")
        /\ UNCHANGED taken
     \/ /\ ~exists \/ MayFail
        /\ Go(c, "save")
        /\ taken' = [taken EXCEPT ![c] = <<>>]
        /\ UNCHANGED <<rows, clock, joined>>
  /\ UNCHANGED <<exists, removal, configured, doomed, round, registry,
                 lineup, mailbox, control, lined>>

\* Bug: the queue keeps its copy of what was spliced.
AnnounceKeepingCopy(c) ==
  /\ stage[c] = "announce"
  /\ Go(c, IF Tail(taken[c]) = <<>> THEN "model" ELSE "splice")
  /\ taken' = [taken EXCEPT ![c] = Tail(@)]
  /\ UNCHANGED <<db, doomed, round, registry, lineup, mailbox, control, history>>

\* The runner has resolved the author: the queue drops its copy.  Resolving
\* him reads the database and may throw.
Announce(c) ==
  /\ stage[c] = "announce"
  /\ LET m    == Head(taken[c])
         rest == Tail(taken[c])
     IN \/ /\ queue' \in Excluding(queue, {m})
           /\ stage' = [stage EXCEPT
                ![m] = IF @ \in {"queued", "offered"} THEN "joined" ELSE @,
                ![c] = IF rest = <<>> THEN "model" ELSE "splice"]
           /\ taken' = [taken EXCEPT ![c] = rest]
        \/ /\ MayFail
           /\ Go(c, "save")
           /\ taken' = [taken EXCEPT ![c] = <<>>]
           /\ UNCHANGED queue
  /\ UNCHANGED <<db, doomed, round, registry, scheduled, mailbox, control, history>>

\* The reply row, unless the conversation has vanished or the insert fails.
SaveReply(c) ==
  /\ stage[c] = "save"
  /\ Go(c, "close")
  /\ \/ exists /\ rows' = rows \cup {ReplyRow(c)} /\ clock' = clock + 1
     \/ (~exists \/ MayFail) /\ UNCHANGED <<rows, clock>>
  /\ UNCHANGED <<exists, removal, configured, calls, registry, lineup,
                 mailbox, control, history>>

CloseTurn(c)  == stage[c] = "close" /\ EndRunner(c)

\* The turn's timer, and the Stop button of anyone in the chat.
HardStop(c) ==
  /\ stage[c] \in Live /\ c \notin aborted
  /\ aborted' = aborted \cup {c}
  /\ UNCHANGED <<db, stage, calls, reg, lineup, mailbox, control, history>>

StopButton(u) ==
  /\ InChat(u) /\ HasActiveTurn
  /\ aborted' = aborted \cup {reg}
  /\ UNCHANGED <<db, stage, calls, reg, lineup, mailbox, control, history>>

-----------------------------------------------------------------------------
(* A failing query *)

\* Before the turn is registered it makes startChatTurn throw: the request
\* gets a 500, a scheduled entry is gone and nothing runs the next one.
CrashStart(c) ==
  /\ MayFail /\ stage[c] \in Starting
  /\ Go(c, "crashed")
  /\ UNCHANGED <<db, calls, registry, lineup, mailbox, control, history>>

\* Between startTurn and the runner it leaves the entry with nobody to end it.
CrashPublish(c) ==
  /\ MayFail /\ stage[c] = "publish"
  /\ Go(c, "leaked")
  /\ UNCHANGED <<db, calls, registry, lineup, mailbox, control, history>>

\* In the runner it reaches the wrapper's finally.
CrashRunner(c) == MayFail /\ stage[c] = "prepare" /\ EndRunner(c)

-----------------------------------------------------------------------------
(* POST and DELETE /api/chat/queue, POST /api/chat/interject *)

\* With no reply running the route answers queued:false and the text stays
\* with the client: nothing changes.
AskQueue(m) ==
  /\ stage[m] = "typed" /\ m \in Msgs \ (Edits \cup Steers)
  /\ \/ ~InChat(Author[m]) /\ Go(m, "refused")
     \/ InChat(Author[m]) /\ HasActiveTurn /\ Go(m, "lookup")
  /\ UNCHANGED <<db, calls, registry, lineup, mailbox, control, history>>

\* Bug: no second look at the registry.
LandInQueueUnchecked(m) ==
  /\ stage[m] = "lookup" /\ Len(queue) < QueueCap
  /\ Go(m, "queued")
  /\ queue' = Append(queue, m) /\ lined' = Append(lined, m)
  /\ box' = IF listening THEN Append(box, m) ELSE box
  /\ UNCHANGED <<db, calls, registry, scheduled, listening, control, joined>>

\* The author is resolved; offer, enqueue and the second look at the registry
\* are one step, so a refused or late entry leaves no trace.
LandInQueue(m) ==
  /\ stage[m] = "lookup"
  /\ LET full == Len(queue) >= QueueCap IN
     \/ full /\ Go(m, "refused") /\ UNCHANGED <<queue, box, lined>>
     \/ ~full /\ ~HasActiveTurn /\ Go(m, "typed") /\ UNCHANGED <<queue, box, lined>>
     \/ /\ ~full /\ HasActiveTurn /\ Go(m, "queued")
        /\ queue' = Append(queue, m)
        /\ lined' = Append(lined, m)
        /\ box' = IF listening /\ m \notin WithFiles THEN Append(box, m) ELSE box
  /\ UNCHANGED <<db, calls, registry, scheduled, listening, control, joined>>

\* The bare steer: accepted only by an open mailbox, and held nowhere else.
OfferSteer(m) ==
  /\ stage[m] = "typed" /\ m \in Steers
  /\ \/ InChat(Author[m]) /\ listening /\ Go(m, "offered") /\ box' = Append(box, m)
     \/ ~(InChat(Author[m]) /\ listening) /\ Go(m, "refused") /\ UNCHANGED box
  /\ UNCHANGED <<db, calls, registry, lineup, listening, control, history>>

\* Bug: the offer to the running reply is not withdrawn.
CancelQueuedOnly(u, m) ==
  /\ InChat(u) /\ (u = Author[m] \/ u = Owner)
  /\ m \in Range(queue)
  /\ queue' \in Excluding(queue, {m})
  /\ Go(m, "withdrawn")
  /\ UNCHANGED <<db, calls, registry, scheduled, mailbox, control, history>>

\* The writer's own entry, or any entry for the chat's owner; the offer goes
\* with it.
CancelQueued(u, m) ==
  /\ InChat(u) /\ (u = Author[m] \/ u = Owner)
  /\ m \in Range(queue)
  /\ queue' \in Excluding(queue, {m})
  /\ box' \in Excluding(box, {m})
  /\ Go(m, "withdrawn")
  /\ UNCHANGED <<db, calls, registry, scheduled, listening, control, history>>

-----------------------------------------------------------------------------
(* removeMember, deleteConversationsWithStorage, /api/admin/drain *)

Withdraw(S) ==
  stage' = [x \in Calls |-> IF x \in S THEN "withdrawn" ELSE stage[x]]

\* The membership row is gone; the person's waiting words go only after two
\* more queries.
RemoveMember(u) ==
  /\ MayRemove /\ u # Owner /\ InChat(u)
  /\ removal' = [removal EXCEPT ![u] = "leaving"]
  /\ UNCHANGED <<rows, clock, exists, configured, stage, calls, registry,
                 lineup, mailbox, control, history>>

WithdrawWords(u) ==
  /\ removal[u] = "leaving"
  /\ removal' = [removal EXCEPT ![u] = "gone"]
  /\ LET theirs == {m \in Msgs : Author[m] = u} IN
       /\ queue' \in Excluding(queue, theirs)
       /\ box' \in Excluding(box, theirs)
       /\ Withdraw(theirs \cap (Range(queue) \cup Range(box)))
  /\ UNCHANGED <<rows, clock, exists, configured, calls, registry, scheduled,
                 listening, control, history>>

ClearQueued == queue' = <<>> /\ Withdraw(Range(queue)) /\ UNCHANGED scheduled

DeleteBegin ==
  /\ MayDelete /\ deletion = "no"
  /\ deletion' = "begun"
  /\ aborted' = IF HasActiveTurn THEN aborted \cup {reg} ELSE aborted
  /\ ClearQueued
  /\ UNCHANGED <<db, calls, reg, mailbox, draining, history>>

DeleteRows ==
  /\ deletion = "begun"
  /\ deletion' = "deleted"
  /\ exists' = FALSE /\ rows' = {}
  /\ UNCHANGED <<clock, removal, configured, stage, calls, registry, lineup,
                 mailbox, draining, history>>

DeleteAnnounce ==
  /\ deletion = "deleted"
  /\ deletion' = "announced"
  /\ ClearQueued
  /\ UNCHANGED <<db, calls, registry, mailbox, draining, history>>

BeginDrain ==
  /\ MayDrain /\ ~draining
  /\ draining' = TRUE
  /\ UNCHANGED <<db, stage, calls, registry, lineup, mailbox, deletion, history>>

EndDrain ==
  /\ draining
  /\ draining' = FALSE
  /\ UNCHANGED <<db, stage, calls, registry, lineup, mailbox, deletion, history>>

\* An admin clears the conversation model.
Unconfigure ==
  /\ MayUnconfigure /\ configured
  /\ configured' = FALSE
  /\ UNCHANGED <<rows, clock, exists, removal, stage, calls, registry, lineup,
                 mailbox, control, history>>

-----------------------------------------------------------------------------
\* What the server does for a call once asked.  A model round or a tool that
\* hangs is not forced to return: only Stop and the hard stop end it.
Step(c) ==
  \/ EnterTurn(c) \/ CheckAccess(c) \/ LoadThread(c) \/ CutThread(c)
  \/ WriteUser(c) \/ Register(c) \/ Publish(c)
  \/ Prepare(c) \/ Splice(c) \/ Announce(c) \/ SaveReply(c) \/ CloseTurn(c)

Work(c)  == ModelRound(c) \/ RunTools(c)
Crash(c) == CrashStart(c) \/ CrashPublish(c) \/ CrashRunner(c)

Deleting == DeleteBegin \/ DeleteRows \/ DeleteAnnounce

Next ==
  \/ \E c \in Calls : SendChat(c) \/ Step(c) \/ Work(c) \/ HardStop(c) \/ Crash(c)
  \/ \E m \in Msgs : AskQueue(m) \/ LandInQueue(m) \/ OfferSteer(m)
  \/ \E u \in Users, m \in Msgs : CancelQueued(u, m)
  \/ \E u \in Users : StopButton(u) \/ RemoveMember(u) \/ WithdrawWords(u)
  \/ Deleting \/ BeginDrain \/ EndDrain \/ Unconfigure

Spec == Init /\ [][Next]_vars

\* Queries answer, the event loop runs what they resume, timers fire, and an
\* aborted provider call or tool returns.  People owe nothing.
Fairness ==
  /\ \A c \in Calls : /\ WF_vars(Step(c))
                      /\ WF_vars(c \in aborted /\ Work(c))
                      /\ WF_vars(HardStop(c))
  /\ \A m \in Msgs : WF_vars(LandInQueue(m))
  /\ \A u \in Users : WF_vars(WithdrawWords(u))
  /\ WF_vars(DeleteRows \/ DeleteAnnounce)

FairSpec == Spec /\ Fairness

-----------------------------------------------------------------------------
(* Properties *)

Row == [role : {"user", "assistant"}, call : Calls, at : Nat]

DbOK ==
  /\ rows \subseteq Row
  /\ clock \in Nat
  /\ exists \in BOOLEAN
  /\ removal \in [Users -> {"in", "leaving", "gone"}]
  /\ configured \in BOOLEAN

StageOK == stage \in [Calls -> Stages]

CallsOK ==
  /\ doomed \in [Calls -> SUBSET Row]
  /\ round \in [Calls -> 0..MaxRounds]
  /\ taken \in [Calls -> Seq(Msgs)]

RegistryOK == reg \in Calls \cup {None} /\ aborted \subseteq Calls
LineupOK   == queue \in Seq(Msgs) /\ scheduled \subseteq Msgs
MailboxOK  == box \in Seq(Msgs) /\ listening \in BOOLEAN
ControlOK  == draining \in BOOLEAN /\ deletion \in {"no", "begun", "deleted", "announced"}
HistoryOK  == joined \in [Msgs -> Calls \cup {None}] /\ lined \in Seq(Msgs)

\* Every variable has its shape, and no turn spends more tool rounds than its
\* budget (toolRoundBudget).
TypeOK ==
  /\ DbOK /\ StageOK /\ CallsOK /\ RegistryOK
  /\ LineupOK /\ MailboxOK /\ ControlOK /\ HistoryOK

\* One reply at a time: whatever requests race, a call whose turn has begun
\* and not ended is the registry's entry, so no two generations interleave
\* (startTurn's check after all the awaits of startChatTurn).
RegistryOwnsRunner == \A c \in Calls : stage[c] \in Live => reg = c

\* The mailbox is open exactly while a runner hosts it: one turn's finally
\* never closes the mailbox of the next, and no offer is accepted with nobody
\* to drain it (interject.ts, the finally of chat-turn.ts).
MailboxFollowsRunner ==
  /\ listening <=> \E c \in Calls : stage[c] \in Hosting
  /\ listening \/ box = <<>>

\* The scheduled messages a drain dropped as the queue was shifted.
DrainDropped == {m \in Msgs \ Steers : stage[m] = "dropped"}

\* What makes it safe to drop unconsumed offers: every scheduled message in
\* the mailbox still has its copy in the queue, and a message taken out of
\* the queue is out of the mailbox too (cancel, removal, 429, late entry).
\* Only a drain drops the queue's copy and leaves the offer.
OffersKeepACopy == Range(box) \ Steers \subseteq Range(queue) \cup DrainDropped

\* No entry is stranded: while something is scheduled, either a reply is
\* running whose end will shift the queue, or the queue's own call is on its
\* way to one; or a delete is about to clear the queue, or a drain has dropped
\* an entry, which nothing shifts the queue behind.
QueueIsServed ==
  \/ queue = <<>>
  \/ HasActiveTurn
  \/ \E m \in scheduled : stage[m] \in Starting
  \/ deletion = "deleted"
  \/ DrainDropped # {}

\* A message spliced into a running reply is never also sent as a turn of
\* its own (removeQueued: the runner drops the queue's copy).
JoinedNeverRuns == \A m \in Msgs : joined[m] # None => m \notin scheduled

\* A spliced message sits above the reply that answers it, in the order every
\* reader of the thread uses.
SplicedAboveReply ==
  \A r, s \in rows :
    /\ r.role = "user" /\ s.role = "assistant"
    /\ r.call \in Msgs /\ joined[r.call] = s.call
    => r.at < s.at

\* An edit never deletes a colleague's words, even those written between its
\* reading of the thread and its delete (canEditMessage, deleteMany by id).
EditSparesColleagues ==
  [][\A c \in Edits : stage[c] = "cut" /\ stage'[c] # "cut" =>
       \A r \in rows \ rows' : r.role = "user" => Author[r.call] = Author[c]]_vars

\* The registry is a slot that one turn holds at a time, each turn holds at
\* most once, and each turn gives back.
Slot == INSTANCE ReplySlot
          WITH Turns    <- Calls,
               current  <- IF HasActiveTurn THEN reg ELSE None,
               finished <- {c \in Calls : stage[c] = "ended"}
ReplySlotHolds == Slot!SlotSpec

\* The same without the promise that turns end, which failing queries break.
ReplySlotSafe == Slot!SlotSafety

\* chat-queue.ts:8-9, "entries run in arrival order": no entry is given its
\* turn while one accepted before it has yet to be given its own.  (An entry
\* that was given its turn and refused it may be overtaken all the same.)
ServedInOrder ==
  \A i, j \in DOMAIN lined :
    i < j /\ lined[j] \in scheduled /\ stage[lined[i]] = "queued" => lined[i] \in scheduled

\* A scheduled message is never forgotten: it runs, joins a running reply, is
\* announced as failed, or goes because somebody took it away.
ScheduledSettles ==
  \A m \in Msgs : stage[m] = "queued"
                    ~> stage[m] \in {"ended", "joined", "told", "withdrawn"}

-----------------------------------------------------------------------------
(* The inductive invariant behind TypeOK, RegistryOwnsRunner,              *)
(* MailboxFollowsRunner and ReplySlotSafe (ChatTurnProofs).                *)

\* A turn that is applying interjections has one in hand.
WordsInHand ==
  \A c \in Calls : stage[c] \in {"splice", "announce"} => taken[c] # <<>>

\* A turn runs tools only within its budget.
BudgetLeft == \A c \in Calls : stage[c] = "tools" => round[c] < MaxRounds

\* The queue holds waiting messages, each once.
QueueWaits ==
  /\ \A i \in DOMAIN queue : stage[queue[i]] = "queued"
  /\ \A i, j \in DOMAIN queue : queue[i] = queue[j] => i = j

\* Nothing in the mailbox is on its way to a turn, in one, or past one.
BoxWaits ==
  \A m \in Range(box) :
    stage[m] \in {"queued", "offered", "joined", "withdrawn", "dropped"}

\* The queue, the mailbox and the registry agree on who waits and who runs:
\* no message is waiting in one place and running in another.
ChatInv ==
  /\ TypeOK /\ WordsInHand /\ BudgetLeft
  /\ RegistryOwnsRunner
  /\ QueueWaits /\ BoxWaits /\ MailboxFollowsRunner

-----------------------------------------------------------------------------
(* What the comments say and the code does not do: refuted by v_leaked_turn.  *)

\* chat-turn.ts:492-493 and 1181-1182, nothing may leave the conversation
\* "active" forever: a turn that is registered ends.
EveryTurnEnds == \A c \in Calls : stage[c] \in Live ~> stage[c] = "ended"
=============================================================================
