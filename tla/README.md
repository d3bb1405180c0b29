# OPNinfer in TLA+

OPNinfer is a self-hosted chat portal: people talk to models in shared
conversations, a Sandbox agent runs code for them in containers, and a worker
turns uploaded files into text. The portal is one Node.js process
(`src/`), next to it run a Python worker (`worker/`), a container broker
(`sandboxd/`) and PostgreSQL.

This directory models the parts of the system where concurrency and failure
decide what people see: how one conversation serialises replies, schedules and
splices the messages typed meanwhile, stops replies that hang and asks people
questions; what a browser tab shows of it; how files become text, how long
threads are summarised, how agents get their containers, their sign-in and their
spending limit; and how all of it is backed up and restored. TLC checks the
models on small instances, TLAPS proves the central safety properties of the
core for every instance.

Paths below are relative to the repository. All the portal's own state described
here is in process memory unless a table is named.

## 1. Inventory

| component | source | state | operations |
|---|---|---|---|
| chat turns | `src/lib/chat-turn.ts`, `src/app/api/chat/route.ts`, `stop/route.ts`, `src/lib/chat-rules.ts` | `messages`, `conversations` | send, edit, retry; the detached runner; `runNextQueued` |
| turn registry, hard stop | `src/lib/turn-stream.ts` | map conversation -> entry (events, subscribers, AbortController, deadline) | `startTurn`, `publishTurn`, `endTurn`, `abortTurn`, `subscribeTurn`, arm / extend / reset / clear |
| scheduled queue | `src/lib/chat-queue.ts`, `src/app/api/chat/queue/route.ts` | map conversation -> entries | enqueue, shift, requeue at the front, cancel, remove by user, clear |
| interjection mailbox | `src/lib/interject.ts`, `src/app/api/chat/interject/route.ts` | map conversation -> open mailbox | open, offer, drain, withdraw, close |
| reply pipeline | `src/lib/pipeline.ts` | one turn's messages and round count | provider rounds, tools, splice, failover |
| membership, deletion | `src/lib/sharing.ts`, `src/app/actions/conversations.ts` | `conversation_members`, `conversations` | add, remove, leave, delete |
| deploy drain | `src/lib/drain.ts`, `src/app/api/admin/drain/route.ts`, `deploy.sh` | one flag | begin, end, read |
| question cards | `src/lib/ask-mailbox.ts`, `src/lib/tools/ask.ts`, `src/app/api/chat/answer/route.ts` | map conversation -> waiting card | `openAsk`, `peekAsk`, `settleAsk`, `dismissAsk`, timer |
| sandbox agent tool | `src/lib/tools/sandbox-task.ts`, `src/lib/agent/bridge.ts` | one agent run | begin (stretch), ask, sync files, end (snap back) |
| live feed | `src/lib/live.ts`, `src/app/api/chat/live/route.ts` | viewers per conversation | subscribe, publish, detach, presence |
| web client | `src/components/chat/chat-window.tsx`, `src/components/chat/live-provider.tsx` | bubbles, the reply being followed, requests under way | load, reload, send, edit, resume, attach, read a stream, hear the feed |
| file ingestion | `worker/app/main.py`, `worker/app/db.py`, `src/lib/pool-sync.ts` | `files` rows, artifacts in the pool | claim, reclaim, finish, requeue, re-mark, flag missing |
| compaction | `src/lib/compaction.ts`, `src/lib/compaction-core.ts` | in-flight map, `conversation_compactions` | map history, plan, summarise, look for a rival, insert, boot sweep |
| memory pass | `src/lib/memory-pass.ts` | timers, memory rows | schedule, run |
| plan limits | `src/lib/agent/limits-store.ts` | one settings row | record, merge, clear, alert |
| proxy grants | `src/lib/agent/proxy-tokens.ts`, `src/app/api/agent-proxy/[...path]/route.ts` | map token -> grant | mint, look up, admit, book, revoke, prune |
| sandbox broker | `sandboxd/index.mjs` | containers, attachment counts, activity | ensure, attach, destroy, reap, capture credential |
| sign-in guard, recovery | `src/lib/login-guard.ts`, `src/lib/recovery.ts` | failures per key | record, back off, forget |
| thread order | `src/lib/thread-order.ts` | none (pure) | sort |
| backups | `src/lib/backup.ts`, `src/app/actions/backup.ts`, `src/app/api/admin/backup/restore/route.ts` | archives, one settings row, the storage tree | dump, restore, schedule, prune, save the form |
| providers; console, mail, branding | see PROJECT.json | | I/O, formatting |

### How they interact

* A request (`POST /api/chat`) calls `startChatTurn`, which awaits about a dozen
  queries, registers the turn (`startTurn`) and detaches the runner. The runner
  opens the interjection mailbox, prepares the prompt, loops over model rounds
  and tools, saves the reply and, in a `finally`, dismisses the waiting card,
  closes the mailbox, ends the turn and calls `runNextQueued`, which starts
  another `startChatTurn` for the head of the queue.
* `POST /api/chat/queue` puts one message into the queue *and* offers it to the
  running turn's mailbox. Whoever takes it first must make the other copy
  disappear: the runner by `removeQueued` after the splice, the queue by
  removing the offer on cancel.
* Stop, the hard stop and a delete fire the turn's AbortController. Provider
  calls, tools and waiting cards listen to it.
* The Sandbox tool stretches the hard stop while its agent works, and parks the
  turn on question cards; people's answers come through another request.
* A tab reads a reply from its own connection and hears of everything else over
  the live feed; on a reload it loads the thread, and resumes a running reply
  from the registry's replay buffer.
* Before the model loop a turn may have to summarise its history, alone or by
  joining the compaction that is in flight for the chat.
* An agent run attaches to the chat's container at the broker; it works on the
  shared sign-in or, through the credential proxy, on the organisation's key.
  What it wrote is found by `syncPool`, whose rows the worker then claims.
* A backup or a restore runs beside all of this and stops none of it.
* Removal of a member withdraws that person's waiting words from queue and
  mailbox. A delete aborts, clears the queue, deletes the rows, clears again.
* The drain flag is read at the head of the send route and by `runNextQueued`.

### What is hard, and what must hold

| component | hard behaviour | what makes it correct |
|---|---|---|
| chat turns | any await of `startChatTurn` can interleave with any other request, end of turn, removal or delete; any query may fail | one reply at a time; an edit takes no colleague's words; whatever began ends |
| queue and mailbox | one message in two places; ends of turns racing with enqueues, refusals and 409s | no message is lost, stranded, or answered twice; the mailbox is open exactly while someone drains it |
| hard stop | one timer re-armed by stretches and snap-backs | an agent gets its budget; the turn stays armed; stretches do not add up |
| question cards | timer, Stop, end of turn and several answers settle one promise | one card waits, nothing outlives its turn, `ok: true` is the truth |
| live feed, web client | access checked, awaited, then subscribed; two connections that keep no common order; several replies and a reload write one list of bubbles | a removed person hears nothing; settled, the screen is the thread; no tab is locked out |
| ingestion | slow or dead workers, reclaimed claims, re-marked files | `ready` means the artifact of the current contents; attempts are bounded |
| compaction | turn, sweep and another process compact the same chat while it is edited | the prompt is the thread, each row once, its history under the trigger |
| plan limits | read-modify-write of one row | no reading lost, one alert per crossing |
| proxy grants | check before, charge after; streams that break or are dropped | spending is bounded by ceiling plus calls in flight, each call is booked once, a bearer dies with its run |
| broker | reaper against attach; one rotating sign-in, many copies | no container destroyed while attached, none stranded, the newest sign-in kept |
| backups | tables and files read one after another; crash between two renames; a settings row two writers rewrite | an archive is coherent, a restore complete, the files never gone, one attempt a date |

PROJECT.json lists the hazards at their lines, with the properties that cover
them or the reason none does; section 4 adds smaller ones.

## 2. Modules

| module | models | role |
|---|---|---|
| `ReplySlot` | - | abstract: a slot turns take and give back |
| `ChatTurn` | chat turns, registry, queue, mailbox, pipeline loop, removal, deletion, drain | the core; implements `ReplySlot` |
| `MCChatTurn` | - | instances of `ChatTurn` |
| `ChatTurnProofs` | - | its theorems |
| `TurnDeadline` | hard stop and the agent call that moves it | checked as it is |
| `AskMailbox` | question cards, agent runs, answer route | |
| `MCAskMailbox` | - | instance of `AskMailbox` |
| `AskMailboxProofs` | - | its theorems |
| `Ingest` | file ingestion: worker threads, uploads, deletes, Sandbox writes, `syncPool` | checked through `MCIngest` |
| `IngestProofs` | - | its theorems |
| `ChatScreen` | turn registry's streams, live feed, one tab of the web client | checked through `MCChatScreen` |
| `ChatScreenProofs` | - | its theorems |
| `Containers` | sandbox broker | checked through `MCContainers` |
| `ContainersProofs` | - | its theorems |
| `Compaction` | compaction and its call in a turn | checked through `MCCompaction` |
| `CompactionProofs` | - | its theorems |
| `Backups` | backups | checked through `MCBackups` |
| `BackupsProofs` | - | its theorems |
| `ProxyGrants` | proxy grants and the credential proxy | checked through `MCProxyGrants` |
| `AgentRunProofs` | - | theorems of `ProxyGrants` and of `TurnDeadline`: what an agent's run may spend |

The code's atomicity is the event loop's. An action is the code between two
awaits that wait on I/O; the synchronous code that resumes belongs to the same
action as the query it waited for, unless something it reads can change in
between and matters. Promise resolutions that run as microtasks belong to the
step that resolves them.

### ChatTurn

One conversation. `stage[c]` says where each *call* (a typed message or a press
of Retry) is, which plays the role of program counters of requests and runners:

    typed -> auth -> start -> load -> [cut] -> write -> register
          -> [publish] -> prepare -> model <-> tools -> [splice <-> announce]
          -> save / close -> ended
    typed -> lookup -> queued -> start ...       (POST /api/chat/queue)
    typed -> offered -> joined | dropped         (POST /api/chat/interject)

| state | code |
|---|---|
| `rows`, `clock`, `exists`, `removal`, `configured` | `messages` (ordered by `created_at`, a distinct `clock` here), `conversations`, `conversation_members`, the assistant's model setting |
| `reg`, `aborted` | the registry's entry and fired AbortControllers |
| `queue`, `scheduled` | chat-queue's list; the calls `runNextQueued` started |
| `box`, `listening` | interject's mailbox |
| `doomed`, `round`, `taken` | locals of `startChatTurn` and of the pipeline: rows to delete, rounds spent, words drained but not applied |
| `draining`, `deletion` | drain flag; progress of the owner's delete |
| `joined`, `lined` | history only: who spliced a message; order of acceptance |

`RunNextQueued`, `Refuse` and `EndRunner` are the calls handlers make within
their own step (e.g. a refused scheduled entry passes the baton in the step that
refuses it), so no action may or may not follow.

Abstracted: texts, files (only whether a bubble's files must be looked up before
the runner is detached), titles, usage rows, events on the stream, the creation
of a new conversation, failover (part of the model round), escalation (a turn that
escalates runs a second loop of the same form, with a round budget of its own), the
grace window of ended turns (an ended entry simply stays in `reg`; the next turn
replaces it, as in `startTurn`). Access checks of cancel and stop are in one step
with their effect. `MayX` constants say which environment events a run allows.

### TurnDeadline

Minutes instead of milliseconds, and the time *left* until `deadlineAt` and
`baseDeadlineAt` instead of the clock; a time that has passed is 0, as
`Math.max(ms, remaining)` sees it. `owed` and `budget` are history.

### AskMailbox

Cards of one conversation across turns. `status` is the card's promise,
`pending` the map's entry; keeping both is the point. `stage` is how far each
submission of the answer route has got (`peekAsk`, the insert, `settleAsk`).
The route's access check and a failing insert are left out (neither touches a
card), and the card's wording.

### Ingest

The files of one chat. A *version* stands for a file's bytes and for its size:
`syncPool` recognises a rewrite by size alone (pool-sync.ts:16), so each rewrite
here changes it.

| state | code |
|---|---|
| `disk`, `arriving`, `leaving` | the pool; uploads saved without a row yet; deleted rows whose bytes are still there |
| `rows`, `used`, `artifact` | `files` rows; `.opninfer/<id>.md`, as the version it was made from |
| `job` | a worker thread: the claim it holds, what it read, the outcome |
| `sync` | a reconciliation: the listing it took, the operations it decided on and has yet to apply |

A claim ages with `Tick`, which stands for the reclaim clock; a living thread may
hold one for `Headroom < Window` ticks (the caps of config.py:39-56), a crashed
one is reclaimed after `Window`. The handlers are one step with any of their four
outcomes. `handled` counts handler runs, `crossed` marks rows claimed anew under
a busy worker: both are history.

### ChatScreen

One tab; other people, other tabs and the scheduled queue are the environment. The
server half is the registry with its replay buffer and grace timers
(turn-stream.ts), one subscription of live.ts, the rows and the membership; the
tab half is `shown` (bubbles), `held` (`abortRef`), `streams`, `posts`, `resume`,
`attach`, and the reloads: requests unanswered (`asked`), the thread taken last
(`reload`) and those taken before it that have not arrived either (`earlier`), for
nothing keeps one reload from another. A key stands for the AbortController of one
request: a turn's is the turn, which the tab asks for or is told of once, and the
page's resume has `ResumeKey`. A reply's events are `meta`, its deltas and `done`; the feed
and each reply keep their own order and not each other's. The grace window (45 s)
outlasts anything in flight, so `AfterGrace` waits until nothing is (`Settled`).
History: `behind` (something passed the screen by, set by the actions the comment
names), `stale` (the thread taken last will overwrite something newer), `slipped`
(subscribed on an access check older than the removal).

### Containers

| state | code |
|---|---|
| `box` | the container of a chat's name and its Docker id (external) |
| `activity`, `attached` | the broker's maps of the same names |
| `run` | an attach request: how far it is, the handle it uses, the CLI it runs |
| `deletes`, `listed` | teardown requests under way; what the sweep in progress has yet to visit |
| `file`, `shared`, `newest` | the sign-in: a chat's `.credentials.json`, the shared volume, what the provider accepts |

Docker, the CLI and the provider that rotates the sign-in are external: each of
their operations is one step and fails where the code handles a failure.
Sign-ins are numbered; a refresh succeeds only with the newest. `twice` and
`leaked` mark chats whose count went wrong, `loose` a sign-in that was unlinked
uncarried or renewed while an older copy was about: history, used as exemptions.
One-shot endpoints that keep no state across requests are left out.

### Compaction

The thread is a sequence of rows with a size in tokens, a summary the *set of row
ids it has absorbed*, so what a prompt loses or repeats can be read off. `turn`
is a request that loads, maps its history, perhaps waits and replies; `job` the
in-flight compaction; `sweep` the boot sweep; a rival process inserts rows of its
own (`stored`). The token estimate is the size; the summariser and its text are
external. The look for a rival and the insert are two steps, as two awaits are; the
rival is one, and so are an insert and what follows it (the token count that is
written into the row, the promise that settles): a turn that asks in between finds
the stored row and joins a compaction that is done. History: `lent`, `joined`,
`late`, `failed`, `raced`, `looked` (which reading a decision was based on).

### Backups

Of the tables, `conversations`, one that refers to it (`files`) and the backup
row of `settings`; of the storage tree, whose bytes it holds. A day has two
moments, before and after the configured hour, so that a restart, a second tick
and the next date all occur. A dump reads table by table, then walks the files; a
restore commits the database, renames the tree aside, renames the staged one into
place. Any number of dumps and restores may be under way: no lock keeps them apart.
Beside them chats are opened and deleted, and a file comes and goes in the four ways
it can: an upload (bytes, then row), `deleteFile` (row, then bytes), the Sandbox
(bytes only) and `syncPool`, which then makes or drops the row. Each look of
`syncPool` is one step with the drop it leads to and two with the row it makes; the
rows of uploads, which it flags instead of dropping, are the case where `PoolDrops`
is not taken. Zip format, the order of the other tables and streaming are abstracted;
of the settings only the backup row is kept. `touched` and `attempts` are history.

### ProxyGrants

A call costs one unit for its prompt (`message_start`) and one for its answer (the
last `message_delta`). `run` is `executeSandboxTask` as far as it concerns the
bearer, `grant` its entry in the map, `call` a request to the proxy with what it
cost (`bill`), what the code saw of it and the usage rows written. Expiry by clock is left
out: it lies past any run's budget (proxy-tokens.ts:34-36). `late`, `before` and `lost` are history.

## 3. Runs

| run | instance and bounds | shows |
|---|---|---|
| `chat_core` | 3 interchangeable messages and a steer, cap 1, 1 tool round, model may be unset, drain; symmetric | no copy is lost or stranded, no message both joins and runs, spliced words precede the reply |
| `chat_edit` | an existing exchange, its edit, a colleague's message with files, a Retry, failing queries, removal, delete | the inductive invariant (one reply at a time, mailbox follows the runner); an edit spares colleagues; the safety part of `ReplySlot` |
| `chat_live` | 3 messages of 2 people, cap 2, fair | the whole of `ReplySlot`; every scheduled message settles; nobody is given its turn while an earlier one waits for its own |
| `deadline` | 15-minute turn, agent budgets 7, 12 and 22, 3 calls, fair | budgets kept, no adding up, a snap-back gives back what was set aside, a hung turn is stopped |
| `ask` | 2 turns, 3 cards (2 an agent's), 3 answers (2 to one card), fair | one card waits, ends with its turn, `ok: true` is heard, a turn outlives its question |
| `ingest` | 1 name, 1 row, 2 worker threads, 1 reconciliation, 2 versions, 2 attempts, window 2 against headroom 1, 1 crash, fair | `ready` is the pool's contents, one thread has a row, attempts bounded, every file settles |
| `screens` | 2 turns of anybody's, 1 delta, 1 fault (a dropped connection, an unsaved reply, a restart or a removal) | settled, the screen is the thread, each row once, replies whole; a running reply is registered, a removed person hears nothing, no tab is locked out |
| `containers` | 2 chats, 2 attaches, 2 faults, 2 refreshes; symmetric | attaches are counted, none is reaped, none stranded unbooted, the newest sign-in kept |
| `compaction` | rows of size 1 and 3, trigger 4, keep 2, summary 1, 5 rows, 3 summaries stored, fair | the prompt is the thread, its history under the trigger, with the retried question; a boundary never retreats behind what the look for a rival found; no turn is left waiting |
| `backups` | 2 chats, at most one with a file to begin with, 1 manual dump beside the schedule's, 2 restores, keep 1, 2 days, 3 uses, 3 archives, 1 failure or restart, 4 events in all; symmetric | archives cohere, restores are complete, the files are never gone, one attempt a date, pruning keeps the newest |
| `grants` | 2 runs, 3 calls, ceiling 2, 1 fault; symmetric | each call booked once and in full, none admitted over the ceiling or on a dead run's bearer |
| `v_leaked_turn` | 2 messages, failing queries, fair | section 4: a turn that never ends |

`ChatInv`, `IngestInv`, `ScreenInv`, `BrokerInv`, `BackupsInv` and `GrantsInv` are
conjunctions of named parts: the module's type invariant and what holds of the
component at every moment without exemption. `PromptIsThread` likewise. The
types of `TurnDeadline` and `AskMailbox` are proved, not run.

In `chat_core` one person writes all three messages, so a permutation of them
changes nothing an invariant can see; `containers`, `grants` and `backups` permute
attaches, chats, runs, calls and restores, which their modules treat alike. The other runs check
liveness or distinguish their parties and use no symmetry. `QueueCap` is 10 in the
code, 1 or 2 here. `CHECK_DEADLOCK FALSE` where people may simply have nothing
more to type, or a bound is used up. Definitions whose comment starts with
"Bug:" are plausible mistakes; for each part of each property of a passing run
PROJECT.json names one that breaks it.

Why these bounds suffice. The races of `ChatTurn` are between at most three
parties: a runner that ends, an entry that starts and a request that comes in
between; a queue cap of one with three senders reaches the full queue, the 409
that puts an entry back, and the refusal that passes the baton, a cap of two an
order to keep. One tool round
is enough to splice and to exhaust the budget. `TurnDeadline` has budgets
shorter than what a fresh turn has, shorter than the whole and longer, and three
calls, so that a stretch meets a snapped-back and an un-stretched deadline.
`AskMailbox` needs two cards in one agent run, two answers to one card and a
second turn for a late answer to land in. In `Ingest` rows do not interact, and
the races over one need an old and a new content, a holder and a reclaimer, and
one reconciliation that is overtaken. In `ChatScreen` a reply is confused with the
next one, and one fault per behaviour separates causes; reloads are as many as the
feed asks for, of which an edit elsewhere and a connection that comes back give two;
what it takes three turns
to reach (an own reply still read while another is asked for, and an edit of the
second of two questions) is beyond the run and covered by the proof, which has any
number of turns. `Containers` needs two attaches, of one chat (the second arrives while
the first winds down) or of two (which share the sign-in), and two refreshes for an
old copy to come back. `Compaction`'s sizes are one below and one above the kept
tail, so that a turn fits it, does not, or alone reaches the trigger; five
rows are two exchanges and a question; three summaries are one that stands and two
that race.
`Backups` has two dates, two chats, so that one is used while a restore is judged by
the other, two restores that may overlap, and three archives, so that a manual one
finishes between the listing of retention and its deletes. One of the chats may have
a file to begin with, the other gets one by an upload. All of these together are
more than TLC covers, so `MaxEvents` bounds how many happen in one behaviour: uses,
faults, archives and midnights; four reach each of the races named, the theorems
have no such bound.
`ProxyGrants`' ceiling is reached by one whole call, so the third call of a run,
or the second beside one in flight, meets it.

`OffersKeepACopy` is checked without deletes, which empty the queue on purpose and
leave the offers to the runner's `finally`. `QueueIsServed`, `JoinedNeverRuns` and
`SplicedAboveReply` need that no query fails: one that fails in `startChatTurn`
strands the rest of the queue until the next end of a turn, and one that fails
between a splice and `removeQueued` leaves the queue's copy to run
(pipeline.ts:243-265, chat-turn.ts:846). `DrainDropped` exempts from the first two
what a drain does (section 4). What survives everything is `ChatInv`,
`ReplySlotSafe`, `ServedInOrder` and `EditSparesColleagues`.

Exemptions. Where the code has a window that its comment does not own up to,
a history variable marks exactly the entities that went through it and the
property speaks of all others: `crossed` (Ingest), `behind`, `slipped` (ChatScreen),
`twice`, `leaked`, `loose` (Containers), `lent`, `late`, `raced` (Compaction),
`undone`, `cleared`, `touched` (Backups), `quit`, `lost` (ProxyGrants). Section 4
says what happens in those windows.

### Fairness

`ChatTurn`: queries answer and what they resume runs (`WF` of each call's
`Step`), an aborted provider call or tool returns (`c \in aborted /\ Work(c)`),
the hard stop fires (a `setTimeout` that is always armed, see `TurnDeadline`),
a removal or delete that began goes on. A model round that hangs owes nothing,
nor does anybody at a keyboard. `TurnDeadline`: time passes and timers fire.
`AskMailbox`: timers fire, an agent run ends (its wall clock), a runner with
nothing to wait for ends its turn; nobody has to answer. `Ingest`: while a
thread could claim or go on, or a claim could age, one of these happens (threads
poll, and every handler has a timeout); which of them is not said, so the
guarantee rests on the bounded attempts alone. `Compaction`: the queries of a compaction answer, its summariser answers
or fails. The latter rests on the request timeouts of the provider clients:
compaction passes no signal, so the hard stop does not reach it. The other modules
state safety only.

## 4. Where code and text disagree

`v_leaked_turn` is a run whose counterexample is the disagreement: two awaits
between `startTurn` and the runner's `try` (chat-turn.ts:510, 546) are covered by
no handler; if one throws, the conversation is busy for good, where the comment
at 492-493 says it must never be.

The others are windows the models have. No run states them as a property; those
marked with a history variable are what the properties exempt.

Conversation:

* the 409 of `startTurn` (chat-turn.ts:489) comes after the user row is written
  (454), where 257-258 promises the opposite: a scheduled entry that loses this
  race is requeued and writes its row a second time;
* an end of turn may shift the second entry while the first is still between its
  guard and `startTurn` (chat-queue.ts:8-9, docs/V05_SHARED_CHATS.md:63-64). What
  holds is `ServedInOrder`: nobody is *given* its turn before an earlier one is;
* a cancel answers `cancelled: true` for words the runner has drained and not yet
  inserted (pipeline.ts:251); they land (V05:64-65);
* an agent call shorter than what the turn has left makes the snap-back forget the
  rest: five minutes instead of up to fifteen (turn-stream.ts:170 against 179-180);
* the loser of two racing answers stays in the thread (answer/route.ts:93 against
  the comment at 44);
* of two people who send at once the second is refused with a 409 rather than
  scheduled (V05:152-154);
* a drain that begins while a reply runs drops the scheduled message the reply's
  end shifts (chat-turn.ts:1222; README.md:128-129 "handed back rather than lost").
  If the shift was the baton of a refused entry while another reply runs, the
  dropped message's offer stays in that reply's mailbox and may still be spliced;
  what stood behind it waits for the next end of a turn, also when the drain is
  called off (1219-1228);
* a send that passed the drain gate registers its turn long after
  (api/chat/route.ts:62);
* a person's words that were already drained, or past the access check of the
  queue route, land after their removal (sharing.ts:172-179);
* a Retry deletes a reply behind which another exchange has been written
  meanwhile (chat-turn.ts:327): `CutThread` goes by the ids it had read;
* a delete aborts the turn that runs; one about to register generates for a chat
  that is gone (actions/conversations.ts:42);
* a failover that throws loses the interjections drained in the failed loop
  (pipeline.ts:810 against 769-771);
* the queue route stores no workflow, so a scheduled message runs without the one
  that was chosen (chat-window.tsx:1312).

Screen: what `behind` marks. A feed that reconnects makes the tab reload only if
the tab had seen an error, so what happens before the first subscription, or
between two, is not made up for (live-provider.tsx:88); an announcement that
arrives while the tab follows another reply is dropped and not asked for again
(chat-window.tsx:1350), and a reload drops what a reply that is no longer held had
streamed (1393); a request to attach gets whatever turn has replaced the one it
was made for (turn-stream.ts:59); and an attach that is answered after the person
has sent puts the older reply below their question (1362), where an edit of the
question, which cuts the bubbles by position and the rows by the message (1269),
takes it off the screen and leaves it in the thread. Reloads are neither numbered nor
aborted (chat-window.tsx:1376-1407, started at 1442): when an edit elsewhere and a
resync, or two edits, start two and the older answer arrives last, the old thread
stays on a screen that has settled, until something else changes it; an older answer
that arrives before the newest is put right by it and not exempt. `slipped`:
live/route.ts:39 checks access, awaits, subscribes.

Files: `crossed`: finish guards the status, not the claim (db.py:89-95, 110), so an
old outcome can land on a row that was marked pending and claimed anew. Beside the
model: a rewrite of the same size is not noticed (documented, pool-sync.ts:16),
deletes and rewrites of a reconciliation act on rows read before (171, 197), and a
preview is taken for current by times a second apart (office-preview.ts:45).

Containers: `twice`, `leaked`: `end` and `error` of one stream both count down
(index.mjs:522) and an exec that fails after counting never does (456), where
438-441 says "Counted down when the exec stream ends"; the first can get a run
reaped, the second keeps a container for good. `loose`: a sign-in one chat renewed can be
unlinked before it is carried over, or overwritten by an older copy on its way
(285-297). An abort waits for no answer of the broker (spawn.ts:196).

Compaction: `lent`: a turn that joins a compaction begun from other rows indexes
its own rows with the starter's boundary (compaction.ts:143), so a message can
fall between summary and tail or a deleted one come back; `late`: history is
mapped before the trigger is checked against another reading (chat-turn.ts:417),
where docs/V07_CONTEXT_COMPACTION.md section 4b promises a prompt under the trigger;
and what is compared is the history (578), without the message that was just sent,
so the prompt as a whole may reach it: `HistoryUnderTrigger` speaks of the history.
A question larger than the kept tail is summarised away, also the one a Retry asks
(chat-turn.ts:316-318), and its reply is kept without it (compaction-core.ts:45-50);
the boundary "only moves forward" (50-52) past what the job found when it looked
for a rival, as `BoundaryAdvances` states it: a rival that inserts between that
look (compaction.ts:243) and the insert (251) may have reached further, and the
newest summary then covers less, nothing being lost (`PromptIsThread`). limits.ts:102-103 takes half the trigger for a kept
tail that leaves room for the summary; with the least trigger allowed it need not,
against section 4b of the same document (`Roomy`, section 5).

Spending: `quit`: a run that dies between minting and its `try`
(sandbox-task.ts:148) leaves a bearer that lives until it expires (against 276). An
answer read whole (agent-proxy/route.ts:219) is not booked if its caller leaves
before it has arrived, nor is one whose row could not be written (`lost`). Plan
limits: readings are merged by read-modify-write of one settings row
(limits-store.ts:43), so what limits.ts:155-156 promises, that an older reading
never overwrites a newer one, is true of the merge and not of the row.

Backups: `undone`: a save of the form that had read the row before the stamp, or a
restore, puts the date back and the schedule runs again (backup.ts:740-741);
`touched`: docs/DEPLOYMENT.md:108 calls the archive a snapshot, but tables
are read one after another (363) and the files after them, so a chat opened, deleted
or restored meanwhile may be there in part, and a file deleted or removed by the
Sandbox between the read of `files` and the walk (actions/files.ts:18-19) leaves a row
without bytes in it. Nothing keeps two restores apart (527): the tables of one may end
up over the tree of the other, or one fails because the other has put its tree in
place (658). A reconciliation between the two renames of a restore (657-658) finds no
pool, which it takes for an empty one (pool-sync.ts:161), and drops the rows of the
chat's generated files.

## 5. Proofs

Assumptions are the `ASSUME`s of the modules, all on constants: who wrote what,
that sets do not overlap, that budgets and bounds are natural numbers. Some sets
are finite: chats (their directories), dumps, restores, attaches, worker threads, calls to the
proxy. `ProxyGrants` has a name that is no run's, `Ingest` ids are numbers
(autoincrement), `Backups` has a configured hour with a moment before it
(`MaxClock >= 2`). A theorem that needs more says so: `~MayFail` or `~MayDelete`,
as in section 3, or `Roomy`, below.

In every module the property itself is seldom inductive; what had to be added is
what the code relies on and does not say.

* `ChatTurnProofs`. `ChatInv` is inductive: types, `WordsInHand`, `BudgetLeft`,
  `RegistryOwnsRunner`, `QueueWaits`, `BoxWaits`, `MailboxFollowsRunner`.
  `RegistryOwnsRunner` alone is not: the end of a runner starts the queue's
  head, so nothing in the queue may be running, which needs the queue free of
  repetitions and the mailbox free of starting calls, which `requeueFront` and
  the splice must keep. The step lemma (`WaitStep`) also says what each step
  does to the registry, from which `SlotImplemented` follows: `ReplySlot` is
  implemented, with faults, removals, deletes and drains. What each step does to
  a message's copies (`CopyStep`), to the rows (`RowStep`) and to the rows an edit
  has decided on (`CutStep`) is proved once; the rest follows from these:
  - `HandInv` (words in hand wait, and are out of the mailbox) makes
    `OffersKeepACopy` inductive without deletes (`OffersAreCopies`);
  - with `JoinInv`, what has joined is in no queue and owes no turn
    (`JoinedStaysJoined`, no query failing);
  - `ThreadInv` (rows have distinct times, all past; a reply is written by a turn
    that has closed) puts spliced words above their reply (`SplicedBeforeReply`,
    no query failing);
  - `CutInv` (an edit about to delete has decided on its author's rows only) gives
    `EditSparesColleagues` (`EditsSpare`), with no hypothesis;
  - `LineInv` (the queue stands in the order of acceptance, but for entries that
    had been given their turn, which come first) gives `ServedInOrder`
    (`InArrivalOrder`), with no hypothesis and any cap;
  - `ServeInv` adds to `QueueIsServed` what a delete under way leaves behind
    (`NobodyStranded`, no query failing). A drain's exemption is reached with
    more senders than `chat_core` has, and is part of what is proved.
* `AskMailboxProofs`. `AskInv` is inductive as it stands; `SettledOnce` follows
  from it as an action property. Theorems: `AskInvariant`, `AskTyped`, `OneWaits`,
  `WaitEndsWithTurn`, `OkIsTruth`, `SettledForGood`.
* `AgentRunProofs`, the time and the money of an agent's run. Time: `DeadlineInv`
  adds to the properties of `TurnDeadline` a bound on the remembered deadline, which
  the snap-back arms again. That the snap-back gives back what the stretch had set
  aside (`SnapBackKept`) needs besides that the deadline in force, or the remembered
  one while a call stretches it, covers what is left of the turn's own budget
  (`RememberedStep`). Theorems: `DeadlineInvariant`, `DeadlineTyped`,
  `AgentBudgetKept`, `TurnStaysArmed`, `StretchesDoNotAddUp`, `SnapBackKept`.
  Money: `BookInv` says of `ProxyGrants` how far the booking of one call can be
  wherever its stream broke (`CallsBookedInFull`). `LedgerInv` relates the calls to
  the bearer: what the grant has spent is the sum of what its settled calls cost,
  and a call let in found less than the ceiling (`CeilingKept`, `GrantsKept`). The
  sum needs that a bearer not yet minted has no calls.
* `CompactionProofs`. What a tail weighs is a fold; that it is its first row and
  the rest, and that a shorter tail weighs no more, follows from the fold's own
  recursion at the positions of the tail and a least counterexample. The invariant
  is built in layers, each inductive with those before it:
  - `TurnInv`: a reply follows its question, and a turn's rows are the thread,
    without the message the turn itself adds once that is written;
  - `ListsInv`: in the copies of a thread (the table, what the turn, the job and
    the sweep have read) ids ascend, and copies that share a row share what
    precedes it;
  - `NewestInv`, `JobInv`, `WaitInv`: the newest summary holds exactly the rows up
    to its boundary, in every copy that has that row, and so does the one a job
    goes on from; what a job leaves fits the kept tail;
  - `FollowInv`: the boundary row of the newest summary is a reply, larger than the
    kept tail, or has a question after it, which an edit may have deleted and be
    about to write again;
  - `HistoryInv`, `LightInv`: a history splits its turn's rows, between turns unless
    it summarises all of them, and weighs less than the trigger.

  Without a hypothesis: a compaction never covers less than the newest it found when
  it looked for a rival (`BoundaryNeverRetreats`), and every row of a turn is sent, once, and
  no other (`PromptIsEachRowOnce`).

  `PromptIsTheThread`, `RetriesAsk` and `HistoriesAreLight` assume
  `Roomy == SummarySize + Keep < Trigger`. limits.ts:103-104 gives the clamp of the
  kept tail to half the trigger that purpose ("must leave room for the summary").
  The clamp alone does not ensure it: a summary is at most 40,000 characters, about
  10,000 tokens (compaction-core.ts:140), so it holds with the defaults
  (20,000 + 10,000 < 96,000) and fails only for a trigger near the least one allowed,
  20,000, with half of it kept and a summary at its limit. There a compaction can
  leave a prompt over the trigger, which is compacted again although its tail fits,
  all of it (selectBoundary), so that a retried question is summarised away:
  with `SummarySize = 2` in compaction.cfg TLC finds `HistoryUnderTrigger` and `RetryAsks`
  violated. Theorems: `CompactionTyped` and those named above.
* `ContainersProofs`. `ContainersInv` adds to `BrokerInv` that no more attaches
  can be counted than there are (`RoomToCount`), that the container an attach
  has created is one that is booting, and where the pair the provider accepts is:
  in the shared volume, in a chat's file, or in the hand of a copy under way
  (`NewestIsStored`, `HandIsFull`). Theorems: `BrokerCounts`, `SignInIsKept` and the
  action property `ReaperSpares`.
* `IngestProofs`. `PoolInv` orders what the parts know of a file: ids are given
  once, nobody has a version that was not in the pool, and for a row never
  crossed the thread whose claim stands is the only one and its text at least
  as new as the row's size; claims count against attempts. Theorems: `PoolKept`,
  `ClaimsAreKept` (`IngestInv`), `ReadyTextIsCurrent`.
* `BackupsProofs`. `StoreInv` says what a dump, a restore and the schedule have read
  or done so far agrees with for every chat nobody touched meanwhile (`DumpOK`,
  `RestoreOK`, for each dump and each restore), that no date anybody holds is later
  than the attempt's (`StampsOK`, `OnceOK`), that one of the two trees stands (`TreeOK`), and that pruning counts
  the archives it is not about to delete (`PruneOK`). Theorems: `StoreKept`,
  `BackupsHold`, `ArchivesAreWhole`, `RestoreIsArchive`, and the action property
  `PruningKeeps`.
* `ChatScreenProofs`. `TabInv` is built in layers, since even the types are not
  inductive: a bubble has at most a reply's deltas because its text is as long as
  what its stream has read (`TextInv`), and that holds because no two streams
  write under one key (`KeyInv`: a turn is posted, attached to or resumed under a
  key that is not in use). `TextInv` also makes replies with an id whole
  (`RepliesAreWhole`). `ScreenHolds` (`ScreenInv`) adds what the registry's timers
  and the removal do. `ShownOnceHolds` needs that a message has one row and one
  bubble, a reply one row and one bubble with its id, a stream one bubble
  (`RowInv`, `OnceInv`), and that a bubble without an id is still written or has no
  row, unless something passed the screen by (`DoneInv`): so that a reload or an
  announcement cannot show a reply beside the bubble it was streamed into.
  `CaughtUpHolds` needs the opposite, that nothing can be missing, and so two more
  layers. `BasisInv` holds of every screen: a turn that was asked for has its
  request, the feed carries only others' messages and only to a subscription, a
  reply with a row or an id was saved. `ArriveInv` speaks of one that nothing has
  passed by so far (`Watching`): every reply that runs is read, asked for or
  announced (`RunningComes`), a request or stream has its bubbles (`Bubbled`), an
  own edit on its way is alone and shows what the server will have (`EditAlone`),
  a reload to be shown has the replies the screen and the older answers have
  (`SnapFresh`, so that one of those may still come in between); and either
  every row is shown or on its way and nothing else is (`Complete`, `Exact`), or a
  reload of the whole thread is due (`Due`), or what is on its way will pass the
  screen by (`Doomed`). At rest nothing is due or on its way, and what is left is
  `CaughtUp`. Beside an older reload shown last two cases fall outside,
  and `behind` marks them: an own edit below a
  reply that stands out of order cuts the screen elsewhere than the thread
  (`OutOfOrder`, section 4), and a thread that is taken while a reply runs that the
  tab has stopped reading lacks it (`Unheard`, also of an own turn whose stream
  broke). Both take three turns, so `screens` does not reach them.

Only model-checked:

* liveness, which needs fairness and `ENABLED`: `ReplySlotHolds` beyond its safety
  part, `ScheduledSettles`, `HungTurnIsStopped`, `TurnOutlivesQuestion`,
  `EveryFileSettles`, `TurnIsNotHeldUp`.

## 6. Plan

Modelled first: the conversation (`ChatTurn`), the two clocks of a turn
(`TurnDeadline`, `AskMailbox`), then what surrounds it; proved in the same order.
Next: modules for the memory pass and plan limits, and the file route's uploads
against quotas.

## 7. Not modelled

* Memory pass, plan limits, sign-in guard and recovery, thread order: small, and
  named in the plan where a property is worth stating.
* Providers, models, the admin console, mail and branding: I/O and formatting around
  single statements. File handlers of the worker and the one-shot endpoints of the
  broker keep no state across calls.
* Of the web client everything but what a tab does with the thread: rendering, the
  composer, panels, the artifact viewer, the sidebar. Test scripts under
  `scripts/` exercise the parts above.
* Of modelled components: files, titles, usage rows and stream texts of a turn;
  failover and escalation of the pipeline; adding members and leaving; the wait
  loop of deploy.sh; zip format and table order of a backup; expiry of a bearer.

Most of the repository is user interface, scripts and formatting, where steps of
two parties do not meet; PROJECT.json gives the reason for each component.
