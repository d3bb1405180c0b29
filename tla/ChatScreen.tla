----------------------------- MODULE ChatScreen -----------------------------
(***************************************************************************)
(* What one browser tab shows of a shared chat while other people, other   *)
(* tabs and the scheduled queue use it.                                    *)
(*                                                                         *)
(* The server keeps the rows, one entry of the turn registry with the      *)
(* events of the reply so far (turn-stream.ts), and one subscription of    *)
(* the live feed per tab (live.ts).  The tab keeps bubbles, at most one    *)
(* reply it says it is following (abortRef), and whatever it has asked the *)
(* server for.  A reply is read from its own connection, the feed from     *)
(* another: they keep their own order and not each other's.                *)
(*                                                                         *)
(* A reply's events are `meta`, one `text` per delta and `done`; what the  *)
(* tab has not read yet might as well not have been published.  Turns of   *)
(* everybody else, and of the queue, are the environment.                  *)
(***************************************************************************)
EXTENDS Integers, Sequences, FiniteSets, SequencesExt, FiniteSetsExt

CONSTANTS
    MaxTurns,     \* bound: turns anybody asks for
    Deltas,       \* text events of a reply
    MaxFaults     \* bound: connections that drop, replies that are not saved, restarts of the
                  \* server, and the removal of the person

ASSUME ScreenAssumption == {MaxTurns, Deltas, MaxFaults} \subseteq Nat

Turns == 1..MaxTurns

\* The tab's requests and streams, each with an AbortController of its own: the
\* one for a turn, which the tab asks for or is told of once, and the one the page
\* resumes with.
ResumeKey == MaxTurns + 1
Keys      == 1..ResumeKey

VARIABLES
    \* the server
    phase,      \* Turns -> progress of a turn
    mine,       \* turns this tab asked for (exceptClient)
    target,     \* Turns -> the turn whose message it edits, 0 for a plain send
    kept,       \* turns whose reply was saved
    rows,       \* the thread in the database, oldest first
    reg,        \* the turn registry's entry, 0 if none
    timers,     \* ended turns whose grace timer is pending
    member,     \* the person is in the chat
    detached,   \* removeMember has cut their connections off
    \* the feed's connection
    sub,        \* what the server holds for it
    wire,       \* events on their way to the tab
    hadError,   \* the tab saw the connection fail
    \* the tab
    page, shown, held, streaming, streams, posts, resume, attach, lost,
    asked,      \* threads asked for: nothing keeps one reload from another
    reload,     \* the one taken last, on its way
    earlier,    \* those taken before it that are still on their way
    \* history, and what the bounds count
    behind,     \* something passed this screen by since its last full load
    stale,      \* the thread taken last will overwrite something newer
    slipped,    \* subscribed with an access check older than the removal
    faults

server  == <<phase, mine, target, kept, rows, reg, timers>>
access  == <<member, detached>>
feed    == <<sub, wire, hadError>>
reloads == <<asked, reload, earlier>>
tab     == <<page, shown, held, streaming, streams, posts, resume, attach, reloads, lost>>
history == <<behind, stale, slipped>>
vars == <<server, access, feed, tab, history, faults>>

Row(who, t) == [who |-> who, turn |-> t]
Rows == [who : {"user", "reply"}, turn : Turns]

\* A bubble: `key` names the stream that writes it, `known` says it has its row's id.
Bubble(who, t, k, kn, n) == [who |-> who, turn |-> t, key |-> k, known |-> kn, text |-> n]
Bubbles == [who : {"user", "reply"}, turn : Turns, key : Keys \cup {0}, known : BOOLEAN,
            text : 0..Deltas]
Stream == [key : Keys, turn : Turns, pos : 0..(Deltas + 2)]
Post   == [key : Keys, turn : Turns]
NoReload == [stage |-> "none", snap |-> <<>>]
Reload == [stage : {"taken", "gone"}, snap : Seq(Bubbles)]
Events == [type : {"message", "turn_started", "thread_changed", "resync", "chat_removed"},
           turn : Turns \cup {0}]

TypeOK ==
    /\ phase \in [Turns -> {"none", "posted", "starting", "running", "saved", "ended",
                            "refused", "lost"}]
    /\ mine \subseteq Turns /\ target \in [Turns -> 0..MaxTurns]
    /\ kept \subseteq Turns
    /\ rows \in Seq(Rows) /\ reg \in 0..MaxTurns /\ timers \subseteq Turns
    /\ member \in BOOLEAN /\ detached \in BOOLEAN
    /\ sub \in {"none", "asked", "checked", "blind", "viewing", "away", "down"}
    /\ wire \in Seq(Events) /\ hadError \in BOOLEAN
    /\ page \in {"closed", "loaded", "mounted"} /\ shown \in Seq(Bubbles)
    /\ held \in Keys \cup {0} /\ streaming \in BOOLEAN
    /\ streams \subseteq Stream /\ posts \subseteq Post
    /\ resume \in {"none", "asked"} /\ attach \subseteq Turns
    /\ asked \in Nat /\ reload \in Reload \cup {NoReload} /\ earlier \in Seq(Reload)
    /\ lost \in BOOLEAN /\ behind \in BOOLEAN /\ stale \in BOOLEAN /\ slipped \in BOOLEAN
    /\ faults \in 0..MaxFaults

Init ==
    /\ phase = [t \in Turns |-> "none"] /\ mine = {} /\ target = [t \in Turns |-> 0]
    /\ kept = {} /\ rows = <<>> /\ reg = 0 /\ timers = {}
    /\ member = TRUE /\ detached = FALSE
    /\ sub = "none" /\ wire = <<>> /\ hadError = FALSE
    /\ page = "closed" /\ shown = <<>> /\ held = 0 /\ streaming = FALSE
    /\ streams = {} /\ posts = {} /\ resume = "none" /\ attach = {}
    /\ asked = 0 /\ reload = NoReload /\ earlier = <<>> /\ lost = FALSE
    /\ behind = FALSE /\ stale = FALSE /\ slipped = FALSE
    /\ faults = 0

Unused == {t \in Turns : phase[t] = "none"}
Active == reg /= 0 /\ phase[reg] \in {"running", "saved"}
\* Bug: the runner's catch publishes `done` a second time.
PublishedTwice(t) == CASE phase[t] = "saved" -> 1 + Deltas
                       [] phase[t] = "ended" -> 3 + Deltas
                       [] OTHER -> 1

\* Events published for a turn so far: `meta` when it registers, its text, `done`.
Published(t) == CASE phase[t] = "saved" -> 1 + Deltas
                  [] phase[t] = "ended" -> 2 + Deltas
                  [] OTHER -> 1

\* The entries of a sequence at the positions P, in the order they stand.
At(q, P) ==
    [k \in 1..Cardinality(P) |->
        q[CHOOSE i \in P : Cardinality({j \in P : j <= i}) = k]]

\* Turns are numbered as they are asked for.
NextTurn(t) == t \in Unused /\ \A u \in Unused : t <= u

Loaded(rs) ==
    [i \in DOMAIN rs |-> Bubble(rs[i].who, rs[i].turn, 0, TRUE,
                                IF rs[i].who = "reply" THEN Deltas ELSE 0)]
\* The tab reads no reply and has asked for none.
Idle == streams = {} /\ posts = {} /\ resume = "none" /\ attach = {}
\* No thread is asked for or on its way.
NoneAsked == asked = 0 /\ reload = NoReload /\ earlier = <<>>
Following(t) ==
    \/ \E s \in streams : s.turn = t
    \/ \E i \in DOMAIN shown : shown[i].who = "reply" /\ shown[i].turn = t /\ shown[i].known

\* The rows that bubbles show; a reply without its row's id shows none yet.
ShownIn(q) == {Row(q[i].who, q[i].turn) :
                  i \in {j \in DOMAIN q : q[j].who = "user" \/ q[j].known}}

Users(rs) == {i \in DOMAIN rs : rs[i].who = "user"}
LastUser(rs) == Max(Users(rs))

-----------------------------------------------------------------------------
(* The feed's fan-out (live.ts publishToChat): to a tab that is viewing the *)
(* chat, unless the turn is its own.                                        *)

Event(type, t) == [type |-> type, turn |-> t]

PublishToChat(evs) == wire' = IF sub = "viewing" THEN wire \o evs ELSE wire

\* What a registration makes this screen miss: the announcement, when nobody
\* is listening; the reply it replaces, when that was loaded unfinished and not
\* resumed yet; and that an edit deleted the message it announces.
Missed(t) ==
    /\ page /= "closed"
    /\ \/ t \notin mine /\ sub /= "viewing"
       \/ (page = "loaded" \/ resume = "asked") /\ reg /= 0 /\ ~Following(reg)
       \/ Row("user", t) \notin ToSet(rows)

-----------------------------------------------------------------------------
(* Turns (chat-turn.ts startChatTurn and runTurn, turn-stream.ts).          *)

\* A person may edit the last thing anybody said, if it is theirs.
Editable(t) == t /= 0 /\ \E i \in DOMAIN rows : rows[i] = Row("user", t) /\ i = LastUser(rows)
CutAt(t) == SubSeq(rows, 1, (CHOOSE i \in DOMAIN rows : rows[i] = Row("user", t)) - 1)
WithMessage(t, k) == (IF k = 0 THEN rows ELSE CutAt(k)) \o <<Row("user", t)>>

\* The early refusals, then the message's row (an edit deletes what follows).
Start(t) ==
    /\ phase[t] = "posted"
    /\ IF Active \/ ~member \/ (target[t] /= 0 /\ ~Editable(target[t]))
       THEN phase' = [phase EXCEPT ![t] = "refused"] /\ rows' = rows
       ELSE phase' = [phase EXCEPT ![t] = "starting"] /\ rows' = WithMessage(t, target[t])
    /\ UNCHANGED <<mine, target, kept, reg, timers, access, feed, tab, history, faults>>

\* The same for somebody else's send or edit, or the queue's next message.
StartElsewhere ==
    /\ ~Active
    /\ \E t \in Turns, k \in {0} \cup {j \in Turns \ mine : Editable(j)} :
          /\ NextTurn(t)
          /\ phase' = [phase EXCEPT ![t] = "starting"]
          /\ target' = [target EXCEPT ![t] = k]
          /\ rows' = WithMessage(t, k)
    /\ UNCHANGED <<mine, kept, reg, timers, access, feed, tab, history, faults>>

\* startTurn: one running turn per chat; the other screens are told.  The tab
\* that asked reads the stream from the answer to its own request.
Register(t) ==
    /\ phase[t] = "starting"
    /\ IF Active
       THEN /\ phase' = [phase EXCEPT ![t] = "refused"]
            /\ behind' = (behind \/ page /= "closed")
            /\ UNCHANGED <<reg, wire, posts, streams>>
       ELSE /\ phase' = [phase EXCEPT ![t] = "running"]
            /\ reg' = t
            /\ IF t \in mine THEN wire' = wire ELSE
               PublishToChat(<<Event(IF target[t] = 0 THEN "message" ELSE "thread_changed", t),
                               Event("turn_started", t)>>)
            /\ behind' = (behind \/ Missed(t))
            /\ posts' = {p \in posts : p.turn /= t}
            /\ streams' = streams \cup {[key |-> p.key, turn |-> t, pos |-> 0] :
                                            p \in {q \in posts : q.turn = t}}
    /\ UNCHANGED <<mine, target, kept, rows, timers, access, sub, hadError, page, shown,
                   held, streaming, resume, attach, reloads, lost, stale, slipped, faults>>

\* All its text is published and its row is written; a reply with nothing in
\* it, or whose save fails, has no row.
SaveReply(t) ==
    /\ phase[t] = "running"
    /\ phase' = [phase EXCEPT ![t] = "saved"]
    /\ \/ kept' = kept \cup {t} /\ rows' = Append(rows, Row("reply", t)) /\ faults' = faults
       \/ faults < MaxFaults /\ faults' = faults + 1 /\ UNCHANGED <<kept, rows>>
    /\ UNCHANGED <<mine, target, reg, timers, access, feed, tab, history>>

\* `done` is published, and endTurn keeps the events for the grace period.
EndTurn(t) ==
    /\ phase[t] = "saved"
    /\ phase' = [phase EXCEPT ![t] = "ended"]
    /\ timers' = timers \cup {t}
    /\ UNCHANGED <<mine, target, kept, rows, reg, access, feed, tab, history, faults>>

\* 45 seconds: longer than a request or an event is under way (only a turn may
\* run on).
Settled ==
    /\ resume = "none" /\ attach = {} /\ page /= "loaded"
    /\ wire = <<>> /\ NoneAsked
    /\ sub \in {"none", "viewing", "away"}
    /\ \A p \in posts : phase[p.turn] \notin {"posted", "starting", "refused", "lost"}
    /\ \A s \in streams : phase[s.turn] = "running" /\ s.pos = 1
    /\ \A t \in Turns : phase[t] /= "starting"

\* Bug: the timer drops the entry whoever's it is by then.
DropEntry(t) == 0

\* The timer removes its own entry only.
AfterGrace(t) == IF reg = t THEN 0 ELSE reg

GraceExpires(t) ==
    /\ t \in timers /\ Settled
    /\ timers' = timers \ {t}
    /\ reg' = AfterGrace(t)
    /\ UNCHANGED <<phase, mine, target, kept, rows, access, feed, tab, history, faults>>

\* The registry, the grace timers and every connection are gone; rows stay.
Restart ==
    /\ faults < MaxFaults
    /\ faults' = faults + 1
    /\ phase' = [t \in Turns |-> IF phase[t] \in {"none", "ended", "refused"} THEN phase[t]
                                                                          ELSE "lost"]
    /\ reg' = 0 /\ timers' = {}
    /\ wire' = <<>>
    /\ sub' = IF page = "mounted" THEN "down" ELSE sub
    /\ hadError' = (page = "mounted")
    /\ behind' = (behind \/ page /= "closed")
    /\ resume' = "none"
    /\ attach' = {} /\ held' = IF held \in attach THEN 0 ELSE held
    /\ asked' = 0
    /\ UNCHANGED <<mine, target, kept, rows, access, page, shown, streaming, streams,
                   posts, reload, earlier, lost, stale, slipped>>

-----------------------------------------------------------------------------
(* Membership (sharing.ts removeMember): the rows, then the connections.    *)

RemoveMember ==
    /\ member /\ faults < MaxFaults
    /\ faults' = faults + 1
    /\ member' = FALSE
    /\ UNCHANGED <<server, detached, feed, tab, history>>

\* Bug: the person is told, but their connection keeps viewing the chat.
StillViewing(s) == s

\* live.ts detachViewer, then chat_removed to every tab of theirs.
DetachViewer(s) == IF s = "viewing" THEN "away" ELSE s

Detach ==
    /\ ~member /\ ~detached
    /\ detached' = TRUE
    /\ sub' = DetachViewer(sub)
    /\ wire' = IF sub \in {"viewing", "away"} THEN Append(wire, Event("chat_removed", 0)) ELSE wire
    /\ UNCHANGED <<server, member, hadError, tab, history, faults>>

-----------------------------------------------------------------------------
(* The feed's connection (api/chat/live/route.ts, live-provider.tsx).       *)

CheckAccess ==
    /\ sub = "asked"
    /\ sub' = IF member THEN "checked" ELSE "blind"
    /\ UNCHANGED <<server, access, wire, hadError, tab, history, faults>>

\* An await later the connection is registered with what the check said.  A
\* tab that had lost its connection reloads when it is back.
Subscribe ==
    /\ sub \in {"checked", "blind"}
    /\ sub' = IF sub = "checked" THEN "viewing" ELSE "away"
    /\ slipped' = (slipped \/ (sub = "checked" /\ detached))
    /\ wire' = IF hadError THEN <<Event("resync", 0)>> ELSE wire
    /\ hadError' = FALSE
    /\ UNCHANGED <<server, access, tab, behind, stale, faults>>

CutFeed ==
    /\ sub \in {"viewing", "away"} /\ faults < MaxFaults
    /\ faults' = faults + 1
    /\ sub' = "down" /\ hadError' = TRUE /\ wire' = <<>>
    /\ behind' = (behind \/ wire /= <<>>)
    /\ UNCHANGED <<server, access, tab, stale, slipped>>

Reconnect ==
    /\ sub = "down"
    /\ sub' = "asked"
    /\ UNCHANGED <<server, access, wire, hadError, tab, history, faults>>

-----------------------------------------------------------------------------
(* The tab opens the chat: the page renders the thread, then its effects    *)
(* ask for a reply to resume and for the feed.  A tab that leaves only      *)
(* detaches, and starts from here when it is back: this is one stay.        *)

LoadPage ==
    /\ page = "closed" /\ member
    /\ page' = "loaded" /\ shown' = Loaded(rows)
    /\ UNCHANGED <<server, access, feed, held, streaming, streams, posts, resume, attach, reloads,
                   lost, history, faults>>

Mount ==
    /\ page = "loaded"
    /\ page' = "mounted" /\ resume' = "asked" /\ sub' = "asked"
    /\ UNCHANGED <<server, access, wire, hadError, shown, held, streaming, streams, posts, attach,
                   reloads, lost, history, faults>>

-----------------------------------------------------------------------------
(* Asking (chat-window.tsx send, editMessage, runStream).                   *)

\* A user bubble, the placeholder of the reply, and the request.
AskFor(before, k) ==
    \E t \in Turns :
       /\ NextTurn(t)
       /\ phase' = [phase EXCEPT ![t] = "posted"]
       /\ mine' = mine \cup {t} /\ target' = [target EXCEPT ![t] = k]
       /\ shown' = before \o <<Bubble("user", t, 0, FALSE, 0), Bubble("reply", t, t, FALSE, 0)>>
       /\ held' = t /\ streaming' = TRUE
       /\ posts' = posts \cup {[key |-> t, turn |-> t]}
       /\ stale' = (stale \/ reload.stage = "taken")

Send ==
    /\ page = "mounted" /\ ~lost /\ ~streaming
    /\ AskFor(shown, 0)
    /\ UNCHANGED <<kept, rows, reg, timers, access, feed, page, streams, resume, attach,
                   reloads, lost, behind, slipped, faults>>

\* Above its i-th bubble the screen shows something else than the thread has: a
\* reply that was attached to after the person had sent again stands below the
\* question it came before.
OutOfOrder(i) ==
    Row("user", shown[i].turn) \in ToSet(rows) =>
        ShownIn(SubSeq(shown, 1, i - 1)) /= ToSet(CutAt(shown[i].turn))

\* The thread is cut on screen at once; the server does the same when it agrees.
EditMessage ==
    /\ page = "mounted" /\ ~lost /\ ~streaming
    /\ \E i \in DOMAIN shown :
        /\ shown[i].who = "user" /\ shown[i].known /\ shown[i].turn \in mine
        /\ AskFor(SubSeq(shown, 1, i - 1), shown[i].turn)
        /\ behind' = (behind \/ ~Idle \/ OutOfOrder(i))
    /\ UNCHANGED <<kept, rows, reg, timers, access, feed, page, streams, resume, attach,
                   reloads, lost, slipped, faults>>

\* A refusal, or a request that died: the error is shown, the bubbles stay.
Refused(p) ==
    /\ p \in posts /\ phase[p.turn] \in {"refused", "lost"}
    /\ posts' = posts \ {p}
    /\ held' = 0 /\ streaming' = FALSE
    /\ shown' = [i \in DOMAIN shown |->
                    IF shown[i].key = p.key THEN [shown[i] EXCEPT !.key = 0] ELSE shown[i]]
    /\ behind' = TRUE
    /\ UNCHANGED <<server, access, feed, page, streams, resume, attach, reloads, lost, stale,
                   slipped, faults>>

-----------------------------------------------------------------------------
(* Attaching to a reply that runs already (api/chat/stream/route.ts).       *)

\* Bug: the registry forgets a turn as soon as it ends.
RunningOnly == IF member /\ Active THEN reg ELSE 0

\* The entry is there while the turn runs and through its grace period.
Resumable == IF member THEN reg ELSE 0

\* Bug: the tab follows from now on, without the replay.
FollowLive(t, k) ==
    /\ shown' = Append(shown, Bubble("reply", t, k, FALSE, 0))
    /\ streams' = streams \cup {[key |-> k, turn |-> t, pos |-> Published(t)]}
    /\ streaming' = TRUE

\* A placeholder at the end of the thread, and the replay from the start.
Follow(t, k) ==
    /\ shown' = Append(shown, Bubble("reply", t, k, FALSE, 0))
    /\ streams' = streams \cup {[key |-> k, turn |-> t, pos |-> 0]}
    /\ streaming' = TRUE

\* The answer is a stream of the entry or nothing; it takes the hold whatever else has it.
AnswerResume ==
    /\ resume = "asked"
    /\ resume' = "none"
    /\ IF Resumable = 0
       THEN UNCHANGED <<shown, held, streaming, streams>>
       ELSE Follow(Resumable, ResumeKey) /\ held' = ResumeKey
    /\ UNCHANGED <<server, access, feed, page, posts, attach, reloads, lost, history, faults>>

\* attachToTurn's request was made for a turn, and gets whatever is there now.
AnswerAttach(t) ==
    /\ t \in attach
    /\ attach' = attach \ {t}
    /\ behind' = (behind \/ (Resumable /= t /\ ~Following(t)))
    /\ IF Resumable = 0
       THEN /\ held' = IF held = t THEN 0 ELSE held
            /\ UNCHANGED <<shown, streaming, streams>>
       ELSE Follow(Resumable, t) /\ held' = held
    /\ UNCHANGED <<server, access, feed, page, posts, resume, reloads, lost, stale, slipped,
                   faults>>

-----------------------------------------------------------------------------
(* Events of the feed (chat-window.tsx useLiveEvents), in order.            *)

Ev == Head(wire)
Receive(type) == page = "mounted" /\ wire /= <<>> /\ Ev.type = type /\ wire' = Tail(wire)

Ignore ==
    /\ page = "mounted" /\ wire /= <<>> /\ lost /\ Ev.type /= "chat_removed"
    /\ wire' = Tail(wire)
    /\ UNCHANGED <<server, access, sub, hadError, tab, history, faults>>

HasUser(t) == \E i \in DOMAIN shown : shown[i].who = "user" /\ shown[i].turn = t

WithBubble(t) == IF HasUser(t) THEN shown ELSE Append(shown, Bubble("user", t, 0, TRUE, 0))

OnMessage ==
    /\ ~lost /\ Receive("message")
    /\ shown' = WithBubble(Ev.turn)
    /\ stale' = (stale \/ reload.stage = "taken")
    /\ behind' = (behind \/ Row("user", Ev.turn) \notin ToSet(rows))
    /\ UNCHANGED <<server, access, sub, hadError, page, held, streaming, streams, posts, resume,
                   attach, reloads, lost, slipped, faults>>

\* attachToTurn: nothing while the tab holds another reply.
OnTurnStarted ==
    /\ ~lost /\ Receive("turn_started")
    /\ IF held /= 0
       THEN /\ behind' = (behind \/ ~Following(Ev.turn))
            /\ UNCHANGED <<held, attach>>
       ELSE /\ attach' = attach \cup {Ev.turn}
            /\ held' = Ev.turn
            /\ behind' = behind
    /\ UNCHANGED <<server, access, sub, hadError, page, shown, streaming, streams, posts, resume,
                   reloads, lost, stale, slipped, faults>>

\* An edit elsewhere, or a connection that came back, whatever is asked for already.
OnReload ==
    /\ ~lost /\ (Receive("thread_changed") \/ Receive("resync"))
    /\ asked' = asked + 1
    /\ UNCHANGED <<server, access, sub, hadError, page, shown, held, streaming, streams, posts,
                   resume, attach, reload, earlier, lost, history, faults>>

\* The reply that holds the tab is detached from; another one is not.
OnRemoved ==
    /\ Receive("chat_removed")
    /\ lost' = TRUE
    /\ held' = 0
    /\ streaming' = (streaming /\ held = 0)
    /\ streams' = {s \in streams : s.key /= held}
    /\ posts' = {p \in posts : p.key /= held}
    /\ attach' = attach \ {held}
    /\ UNCHANGED <<server, access, sub, hadError, page, shown, resume, reloads, history, faults>>

-----------------------------------------------------------------------------
(* Reloading the thread (chat-view.ts, chat-window.tsx reloadThread).       *)

\* A reply that runs, and that nothing on its way will bring to this screen.
Unheard(t) ==
    /\ phase[t] = "running" /\ ~Following(t)
    /\ \A i \in DOMAIN wire : wire[i] /= Event("turn_started", t)

\* The server answers one of the requests.
TakeThread ==
    /\ asked > 0 /\ asked' = asked - 1
    /\ earlier' = IF reload = NoReload THEN earlier ELSE Append(earlier, reload)
    /\ IF member
       THEN /\ reload' = [stage |-> "taken", snap |-> Loaded(rows)]
            /\ behind' = (behind /\ ~(Idle /\ sub = "viewing" /\ \A t \in Turns : ~Unheard(t)))
       ELSE reload' = [NoReload EXCEPT !.stage = "gone"] /\ behind' = behind
    /\ stale' = ~Idle
    /\ UNCHANGED <<server, access, feed, page, shown, held, streaming, streams, posts, resume,
                   attach, lost, slipped, faults>>

\* What is being streamed in has no row yet and is kept.
Live == IF held = 0 THEN <<>>
        ELSE At(shown, {i \in DOMAIN shown : shown[i].who = "reply" /\ ~shown[i].known})

\* An answer replaces the thread on screen; without access there is none.
Show(answer) ==
    IF answer.stage = "gone" THEN lost' = TRUE /\ UNCHANGED shown
    ELSE shown' = answer.snap \o Live /\ lost' = lost

ShowThread ==
    /\ reload.stage \in {"taken", "gone"}
    /\ reload' = NoReload /\ stale' = FALSE
    /\ Show(reload)
    /\ behind' = (behind \/ (reload.stage = "taken" /\ (stale \/ ~Idle)))
    /\ UNCHANGED <<server, access, feed, page, held, streaming, streams, posts, resume, attach,
                   asked, earlier, slipped, faults>>

\* Answers do not keep the order in which the threads were taken: an older one
\* passes unnoticed only if the one taken last is still to be shown after it.
ShowEarlier(i) ==
    /\ earlier' = RemoveAt(earlier, i)
    /\ Show(earlier[i])
    /\ behind' = (behind \/ stale \/ ~Idle \/ reload.stage /= "taken")
    /\ UNCHANGED <<server, access, feed, page, held, streaming, streams, posts, resume, attach,
                   asked, reload, stale, slipped, faults>>

-----------------------------------------------------------------------------
(* Reading a reply (chat-window.tsx processStream).                         *)

Write(s, b) == [i \in DOMAIN shown |-> IF shown[i].key = s.key THEN b ELSE shown[i]]
LoadedElsewhere(s) ==
    \E i \in DOMAIN shown : shown[i].key /= s.key /\ shown[i].known
                            /\ shown[i].who = "reply" /\ shown[i].turn = s.turn

\* Bug: the replayed copy of a reply that was loaded stays beside it.
KeepReplayed(s) ==
    [i \in DOMAIN shown |-> IF shown[i].key = s.key THEN [shown[i] EXCEPT !.known = TRUE]
                                                    ELSE shown[i]]

\* `done` brings the row's id, if there is one: a loaded copy wins over the replayed one.
Completed(s) ==
    IF s.turn \notin kept THEN shown
    ELSE IF LoadedElsewhere(s) THEN At(shown, {i \in DOMAIN shown : shown[i].key /= s.key})
    ELSE [i \in DOMAIN shown |-> IF shown[i].key = s.key THEN [shown[i] EXCEPT !.known = TRUE]
                                                         ELSE shown[i]]

\* `meta` gives the person's bubble its row's id; whatever adds to the reply (its
\* words, tools, files, pictures) counts as one more piece of its text.
AfterEvent(s) ==
    IF s.pos = 0 THEN [i \in DOMAIN shown |->
                        IF shown[i].who = "user" /\ shown[i].turn = s.turn
                        THEN [shown[i] EXCEPT !.known = TRUE] ELSE shown[i]]
    ELSE IF s.pos <= Deltas THEN [i \in DOMAIN shown |->
                        IF shown[i].key = s.key THEN [shown[i] EXCEPT !.text = @ + 1] ELSE shown[i]]
    ELSE Completed(s)

\* An edit has deleted the reply whose end arrives only now.
DeletedReply(t) == t \in kept /\ Row("reply", t) \notin ToSet(rows)

ReadEvent(s) ==
    /\ s \in streams /\ s.pos < Published(s.turn)
    /\ shown' = AfterEvent(s)
    /\ streams' = (streams \ {s}) \cup {[s EXCEPT !.pos = @ + 1]}
    /\ stale' = (stale \/ (reload.stage = "taken" /\ s.pos > Deltas))
    /\ behind' = (behind \/ (s.pos > Deltas /\ DeletedReply(s.turn)))
    /\ UNCHANGED <<server, access, feed, page, held, streaming, posts, resume, attach, reloads,
                   lost, slipped, faults>>

\* Bug: a reply that broke off keeps the tab's hold.
HoldUnlessDone(s) == IF s.pos > Deltas + 1 THEN 0 ELSE held

\* However it ends, the tab is free again (whoever holds it by then).
HoldAfter(s) == 0

StopReading(s) ==
    /\ streams' = streams \ {s}
    /\ held' = HoldAfter(s) /\ streaming' = FALSE
    /\ shown' = [i \in DOMAIN shown |->
                    IF shown[i].key = s.key THEN [shown[i] EXCEPT !.key = 0] ELSE shown[i]]
    /\ UNCHANGED <<server, access, feed, page, posts, resume, attach, reloads, lost, stale,
                   slipped>>

ReadEnd(s) ==
    /\ s \in streams /\ phase[s.turn] = "ended" /\ s.pos = Published(s.turn)
    /\ StopReading(s) /\ UNCHANGED <<behind, faults>>

ReadBroken(s) ==
    /\ s \in streams
    /\ \/ phase[s.turn] = "lost" /\ faults' = faults
       \/ phase[s.turn] /= "lost" /\ faults < MaxFaults /\ faults' = faults + 1
    /\ StopReading(s) /\ behind' = TRUE

-----------------------------------------------------------------------------
Server == \/ StartElsewhere
          \/ \E t \in Turns : \/ Start(t) \/ Register(t) \/ SaveReply(t)
                              \/ EndTurn(t) \/ GraceExpires(t)
Answers == \/ AnswerResume \/ CheckAccess \/ Subscribe \/ TakeThread
           \/ \E t \in Turns : AnswerAttach(t)
Faults  == Restart \/ CutFeed \/ RemoveMember \/ Detach
Person  == LoadPage \/ Mount \/ Send \/ EditMessage
OnEvent == Ignore \/ OnMessage \/ OnTurnStarted \/ OnReload \/ OnRemoved
Browser == \/ Reconnect \/ ShowThread \/ OnEvent
           \/ \E i \in DOMAIN earlier : ShowEarlier(i)
           \/ \E p \in posts : Refused(p)
           \/ \E s \in streams : ReadEvent(s) \/ ReadEnd(s) \/ ReadBroken(s)

Next == Server \/ Answers \/ Faults \/ Person \/ Browser

Spec == Init /\ [][Next]_vars

-----------------------------------------------------------------------------
(* Properties.                                                              *)

InChat == page = "mounted" /\ member /\ ~lost
Quiet ==
    /\ InChat /\ sub = "viewing" /\ wire = <<>>
    /\ Idle /\ NoneAsked
    /\ \A t \in Turns : phase[t] \in {"none", "ended", "refused", "lost"}
OnScreen == ShownIn(shown)

\* When everything has settled the screen shows the rows of the thread and no
\* others, whatever its connections delivered first and however many reloads
\* overlapped, unless something is known to have passed it by (`behind`: see the
\* actions that set it), such as an older reload answered last.
\* chat-window.tsx:1376-1454, turn-stream.ts:44-48 and 132-145.
CaughtUp == Quiet /\ ~behind => OnScreen = ToSet(rows)

\* ... and shows each once, also when the same reply was loaded, resumed and
\* attached to at the same time (chat-window.tsx:1004-1023).
ShownOnce ==
    Quiet /\ ~behind =>
        \A i, j \in DOMAIN shown :
            /\ shown[i].who = shown[j].who /\ shown[i].turn = shown[j].turn
            /\ shown[i].who = "user" \/ shown[i].turn \in kept
            => i = j

\* A reply that carries its row's id is all there, however late the tab joined
\* the stream (turn-stream.ts:126-145).
WholeReplies ==
    \A i \in DOMAIN shown :
        shown[i].who = "reply" /\ shown[i].known => shown[i].text = Deltas

\* The timer of an ended turn never takes a running one out of the registry
\* (turn-stream.ts:119-122): it could be neither resumed, nor stopped, nor
\* protected from a second one.
RunningIsRegistered == \A t \in Turns : phase[t] \in {"running", "saved"} => reg = t

\* Once removeMember has cut a person off, their tab is told nothing more of
\* the chat; unless it was connecting at that moment (live.ts:89-105).
RemovedHearNothing == detached /\ ~slipped => sub /= "viewing"

\* A tab is not locked out: what it says it is following is a request or a
\* stream that is still there and will end, with streams that break, servers
\* that restart and several replies read at once.  A hold that nothing backs
\* would keep the tab from every later reply (chat-window.tsx:1034-1036,
\* 1160-1169 and 1348-1368).
HoldIsBacked ==
    held /= 0 => \/ \E s \in streams : s.key = held
                 \/ \E p \in posts : p.key = held
                 \/ held \in attach

\* What holds of the connections at every moment: the registry has the running
\* turn, a removed person's feed is cut, and a tab that says it is following a
\* reply is.
ScreenInv == TypeOK /\ RunningIsRegistered /\ RemovedHearNothing /\ HoldIsBacked

=============================================================================
