------------------------------ MODULE NoteBody ------------------------------
(***************************************************************************)
(* The body the mobile app caches of one note: what puts it there, and     *)
(* when a reopened note shows it without reading the server.               *)
(*                                                                         *)
(*   filen-shared/src/remoteChange.ts (class PushEchoes): this device's    *)
(*     own pushes, recognised by content when the socket sends them back;  *)
(*   notes/notesOffline.ts (refreshAfterRemoteEdit, commitContent): a note *)
(*     that is not on screen follows the edits the socket announces;       *)
(*   notes/queries/useNoteContent.query.ts: the memory of the query's own  *)
(*     reads, against the socket's session (queries/socketSession.ts).     *)
(*                                                                         *)
(* NotesSync and NotesEditor are about what becomes of the edits; here a   *)
(* pass is its request, and a prompt one of two answers.  Versions of the  *)
(* note on the server are numbered, and a version's text is history[v]: a  *)
(* text saved again is another version.  The sequence numbers and          *)
(* timestamps of a read are only compared with those of later events and   *)
(* connects: what is kept is whether one came since it began.              *)
(***************************************************************************)
EXTENDS Naturals, SequencesExt, FiniteSetsExt

CONSTANTS MaxPerItem,  \* PushEchoes.maxPerItem, 8 in the code
          Faults,      \* what may go wrong, see the actions
          MaxVersions, \* bound: versions of the note on the server
          MaxEarly,    \* bound: those of them before the ledger is loaded
          MaxPushes,   \* bound: pushes sent
          MaxGaps      \* bound: times the socket goes down

ASSUME NoteBodyAssumption ==
  /\ MaxPerItem \in Nat \ {0}
  /\ MaxVersions \in Nat \ {0} /\ MaxEarly \in Nat
  /\ MaxPushes \in Nat /\ MaxGaps \in Nat

VARIABLES history, \* the texts of the server's versions, oldest first
          channel, \* versions whose event is on its way to this device
          socket,  \* the socket is connected
          pushes,  \* PushEchoes: hashes of the pushes not heard back
          queued,  \* the note's unsynced edit, or 0
          push,    \* the push under way
          open,    \* the note is on screen
          asked,   \* and asks about an edit made elsewhere
          body,    \* the version the content query holds
          read,    \* the content query's read under way
          current, \* contentReads: the last read, no event or connect since it began
          refresh, \* refreshAfterRemoteEdit()'s request
          loaded,  \* the ledger of marked notes is in memory
          waits    \* calls of refreshAfterRemoteEdit() that await load(), oldest first

\* What the code does not keep and the properties need.
VARIABLES mine,    \* the versions this device pushed
          verdict, \* the event delivered last and what it was taken for
          unheard, \* texts pushed whose echo was not recognised: failed, missed, unreadable
          evicted, \* texts PushEchoes dropped at its limit
          late,    \* what waited was put over a newer body, and no read or push returned since
          sent,    \* pushes sent
          gaps     \* times the socket went down

server == <<history, mine>>
wire == <<channel, socket, gaps>>
echoes == <<pushes, unheard, evicted>>
outbox == <<queued, push, sent>>
screen == <<open, asked>>
cached == <<body, read, current, late>>
ledger == <<loaded, waits>>
refreshing == <<refresh, ledger>>
vars == <<server, wire, echoes, outbox, screen, cached, refreshing, verdict>>

Idle == [stage |-> "idle", version |-> 0, fresh |-> FALSE]
NoPush == [stage |-> "idle", text |-> 0, version |-> 0]
NoRefresh == [stage |-> "idle", observed |-> 0, version |-> 0]

\* What awaits load(): an event with its own text, and the pushes made when it
\* came; or the refresh.
Event(version) == [version |-> version, known |-> mine]
Fetch == [version |-> 0, known |-> {}]

Newest == Len(history)
Texts == 0 .. (MaxVersions + MaxPushes)

\* Texts nobody wrote before: another device's, and this one's, which is the
\* same until it is pushed.
TheirText == Newest + 1
MyText == MaxVersions + sent + 1

\* Types, with what each request under way carries.
TypeOK ==
  /\ history \in Seq(Texts \ {0}) /\ Newest \in 1 .. MaxVersions
  /\ channel \in Seq(1 .. Newest) /\ socket \in BOOLEAN
  /\ pushes \in Seq(Texts \ {0}) /\ Len(pushes) <= MaxPerItem
  /\ queued \in Texts
  /\ push \in [stage : {"idle", "sent", "landed"}, text : Texts, version : 0 .. Newest]
  /\ open \in BOOLEAN /\ asked \in BOOLEAN /\ (asked => open)
  /\ body \in 1 .. Newest
  /\ read \in [stage : {"idle", "asked", "answered"}, version : 0 .. Newest, fresh : BOOLEAN]
  /\ read.stage # "idle" => open
  /\ current \in BOOLEAN
  /\ refresh \in [stage : {"idle", "loading", "waiting", "asked", "answered"},
                  observed : Texts, version : 0 .. Newest]
  /\ loaded \in BOOLEAN /\ late \in BOOLEAN
  /\ waits \in Seq([version : 0 .. Newest, known : SUBSET (1 .. Newest)])
  /\ mine \in SUBSET (1 .. Newest)
  /\ verdict \in [event : 0 .. Newest, own : BOOLEAN, readable : BOOLEAN]
  /\ unheard \in SUBSET Texts /\ evicted \in SUBSET Texts
  /\ sent \in 0 .. MaxPushes /\ gaps \in 0 .. MaxGaps
-----------------------------------------------------------------------------
\* A slip: the limit is not kept.
RememberAll(text) == pushes' = Append(pushes, text) /\ UNCHANGED evicted

\* PushEchoes.remember(), before the push is sent.
Remember(text) ==
  LET all == Append(pushes, text)
      drop == IF Len(all) > MaxPerItem THEN 1 ELSE 0
  IN /\ pushes' = SubSeq(all, 1 + drop, Len(all))
     /\ evicted' = IF drop = 1 THEN evicted \cup {Head(all)} ELSE evicted

\* PushEchoes.isOwn(): one of the pushes has the text.
IsOwn(text) == text \in ToSet(pushes)

\* A slip: only the match is consumed.
AfterMatchOnly(text) ==
  LET match == SelectInSeq(pushes, LAMBDA hash : hash = text)
  IN IF match = 0 THEN pushes ELSE RemoveAt(pushes, match)

\* A slip: a match stays.
AfterNothing(text) == pushes

\* It takes the match and every older push with it.
AfterMatch(text) ==
  LET match == SelectInSeq(pushes, LAMBDA hash : hash = text)
  IN SubSeq(pushes, match + 1, Len(pushes))
-----------------------------------------------------------------------------
Init ==
  /\ history = <<1>> /\ channel = <<>> /\ socket = TRUE
  /\ pushes = <<>> /\ queued = 0 /\ push = NoPush
  /\ open = FALSE /\ asked = FALSE
  /\ body = 1 /\ read = Idle /\ current = FALSE /\ refresh = NoRefresh
  /\ loaded = FALSE /\ waits = <<>> /\ late = FALSE
  /\ mine = {} /\ verdict = [event |-> 0, own |-> FALSE, readable |-> TRUE]
  /\ unheard = {} /\ evicted = {} /\ sent = 0 /\ gaps = 0

\* The server makes a version and tells every session that is connected.  That
\* it is the text which a refresh under way expects to replace is the fault
\* "sameText".
Lands(text) ==
  /\ Newest < MaxVersions /\ (Newest < MaxEarly \/ loaded)
  /\ "sameText" \in Faults \/ refresh.stage = "idle" \/ text # refresh.observed
  /\ history' = Append(history, text)
  /\ channel' = IF socket THEN Append(channel, Newest + 1) ELSE channel

\* Another device of the account saves the note: a new text, or an earlier
\* version again; the very text this device is pushing only with "sameText".
RemoteEdit ==
  /\ \E text \in {TheirText} \cup ToSet(history) :
       /\ text # history[Newest]
       /\ "sameText" \in Faults \/ text # push.text
       /\ Lands(text)
  /\ UNCHANGED <<mine, socket, gaps, echoes, outbox, screen, cached, refreshing, verdict>>

\* The socket goes down, or a background tears its listener down: what it sent
\* is missed.
Disconnect ==
  /\ socket /\ gaps < MaxGaps
  /\ socket' = FALSE /\ channel' = <<>> /\ gaps' = gaps + 1
  /\ unheard' = unheard \cup {history[v] : v \in ToSet(channel) \cap mine}
  /\ UNCHANGED <<server, pushes, evicted, outbox, screen, cached, refreshing, verdict>>

\* A slip: a read begun during the gap is trusted after it.
ConnectForgetting ==
  /\ ~socket /\ socket' = TRUE
  /\ UNCHANGED <<server, channel, gaps, echoes, outbox, screen, cached, refreshing, verdict>>

\* connectedAt is now: no read begun before belongs to the session.
Connect ==
  /\ ~socket /\ socket' = TRUE
  /\ current' = FALSE /\ read' = [read EXCEPT !.fresh = FALSE]
  /\ UNCHANGED <<server, channel, gaps, echoes, outbox, screen, body, late, refreshing,
                 verdict>>
-----------------------------------------------------------------------------
\* The user types into the open editor.
Type ==
  /\ open /\ sent < MaxPushes
  /\ queued' = MyText
  /\ UNCHANGED <<server, wire, echoes, push, sent, screen, cached, refreshing, verdict>>

\* setContent(): remember, then the request.  A note that asks is held.
PassPushes ==
  /\ queued # 0 /\ push.stage = "idle" /\ ~asked /\ sent < MaxPushes
  /\ Remember(queued)
  /\ push' = [stage |-> "sent", text |-> queued, version |-> 0]
  /\ sent' = sent + 1
  /\ UNCHANGED <<server, wire, unheard, queued, screen, cached, refreshing, verdict>>

PushLands ==
  /\ push.stage = "sent"
  /\ Lands(push.text)
  /\ mine' = mine \cup {Newest + 1}
  /\ push' = [push EXCEPT !.stage = "landed", !.version = Newest + 1]
  /\ unheard' = IF socket THEN unheard ELSE unheard \cup {push.text}
  /\ UNCHANGED <<socket, gaps, pushes, evicted, queued, sent, screen, cached,
                 refreshing, verdict>>

\* The pushed text goes into the cache; what was typed meanwhile stays queued.
PushReturns ==
  /\ push.stage = "landed"
  /\ body' = push.version /\ late' = FALSE
  /\ queued' = IF queued = push.text THEN 0 ELSE queued
  /\ push' = NoPush
  /\ UNCHANGED <<server, wire, echoes, sent, screen, read, current, refreshing, verdict>>

\* The request fails before the server performed it, or only its answer is
\* lost.  What was remembered stays.
PushFails ==
  /\ \/ push.stage = "sent" /\ "requestFails" \in Faults
     \/ push.stage = "landed" /\ "lostReply" \in Faults
  /\ push' = NoPush
  /\ unheard' = IF push.stage = "sent" THEN unheard \cup {push.text} ELSE unheard
  /\ UNCHANGED <<server, wire, pushes, evicted, queued, sent, screen, cached,
                 refreshing, verdict>>
-----------------------------------------------------------------------------
\* noteContentReadIsCurrent(): the cached body may be shown without a read.
IsCurrent == current /\ socket

ReadBegins == read' = [stage |-> "asked", version |-> 0, fresh |-> TRUE]

\* Mounting reads unless the body is current; the query is disabled while
\* there is an unsynced edit.
Open ==
  /\ ~open /\ open' = TRUE
  /\ IF queued # 0 \/ IsCurrent THEN UNCHANGED read ELSE ReadBegins
  /\ UNCHANGED <<server, wire, echoes, outbox, asked, body, current, late, refreshing,
                 verdict>>

\* Unmounting cancels the query's read and closes what was asked.
Close ==
  /\ open /\ open' = FALSE /\ asked' = FALSE
  /\ read' = Idle
  /\ UNCHANGED <<server, wire, echoes, outbox, body, current, late, refreshing,
                 verdict>>

\* The network came back, or the user retries: a clean open note is read again.
Refetch ==
  /\ open /\ queued = 0 /\ read.stage = "idle"
  /\ ReadBegins
  /\ UNCHANGED <<server, wire, echoes, outbox, screen, body, current, late, refreshing,
                 verdict>>

ReadReads ==
  /\ read.stage = "asked"
  /\ read' = [read EXCEPT !.stage = "answered", !.version = Newest]
  /\ UNCHANGED <<server, wire, echoes, outbox, screen, body, current, late, refreshing,
                 verdict>>

\* A slip: the read counts from its answer on.
ReadReturnsLate ==
  /\ read.stage = "answered"
  /\ body' = read.version /\ current' = TRUE /\ late' = FALSE
  /\ read' = Idle
  /\ UNCHANGED <<server, wire, echoes, outbox, screen, refreshing, verdict>>

\* The answer takes the cache's place whatever was put there meanwhile.
ReadReturns ==
  /\ read.stage = "answered"
  /\ body' = read.version /\ current' = read.fresh /\ late' = FALSE
  /\ read' = Idle
  /\ UNCHANGED <<server, wire, echoes, outbox, screen, refreshing, verdict>>

ReadFails ==
  /\ "requestFails" \in Faults /\ read.stage = "asked"
  /\ read' = Idle
  /\ UNCHANGED <<server, wire, echoes, outbox, screen, body, current, late, refreshing,
                 verdict>>
-----------------------------------------------------------------------------
\* commitContent(): not over a body another writer put there, not over an
\* unsynced edit, not under the user's eyes.
MayCommit(observed) == history[body] = observed /\ queued = 0 /\ ~open

Commit(observed, version) ==
  body' = IF MayCommit(observed) /\ history[version] # history[body] THEN version ELSE body

\* A slip: the event's own text although a push is still to be heard.
TakesEventAlways(readable, left) == readable

\* refreshAfterRemoteEdit() takes the event's own text unless it has none or a
\* push of this device is still to be heard.
TakesEvent(readable, left) == readable /\ left = <<>>

\* refreshAfterRemoteEdit(), for a note that is neither open nor edited, up to
\* its await of load(): the event's text, else one request at a time.  Only a
\* load that has to be waited for lets anything in between.
AtOnce == loaded /\ waits = <<>>

Refreshes(version, readable, left) ==
  CASE open \/ queued # 0 -> UNCHANGED <<body, refresh, waits>>
    [] ~open /\ queued = 0 /\ TakesEvent(readable, left) ->
         /\ UNCHANGED refresh
         /\ IF AtOnce THEN Commit(history[body], version) /\ UNCHANGED waits
                      ELSE waits' = Append(waits, Event(version)) /\ UNCHANGED body
    [] OTHER ->
         /\ UNCHANGED body
         /\ CASE refresh.stage # "idle" -> UNCHANGED <<refresh, waits>>
              [] refresh.stage = "idle" /\ AtOnce ->
                   refresh' = [NoRefresh EXCEPT !.stage = "waiting"] /\ UNCHANGED waits
              [] OTHER -> /\ refresh' = [NoRefresh EXCEPT !.stage = "loading"]
                          /\ waits' = Append(waits, Fetch)

\* answerRemoteContent() of the open editor: a clean one takes the text, one
\* with an unsynced edit asks.
Answers(version) ==
  /\ body' = IF queued = 0 /\ history[version] # history[body] THEN version ELSE body
  /\ asked' = (asked \/ (queued # 0 /\ history[version] # queued))

\* A slip: an event of this device's own push does not count against the reads.
SeenUnlessOwn(own) ==
  /\ current' = (current /\ own)
  /\ read' = [read EXCEPT !.fresh = @ /\ own]

\* noteContentRemoteEditSeen(): every event, this device's own included.
Seen(own) ==
  /\ current' = FALSE
  /\ read' = [read EXCEPT !.fresh = FALSE]

\* An echo of this device's own push that can be read settles the pushes
\* before it; texts of its pushes are numbered in their order.
HeardUpTo(version, text, readable) ==
  IF version \notin mine THEN unheard
  ELSE IF readable THEN {t \in unheard : t >= text} ELSE unheard \cup {text}

\* handleNoteEvent(), ContentEdited: the read memory, the editor unless the
\* text is recognised as this device's, then the refresh.
Deliver ==
  /\ channel # <<>> /\ channel' = Tail(channel)
  /\ \E readable \in {TRUE} \cup (IF "unreadable" \in Faults THEN {FALSE} ELSE {}) :
       LET version == Head(channel)
           text == history[version]
           own == ~readable \/ IsOwn(text)
           left == IF readable /\ own THEN AfterMatch(text) ELSE pushes
       IN /\ Seen(own)
          /\ pushes' = left
          /\ unheard' = HeardUpTo(version, text, readable)
          /\ verdict' = [event |-> version, own |-> own, readable |-> readable]
          /\ IF open /\ ~own THEN Answers(version) /\ UNCHANGED <<refresh, waits>>
                             ELSE Refreshes(version, readable, left) /\ UNCHANGED asked
  /\ UNCHANGED <<server, socket, gaps, evicted, outbox, open, loaded, late>>

\* Keep mine.  An edit that a push drained meanwhile is queued again; its text
\* counts as a new one.
KeepMine ==
  /\ asked /\ push.stage = "idle" /\ asked' = FALSE
  /\ queued' = IF queued = 0 THEN MyText ELSE queued
  /\ (queued = 0 => sent < MaxPushes)
  /\ UNCHANGED <<server, wire, echoes, push, sent, open, cached, refreshing, verdict>>

\* Load theirs: drop the edit and read.
LoadTheirs ==
  /\ asked /\ push.stage = "idle" /\ asked' = FALSE
  /\ queued' = 0 /\ ReadBegins
  /\ UNCHANGED <<server, wire, echoes, push, sent, open, body, current, late, refreshing,
                 verdict>>

\* The scan of the ledger is done: an event's refresh began it, or a pass.
LoadEnds ==
  /\ ~loaded /\ loaded' = TRUE
  /\ UNCHANGED <<server, wire, echoes, outbox, screen, cached, refresh, waits, verdict>>

\* The oldest call goes on, its load done or failed.  An event's text is put
\* over what the cache holds now.
LoadReturns ==
  /\ waits # <<>> /\ waits' = Tail(waits)
  /\ LET version == Head(waits).version
     IN IF version = 0
          THEN refresh' = [refresh EXCEPT !.stage = "waiting"] /\ UNCHANGED body
          ELSE Commit(history[body], version) /\ UNCHANGED refresh
  /\ late' = (late \/ body' < body)
  /\ UNCHANGED <<server, wire, echoes, outbox, screen, read, current, loaded, verdict>>

\* It finds the device offline, and leaves the body as it is.
LoadReturnsOffline ==
  /\ "requestFails" \in Faults
  /\ waits # <<>> /\ waits' = Tail(waits)
  /\ refresh' = IF Head(waits) = Fetch THEN NoRefresh ELSE refresh
  /\ UNCHANGED <<server, wire, echoes, outbox, screen, cached, loaded, verdict>>

\* The refresh's turn: what the cache holds now is what it expects to replace.
RefreshAsks ==
  /\ refresh.stage = "waiting"
  /\ refresh' = [refresh EXCEPT !.stage = "asked", !.observed = history[body]]
  /\ UNCHANGED <<server, wire, echoes, outbox, screen, cached, ledger, verdict>>

RefreshReads ==
  /\ refresh.stage = "asked"
  /\ refresh' = [refresh EXCEPT !.stage = "answered", !.version = Newest]
  /\ UNCHANGED <<server, wire, echoes, outbox, screen, cached, ledger, verdict>>

RefreshReturns ==
  /\ refresh.stage = "answered"
  /\ Commit(refresh.observed, refresh.version)
  /\ refresh' = NoRefresh
  /\ UNCHANGED <<server, wire, echoes, outbox, screen, read, current, late, ledger, verdict>>

RefreshFails ==
  /\ "requestFails" \in Faults /\ refresh.stage = "asked"
  /\ refresh' = NoRefresh
  /\ UNCHANGED <<server, wire, echoes, outbox, screen, cached, ledger, verdict>>
-----------------------------------------------------------------------------
Next ==
  \/ RemoteEdit \/ Disconnect \/ Connect \/ Deliver
  \/ Type \/ PassPushes \/ PushLands \/ PushReturns \/ PushFails
  \/ Open \/ Close \/ Refetch \/ ReadReads \/ ReadReturns \/ ReadFails
  \/ KeepMine \/ LoadTheirs
  \/ LoadEnds \/ LoadReturns \/ LoadReturnsOffline
  \/ RefreshAsks \/ RefreshReads \/ RefreshReturns \/ RefreshFails

Spec == Init /\ [][Next]_vars
-----------------------------------------------------------------------------
\* A body that a reopened note would show without reading the server is what
\* the server has, once every event sent to this device was delivered and
\* nothing is left to push: no order of reads, events, refreshes, pushes and
\* gaps of the socket leaves an older text trusted (useNoteContent.query.ts),
\* except by an event that had to wait for the ledger (EventsNeverWait).
ReopenIsCurrent ==
  IsCurrent /\ ~late /\ channel = <<>> /\ queued = 0 /\ push.stage = "idle" =>
    history[body] = history[Newest]

\* An event is hidden from the editor as this device's own only if the device
\* pushed that text and heard neither its echo nor a later push's, and an event
\* of its own push is hidden unless another device saved that text too or newer
\* pushes used the limit up (remoteChange.ts, "each push echoes once, in order").
\* What is remembered stays within the limit (TypeOK).
Owed(text) ==
  \/ text \in unheard
  \/ push.stage = "sent" /\ push.text = text
  \/ \E v \in ToSet(channel) \cap mine : history[v] = text

EchoesAreOurs ==
  LET text == history[verdict.event]
  IN /\ TypeOK
     /\ verdict.event # 0 /\ verdict.readable =>
          /\ verdict.own /\ verdict.event \notin mine => Owed(text)
          /\ verdict.event \in mine /\ ~verdict.own =>
               text \in evicted \/ \E v \in 1 .. Newest \ mine : history[v] = text

\* The echo of version v can be told from every other event: no other device
\* saved the text too, and where this device pushed it again, as it does when an
\* answer is lost, it did not reach the limit.
ToldApart(v) ==
  \A w \in 1 .. Newest \ {v} :
    history[w] = history[v] => w \in mine /\ history[v] \notin evicted

Confirmed == {v \in mine : v # push.version /\ ToldApart(v)}

\* A note that is not on screen never goes back behind a push this device had
\* confirmed: an edit made before the push and announced after it does not
\* take the push's place in the cache (notesOffline.ts, refreshAfterRemoteEdit),
\* unless it was announced before the push, and waited for the ledger since.
OutwaitedBy(v) == waits # <<>> /\ waits' = Tail(waits) /\ v \notin Head(waits).known

PushStays ==
  [][~open /\ ~open' /\ (\A v \in Confirmed : v <= body) =>
       \A v \in Confirmed : v <= body' \/ OutwaitedBy(v)]_vars

\* One that does not hold, and no run checks: that an event's text is never put
\* over a newer body (notesOffline.ts, "it never waits between reading and
\* committing").  Whether it may be taken is decided before load() is awaited.
EventsNeverWait == ~late
=============================================================================
