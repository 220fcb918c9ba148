---------------------------- MODULE NotesEditor ----------------------------
(***************************************************************************)
(* The notes outbox with what drives it: the editor of each note           *)
(* (features/notes/components/content/index.tsx), its user, the other      *)
(* devices that edit the same notes, the network and the app's lifecycle.  *)
(*                                                                         *)
(* An editor answers the edits made elsewhere one at a time, in a queue    *)
(* where a newer event supersedes the older ones: `inbox` is the newest,   *)
(* `task` where the answer under way is.  The socket's delay and the wait  *)
(* in the queue are one.                                                   *)
(*                                                                         *)
(* Bounds: MaxEdits keystrokes, MaxRemote edits elsewhere, MaxCrashes ends *)
(* of the process, MaxFlushes flushes not yet written; a note is open in   *)
(* one editor at a time, and is opened again once the last one's answer is *)
(* through.                                                                *)
(***************************************************************************)
EXTENDS NotesSync

CONSTANTS MaxEdits, MaxRemote, MaxCrashes

VARIABLES task,      \* what each note's editor is doing about a remote edit
          theirs,    \* the content that it is about
          reread,    \* editors that owe a read, the socket having been down
          fetching,  \* the content query's answer on its way
          fresh,     \* notes whose content query read since the socket reconnected
          socket,    \* the socket is up
          now,       \* Date.now(), in keystrokes
          edits, remotes, crashes,  \* how many there were (what is queued again
                              \* counts as typed again)
          kept       \* the cloud's content, when the user kept theirs over it and
                     \* no event of a newer edit was on its way

taskVars  == <<task, theirs, reread>>
worldVars == <<fetching, fresh, socket, now, edits, remotes, crashes, kept>>
vars == <<outboxVars, passVars, timerVars, editorVars, noteVars, ghostVars, taskVars,
          worldVars>>

Tasks == {"idle", "asking", "prompt", "keep", "theirs", "copy", "saving",
          "discarding", "loading", "settling", "reading"}

\* The prompt, and the overlay over the copy being made, take no keystrokes.
TakesKeys(n) ==
  /\ n \in attached /\ front
  /\ task[n] # "prompt" /\ (task[n] = "copy" => ~IsSettled(n))

\* latestLocalNoteContent().
Local(n) == IF store[n] = None THEN cache[n] ELSE store[n].text

\* movedPastBase().
MovedPastBase(n, content) ==
  IF store[n] # None /\ store[n].base # NoBase
    THEN content # store[n].base
    ELSE content # cache[n]

Init ==
  /\ SyncInit
  /\ task = [n \in Notes |-> "idle"]
  /\ theirs = [n \in Notes |-> None]
  /\ reread = {}
  /\ fetching = [n \in Notes |-> None]
  /\ fresh = {}
  /\ socket = online
  /\ now = 0 /\ edits = 0 /\ remotes = 0 /\ crashes = 0
  /\ kept = [n \in Notes |-> None]
-----------------------------------------------------------------------------
(* The editor's user. *)

\* The editor mounts; what its query read earlier no longer counts as current.
Open(n) ==
  /\ phase # "off" /\ n \notin attached /\ task[n] = "idle"
  /\ attached' = attached \cup {n}
  /\ fresh' = fresh \ {n}
  /\ UNCHANGED <<outboxVars, passVars, timerVars, front, held, inbox, noteVars, ghostVars,
                 taskVars, fetching, socket, now, edits, remotes, crashes, kept>>

\* detach(): what was handed over may have gone unanswered.
Close(n) ==
  /\ n \in attached
  /\ attached' = attached \ {n}
  /\ inbox' = [inbox EXCEPT ![n] = None]
  /\ reread' = reread \ {n}
  /\ debounce' = (debounce \/ (n \in handedOff /\ store[n] # None))
  /\ UNCHANGED <<outboxVars, passVars, retry, front, held, noteVars, ghostVars,
                 task, theirs, worldVars>>

\* onValueChange(), until its flush is written.
Type(n) ==
  /\ phase \in {"reconciling", "ready"} \cup (IF "early" \in Faults THEN {"reading"} ELSE {})
  /\ TakesKeys(n)
  /\ edits < MaxEdits /\ FlushRoom
  /\ \E text \in Texts \ {Local(n)} :
       store' = [store EXCEPT ![n] = BuildEntry(@, edits + 1, text, now + 1, cache[n])]
  /\ Flush(store', [type |-> "typed", note |-> n, edit |-> edits + 1])
  /\ now' = now + 1
  /\ edits' = edits + 1
  /\ latest' = [latest EXCEPT ![n] = edits + 1]
  /\ UNCHANGED <<phase, online, disk, waiting, pass, passVars, timerVars, editorVars,
                 noteVars, done, saved, taskVars, fetching, fresh, socket, remotes, crashes, kept>>

\* The content query reads while the note is clean: the server answers...  When
\* it does (a mount, a reconnect, the query's re-enabling) is left open, which
\* allows more reads than TanStack Query makes.
QueryReads(n) ==
  /\ n \in attached /\ online /\ store[n] = None
  /\ fetching[n] = None /\ cloud[n] # Deleted
  /\ cloud[n] # cache[n] \/ n \notin fresh \/ "lateFetch" \in Faults
  /\ IF "lateFetch" \in Faults
       THEN fetching' = [fetching EXCEPT ![n] = cloud[n]] /\ UNCHANGED cache
       ELSE cache' = [cache EXCEPT ![n] = cloud[n]] /\ UNCHANGED fetching
  /\ fresh' = fresh \cup {n}
  /\ UNCHANGED <<outboxVars, passVars, timerVars, editorVars, cloud, ghostVars, taskVars,
                 socket, now, edits, remotes, crashes, kept>>

\* ... and the answer comes, whatever the note holds by then.
QueryReturns(n) ==
  /\ fetching[n] # None
  /\ cache' = [cache EXCEPT ![n] = fetching[n]]
  /\ fetching' = [fetching EXCEPT ![n] = None]
  /\ UNCHANGED <<outboxVars, passVars, timerVars, editorVars, cloud, ghostVars, taskVars,
                 fresh, socket, now, edits, remotes, crashes, kept>>
-----------------------------------------------------------------------------
(* answerRemoteContent(). *)

EndTask(n) == task' = [task EXCEPT ![n] = "idle"]
GoesTo(n, stage) == task' = [task EXCEPT ![n] = stage]

\* It is what is here already, or what the unsynced edits were kept over.
IsKnown(n, content) ==
  /\ content # Unreadable
  /\ content = Local(n) \/ (store[n] # None /\ store[n].base = content)

\* Its first steps: nothing for a known content; a clean note takes the
\* content, or reloads when it cannot be read; unsynced edits take a hold,
\* under which the user is asked.
AnswerRemoteContent(n, content) ==
  \/ /\ IsKnown(n, content)
     /\ Release(n) /\ EndTask(n)
     /\ UNCHANGED <<store, gated, writes, rejections, done, cache, theirs>>
  \/ /\ ~IsKnown(n, content) /\ store[n] = None /\ content # Unreadable
     /\ cache' = [cache EXCEPT ![n] = content]
     /\ Release(n) /\ EndTask(n)
     /\ UNCHANGED <<store, gated, writes, rejections, done, theirs>>
  \/ /\ store[n] = None /\ content = Unreadable
     /\ Discard(n) /\ GoesTo(n, "discarding")
     /\ UNCHANGED <<held, debounce, cache, theirs>>
  \/ /\ ~IsKnown(n, content) /\ store[n] # None
     /\ held' = held \cup {n}
     /\ GoesTo(n, "asking")
     /\ theirs' = [theirs EXCEPT ![n] = content]
     /\ UNCHANGED <<store, gated, writes, rejections, done, debounce, cache>>

\* superseded(): a newer event waits, or the editor closed.
Superseded(n) == inbox[n] # None \/ n \notin attached

\* The queue comes to the newest event.
AnswerEvent(n) ==
  /\ task[n] = "idle" /\ inbox[n] # None
  /\ inbox' = [inbox EXCEPT ![n] = None]
  /\ AnswerRemoteContent(n, inbox[n])
  /\ UNCHANGED <<phase, online, disk, waiting, pass, worker, handedOff, failed, peeked,
                 retry, front, attached, cloud, latest, saved, reread, worldVars>>

\* The app is in front and unlocked: the prompt, unless superseded.
PromptOpens(n) ==
  /\ task[n] = "asking" /\ front
  /\ IF Superseded(n) THEN Release(n) /\ EndTask(n)
     ELSE GoesTo(n, "prompt") /\ UNCHANGED <<held, debounce>>
  /\ UNCHANGED <<outboxVars, passVars, retry, front, attached, inbox, noteVars,
                 ghostVars, theirs, reread, worldVars>>

\* Keep mine (dismissing too), Load theirs, Save mine as copy.
PromptAnswered(n) ==
  /\ task[n] = "prompt" /\ front
  /\ \E choice \in {"keep", "theirs", "copy"} : GoesTo(n, choice)
  /\ UNCHANGED <<outboxVars, passVars, timerVars, editorVars, noteVars, ghostVars,
                 theirs, reread, worldVars>>

\* A slip: what is kept is based on what this device last knew.
OldBase(n) == cache[n]

\* The base of what is kept over their version.
TheirBase(n) == IF theirs[n] = Unreadable THEN NoBase ELSE theirs[n]

\* Keep mine, once settled: the edits are rebased on their version, or queued
\* again when the push before the prompt drained them; then flushed.
KeepMine(n) ==
  /\ task[n] = "keep" /\ IsSettled(n)
  /\ \/ /\ store[n] # None
        /\ store' = [store EXCEPT ![n].base = TheirBase(n)]
        /\ UNCHANGED <<now, edits, latest>>
     \/ /\ store[n] = None /\ cache[n] # theirs[n]
        /\ store' = [store EXCEPT ![n] =
                       BuildEntry(None, edits + 1, cache[n], now + 1, TheirBase(n))]
        /\ now' = now + 1
        /\ edits' = edits + 1
        /\ latest' = [latest EXCEPT ![n] = edits + 1]
  /\ Flush(store', [type |-> "kept", note |-> n, edit |-> store'[n].edit])
  /\ GoesTo(n, "saving")
  /\ kept' = [kept EXCEPT ![n] =
                IF theirs[n] = Unreadable \/ inbox[n] # None THEN None ELSE theirs[n]]
  /\ UNCHANGED <<phase, online, disk, waiting, pass, passVars, timerVars, editorVars,
                 noteVars, done, saved, theirs, reread, fetching, fresh, socket, remotes, crashes>>

\* Keep mine, with nothing left to keep.
KeepNothing(n) ==
  /\ task[n] = "keep" /\ IsSettled(n)
  /\ store[n] = None /\ cache[n] = theirs[n]
  /\ Release(n) /\ EndTask(n)
  /\ UNCHANGED <<outboxVars, passVars, retry, front, attached, inbox, noteVars,
                 ghostVars, theirs, reread, worldVars>>

\* Load theirs, once settled, or Save mine as copy once the copy is made.
LoadTheirs(n) ==
  /\ task[n] = "theirs" \/ (task[n] = "copy" /\ online)
  /\ IsSettled(n)
  /\ Discard(n) /\ GoesTo(n, "discarding")
  /\ UNCHANGED <<phase, online, disk, waiting, pass, worker, handedOff, failed, peeked,
                 timerVars, editorVars, noteVars, latest, saved, theirs, reread,
                 worldVars>>

\* The copy could not be made.
CopyFails(n) ==
  /\ task[n] = "copy" /\ IsSettled(n)
  /\ ~online \/ "requestFails" \in Faults
  /\ Release(n) /\ EndTask(n)
  /\ UNCHANGED <<outboxVars, passVars, retry, front, attached, inbox, noteVars,
                 ghostVars, theirs, reread, worldVars>>

\* reloadFromServer()'s refetch returns, or failed.
LoadReturns(n) ==
  /\ task[n] = "loading"
  /\ \/ online /\ cloud[n] # Deleted /\ cache' = [cache EXCEPT ![n] = cloud[n]]
     \/ (~online \/ cloud[n] = Deleted \/ "requestFails" \in Faults) /\ UNCHANGED cache
  /\ Release(n) /\ EndTask(n)
  /\ UNCHANGED <<outboxVars, passVars, retry, front, attached, inbox, cloud,
                 ghostVars, theirs, reread, worldVars>>
-----------------------------------------------------------------------------
(* The read an open editor owes after the socket was down. *)

\* Its turn in the queue: nothing when the content query read since, else no
\* pass pushes under the read.
RereadBegins(n) ==
  /\ task[n] = "idle" /\ inbox[n] = None /\ n \in reread
  /\ reread' = reread \ {n}
  /\ IF n \in fresh THEN UNCHANGED <<held, task>>
     ELSE held' = held \cup {n} /\ GoesTo(n, "settling")
  /\ UNCHANGED <<outboxVars, passVars, timerVars, front, attached, inbox, noteVars,
                 ghostVars, theirs, worldVars>>

\* Settled: it reads unless an event or a pass's peek saw to it since.
RereadReads(n) ==
  /\ task[n] = "settling" /\ IsSettled(n)
  /\ IF Superseded(n) \/ n \in peeked THEN Release(n) /\ EndTask(n)
     ELSE GoesTo(n, "reading") /\ UNCHANGED <<held, debounce>>
  /\ UNCHANGED <<outboxVars, passVars, retry, front, attached, inbox, noteVars,
                 ghostVars, theirs, reread, worldVars>>

\* The content is another than the note's base: answered like an event.
RereadFinds(n) ==
  /\ task[n] = "reading" /\ online /\ cloud[n] # Deleted
  /\ ~Superseded(n) /\ MovedPastBase(n, cloud[n])
  /\ AnswerRemoteContent(n, cloud[n])
  /\ UNCHANGED <<phase, online, disk, waiting, pass, worker, handedOff, failed, peeked,
                 retry, front, attached, inbox, cloud, latest, saved, reread, worldVars>>

\* The read failed or has nothing to answer.
RereadEnds(n) ==
  /\ task[n] = "reading"
  /\ \/ ~online \/ cloud[n] = Deleted \/ "requestFails" \in Faults
     \/ "unreadable" \in Faults \/ Superseded(n) \/ ~MovedPastBase(n, cloud[n])
  /\ Release(n) /\ EndTask(n)
  /\ UNCHANGED <<outboxVars, passVars, retry, front, attached, inbox, noteVars,
                 ghostVars, theirs, reread, worldVars>>
-----------------------------------------------------------------------------
(* SQLite, the other devices, the network and the process. *)

\* A flush returns to its caller: onValueChange() arms the debounce, Keep mine
\* releases, a discard reloads, a pass ends.
FlushReturns ==
  LET then == Head(writes).then
      flushed(ok) == [saved EXCEPT ![then.note] = IF ok THEN Later(@, then.edit) ELSE @]
  IN \E ok \in IF "diskFails" \in Faults THEN BOOLEAN ELSE {TRUE} :
       /\ WriteOldest(ok)
       /\ \/ /\ then.type = "typed"
             /\ saved' = flushed(ok)
             /\ debounce' = TRUE
             /\ UNCHANGED <<pass, failed, retry, held, task>>
          \/ /\ then.type = "kept"
             /\ saved' = flushed(ok)
             /\ Release(then.note) /\ EndTask(then.note)
             /\ UNCHANGED <<pass, failed, retry>>
          \/ /\ then.type = "discarded"
             /\ GoesTo(then.note, "loading")
             /\ UNCHANGED <<pass, failed, timerVars, held, saved>>
          \/ /\ then.type = "pass"
             /\ pass' = "none"
             /\ ScheduleRetry
             /\ UNCHANGED <<debounce, held, saved, task>>
  /\ UNCHANGED <<store, waiting, worker, rejections, handedOff, peeked, front, attached,
                 inbox, noteVars, latest, done, theirs, reread, worldVars>>

\* Another device saves the note, or deletes it.  With the socket up an open editor hears of it.
RemoteEdit(n) ==
  /\ remotes < MaxRemote /\ cloud[n] # Deleted
  /\ \E content \in (Texts \ {cloud[n]}) \cup (IF "deletes" \in Faults THEN {Deleted} ELSE {}) :
       /\ cloud' = [cloud EXCEPT ![n] = content]
       /\ IF socket /\ n \in attached /\ content # Deleted
            THEN /\ \E heard \in {content} \cup (IF "unreadable" \in Faults
                                                 THEN {Unreadable} ELSE {}) :
                      inbox' = [inbox EXCEPT ![n] = heard]
                 /\ reread' = reread \ {n}
            ELSE UNCHANGED <<inbox, reread>>
  /\ remotes' = remotes + 1
  /\ kept' = [kept EXCEPT ![n] = None]
  /\ UNCHANGED <<outboxVars, passVars, timerVars, front, attached, held, cache, ghostVars,
                 task, theirs, fetching, fresh, socket, now, edits, crashes>>

SocketDrops ==
  /\ "socket" \in Faults /\ socket /\ socket' = FALSE
  /\ UNCHANGED <<outboxVars, passVars, timerVars, editorVars, noteVars, ghostVars, taskVars,
                 fetching, fresh, now, edits, remotes, crashes, kept>>

\* What was read before it does not count any more.
SocketReconnects ==
  /\ ~socket /\ online /\ front
  /\ socket' = TRUE
  /\ reread' = attached
  /\ fresh' = {} /\ peeked' = {}
  /\ worker' = [n \in Notes |-> IF worker[n].stage \in {"peeking", "peeked"}
                                THEN [worker[n] EXCEPT !.since = FALSE] ELSE worker[n]]
  /\ UNCHANGED <<outboxVars, rejections, handedOff, failed, timerVars, editorVars, noteVars,
                 ghostVars, task, theirs, fetching, now, edits, remotes, crashes, kept>>

\* A background tears the socket down, as losing the network does.
Backgrounds ==
  /\ "background" \in Faults /\ front
  /\ AppStateChanges
  /\ socket' = FALSE
  /\ UNCHANGED <<taskVars, ghostVars, fetching, fresh, now, edits, remotes, crashes, kept>>

Foregrounds ==
  /\ ~front
  /\ AppStateChanges
  /\ UNCHANGED <<taskVars, worldVars>>

NetworkGoes ==
  /\ "offline" \in Faults
  /\ GoesOffline
  /\ socket' = FALSE
  /\ UNCHANGED <<taskVars, fetching, fresh, now, edits, remotes, crashes, kept>>

NetworkComes == GoesOnline /\ UNCHANGED <<taskVars, worldVars>>

\* The clock is set back.
ClockSteps ==
  /\ "clock" \in Faults /\ now > 0
  /\ now' = 0
  /\ UNCHANGED <<outboxVars, passVars, timerVars, editorVars, noteVars, ghostVars, taskVars,
                 fetching, fresh, socket, edits, remotes, crashes, kept>>

Crash ==
  /\ crashes < MaxCrashes
  /\ SyncCrashes
  /\ crashes' = crashes + 1
  /\ task' = [n \in Notes |-> "idle"]
  /\ theirs' = [n \in Notes |-> None]
  /\ reread' = {}
  /\ fetching' = [n \in Notes |-> None]
  /\ fresh' = {}
  /\ kept' = [n \in Notes |-> None]
  /\ UNCHANGED <<socket, now, edits, remotes>>
-----------------------------------------------------------------------------
\* The class's own steps leave the editor and the world alone.
Sync(A) == A /\ UNCHANGED <<taskVars, worldVars>>

\* A finding that is handed over is a newer event: the owed read is dropped.
PeekHandled(n) ==
  /\ PeekReturns(n)
  /\ reread' = IF ~PeekIsMoot(n) /\ HandsOver(n) THEN reread \ {n} ELSE reread
  /\ UNCHANGED <<task, theirs, worldVars>>

\* What the system does by itself.
Restores == Sync(SyncHostMounts) \/ Sync(RestoreReads)
Reconciles == Sync(RestoreReconciles) \/ Sync(ReconcileFails)
Passes == Sync(PassFindsNothing) \/ Sync(PassBegins) \/ Sync(PassFlushes)
Timers == Sync(DebounceFires) \/ Sync(RetryFires)
Works(n) == \/ Sync(PeekAnswered(n)) \/ PeekHandled(n) \/ Sync(PushReturns(n))

\* What was kept over is another version once this device pushes it itself.
Lands(n) ==
  /\ PushLands(n)
  /\ kept' = [kept EXCEPT ![n] = IF @ = worker[n].entry.text THEN None ELSE @]
  /\ UNCHANGED <<taskVars, fetching, fresh, socket, now, edits, remotes, crashes>>

PushGoesWrong(n) == Sync(PushFails(n)) \/ Sync(PushRejected(n))

\* The editor's answer, its user's choice included.
AnswerSteps(n) ==
  \/ AnswerEvent(n) \/ PromptOpens(n) \/ PromptAnswered(n)
  \/ KeepMine(n) \/ KeepNothing(n) \/ LoadTheirs(n) \/ CopyFails(n) \/ LoadReturns(n)
  \/ RereadBegins(n) \/ RereadReads(n) \/ RereadFinds(n) \/ RereadEnds(n)

\* What happens to the system.
Environment ==
  \/ \E n \in Notes : \/ Open(n) \/ Close(n) \/ Type(n) \/ QueryReads(n) \/ QueryReturns(n)
                      \/ RemoteEdit(n)
  \/ SocketDrops \/ SocketReconnects \/ Backgrounds \/ Foregrounds
  \/ NetworkGoes \/ NetworkComes \/ ClockSteps \/ Crash

Next ==
  \/ Restores \/ Reconciles \/ Passes \/ Timers \/ FlushReturns
  \/ \E n \in Notes : Works(n) \/ Lands(n) \/ PushGoesWrong(n) \/ AnswerSteps(n)
  \/ Environment

Spec == Init /\ [][Next]_vars

\* Timers fire, SQLite and the server answer, users answer the prompts they
\* see, the network comes back and the app comes to the front.  A push or a
\* copy tried again and again succeeds.  Nothing makes a user type, open or
\* close an editor; but editors are not opened and closed, the network lost
\* nor the app put away for ever.
Fairness ==
  /\ WF_vars(Restores) /\ WF_vars(Reconciles) /\ WF_vars(Passes)
  /\ WF_vars(Sync(DebounceFires)) /\ WF_vars(Sync(RetryFires)) /\ WF_vars(FlushReturns)
  /\ WF_vars(NetworkComes) /\ WF_vars(Foregrounds)
  /\ \A n \in Notes : /\ WF_vars(Works(n)) /\ WF_vars(AnswerSteps(n))
                      /\ WF_vars(Lands(n) \/ PushGoesWrong(n)) /\ SF_vars(Lands(n))
                      /\ SF_vars(LoadTheirs(n))
  /\ <>[][FALSE]_<<attached, online, front>>

FairSpec == Spec /\ Fairness
-----------------------------------------------------------------------------
Then == [type : {"pass"}] \cup [type : {"discarded"}, note : Notes]
        \cup [type : {"typed", "kept"}, note : Notes, edit : Nat]

EditorTypeOK ==
  /\ task \in [Notes -> Tasks]
  /\ theirs \in [Notes -> Texts \cup {None, Unreadable}]
  /\ reread \in SUBSET Notes
  /\ fetching \in [Notes -> Texts \cup {None}]
  /\ fresh \in SUBSET Notes
  /\ socket \in BOOLEAN
  /\ now \in Nat /\ edits \in Nat /\ remotes \in Nat /\ crashes \in Nat
  /\ kept \in [Notes -> Texts \cup {None}]

\* Types.
TypeOK == OutboxTypeOK(Outbox, Then) /\ SyncTypeOK /\ EditorTypeOK

\* What the queue holds is the newest keystroke not yet settled, for each note
\* that has one, and nothing else: however typing, passes, prompts, their
\* answers and restarts interleave, no edit is lost before it is pushed or
\* given up, and none comes back after.
QueueIsUnsettledEdits ==
  phase = "ready" =>
    \A n \in Notes : IF latest[n] > done[n]
                       THEN store[n] # None /\ store[n].edit = latest[n]
                       ELSE store[n] = None

\* A keystroke whose flush the editor was told is on the disk is there, or a
\* later one of its note, until it is settled: neither a pass's flush nor
\* another note's takes it away.
SavedSurvives ==
  \A n \in Notes : saved[n] > done[n] =>
    disk[n] # None /\ disk[n].edit >= saved[n]

\* At rest the row mirrors the queue.
MirrorAtRest ==
  phase = "ready" /\ pass = "none" /\ ~waiting /\ writes = <<>> => disk = store

\* While an answer is carried out no pass is past its peek on the note, so
\* nothing lands between what the answer reads and what it leaves.
AnswerIsAlone ==
  \A n \in Notes :
    task[n] \in {"saving", "loading", "discarding", "reading"} /\ n \in held =>
      worker[n].stage \notin {"pushing", "landed"}

\* Once the user kept theirs over a version, and none edited the note elsewhere
\* since it was shown, that version neither raises the overwrite warning nor is
\* asked about again.  The same text pushed by this device is another version.
AskedOnce ==
  \A n \in Notes : kept[n] # None =>
    /\ ~(worker[n].stage = "landed" /\ worker[n].over /\ worker[n].seen = kept[n])
    /\ ~(task[n] = "prompt" /\ theirs[n] = kept[n])

\* A device that edits alone is never told that it overwrote something nor
\* asked about an edit made elsewhere.
SoloNeverConflicts ==
  remotes = 0 =>
    \A n \in Notes : /\ inbox[n] = None
                     /\ worker[n].stage \in {"pushing", "landed"} => ~worker[n].over

\* At rest with the socket up, what a clean note open in an editor shows, once
\* read, is what the cloud has.  No run checks this: an event answered after a
\* push of this device that buried it breaks it.
CleanIsCurrent ==
  \A n \in attached \cap fresh :
    /\ phase = "ready" /\ socket /\ online /\ cloud[n] # Deleted
    /\ inbox[n] = None /\ n \notin reread /\ task[n] = "idle"
    /\ store[n] = None /\ worker[n] = Idle /\ fetching[n] = None
    => cache[n] = cloud[n]

\* A push that lands over content the edit was not based on is announced
\* (`over`), unless nothing was peeked or the content came after the peek.
Announced(n) ==
  LET w == worker[n]
  IN cloud[n] \in {w.entry.base, w.entry.text} \/ w.over \/ w.seen \in {Unknown} \/ w.seen # cloud[n]

OverwriteAnnounced ==
  [][\A n \in Notes :
       worker[n].stage = "pushing" /\ worker'[n].stage = "landed" => Announced(n)]_vars

\* Every edit is settled in the end.
EditsSettle == \A n \in Notes : latest[n] > done[n] ~> latest[n] = done[n]
=============================================================================
