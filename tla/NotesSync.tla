----------------------------- MODULE NotesSync -----------------------------
(***************************************************************************)
(* packages/filen-mobile/src/features/notes/components/sync.tsx, class     *)
(* Sync: the notes outbox of the mobile app.  A pass takes each note with  *)
(* an unsynced edit, peeks at its content in the cloud, then pushes the    *)
(* newest edit, or hands what it found to the editor the note is open in.  *)
(*                                                                         *)
(* Notes run through a pass concurrently, one worker each.  A worker's     *)
(* code between two awaits is one action; the server's side of a request   *)
(* is an action of its own.                                                *)
(***************************************************************************)
EXTENDS OutboxSync, NotesOutbox

CONSTANTS MaxRejections,  \* MAX_NON_RETRYABLE_REJECTIONS
          Unreadable,     \* a content that cannot be decrypted
          Deleted,        \* the content of a note deleted in the cloud
          Faults          \* what may go wrong; each action names its own

ASSUME NotesSyncAssumption ==
  /\ MaxRejections \in Nat \ {0}
  /\ EmptyQueue = EmptyOutbox
  /\ Unreadable \notin Texts \cup {None} /\ Deleted \notin Texts

VARIABLES worker,     \* the pass's work on each note
          rejections, \* nonRetryableRejections
          handedOff,  \* notes whose finding was handed to their editor
          failed,     \* notes whose last push the retry timer re-drives
          debounce,   \* syncTimeout is running
          retry,      \* retryTimer is running
          front,      \* AppState is "active"
          attached,   \* notes open in an editor
          held,       \* notes under hold()
          inbox,      \* the newest noteContentEdited event of each editor
          peeked,     \* notes whose last conflict peek began after the socket reconnected
          cache,      \* the per-note content query
          cloud       \* what the server has

\* What the code does not keep and the properties need.
VARIABLES latest,     \* the newest keystroke on each note
          done,       \* the newest keystroke settled: pushed or given up
          saved       \* the newest keystroke whose flush reached the disk

passVars   == <<worker, rejections, handedOff, failed, peeked>>
timerVars  == <<debounce, retry>>
editorVars == <<front, attached, held, inbox>>
noteVars   == <<cache, cloud>>
ghostVars  == <<latest, done, saved>>

Contents == Texts \cup {Deleted}
Stages == {"idle", "peeking", "peeked", "pushing", "landed"}
Idle == [stage |-> "idle"]

\* `since`: the worker began after the socket last reconnected.
Peeking(e) == [stage |-> "peeking", entry |-> e, since |-> TRUE]
Pushing(e, seen, over) ==
  [stage |-> "pushing", entry |-> e, seen |-> seen, over |-> over]

WorkerStates ==
  {Idle}
  \cup [stage : {"peeking"}, entry : Entry, since : BOOLEAN]
  \cup [stage : {"peeked"}, entry : Entry, since : BOOLEAN,
        seen : Texts \cup {Unknown, Unreadable}]
  \cup [stage : {"pushing", "landed"}, entry : Entry,
        seen : Texts \cup {Unknown, Unreadable}, over : BOOLEAN]

SyncTypeOK ==
  /\ worker \in [Notes -> WorkerStates]
  /\ rejections \in [Notes -> 0..(MaxRejections - 1)]
  /\ handedOff \in SUBSET Notes /\ failed \in SUBSET Notes /\ peeked \in SUBSET Notes
  /\ debounce \in BOOLEAN /\ retry \in BOOLEAN
  /\ front \in BOOLEAN /\ attached \in SUBSET Notes /\ held \in SUBSET Notes
  /\ inbox \in [Notes -> Texts \cup {None, Unreadable}]
  /\ cache \in [Notes -> Texts] /\ cloud \in [Notes -> Contents]
  /\ latest \in [Notes -> Nat] /\ done \in [Notes -> Nat] /\ saved \in [Notes -> Nat]

HasEntries == {n \in Notes : store[n] # None}

\* executeNow(): what the debounce would do, at once.
ExecuteNow == debounce' = FALSE /\ CallSync

\* scheduleRetry(): one timer, while a push failed and may be tried again.
ScheduleRetry ==
  /\ failed' = failed \cap HasEntries
  /\ retry' = (failed' # {} /\ front /\ online)

\* A settled keystroke stays settled.
Settled(n, edit) == [done EXCEPT ![n] = Later(@, edit)]

\* A slip: `settled` is for the peek only.
IsSettledAfterPeek(n) == worker[n].stage \notin {"peeking", "peeked"}

\* hold()'s `settled` has resolved: no pass works on the note.
IsSettled(n) == worker[n] = Idle

\* A slip: what a pass skipped meanwhile waits for the next keystroke.
ReleaseOnly(n) == held' = held \ {n} /\ UNCHANGED debounce

\* hold()'s release(): what a pass skipped meanwhile is pushed soon.
Release(n) ==
  /\ held' = held \ {n}
  /\ debounce' = (debounce \/ (n \in held /\ store[n] # None))

\* A slip: the queue is flushed as it was.
DiscardFlushingOld(n) ==
  /\ store' = [store EXCEPT ![n] = None]
  /\ rejections' = [rejections EXCEPT ![n] = 0]
  /\ done' = Settled(n, latest[n])
  /\ Flush(store, [type |-> "discarded", note |-> n])

\* discardInflight(), until its flush is written.
Discard(n) ==
  /\ store' = [store EXCEPT ![n] = None]
  /\ rejections' = [rejections EXCEPT ![n] = 0]
  /\ done' = Settled(n, latest[n])
  /\ Flush(store', [type |-> "discarded", note |-> n])
-----------------------------------------------------------------------------
SyncInit ==
  /\ OutboxInit
  /\ worker = [n \in Notes |-> Idle]
  /\ rejections = [n \in Notes |-> 0]
  /\ handedOff = {} /\ failed = {} /\ peeked = {}
  /\ debounce = FALSE /\ retry = FALSE
  /\ front = TRUE /\ attached = {} /\ held = {}
  /\ inbox = [n \in Notes |-> None]
  /\ cloud \in [Notes -> Texts]
  /\ cache = cloud
  /\ latest = [n \in Notes |-> 0]
  /\ done = latest
  /\ saved = latest

SyncHostMounts ==
  /\ Start
  /\ UNCHANGED <<passVars, timerVars, editorVars, noteVars, ghostVars>>

\* restoreFromDisk() reads the row.
RestoreReads ==
  /\ Hydrate(MergeInflight(store, disk))
  /\ UNCHANGED <<passVars, timerVars, editorVars, noteVars, ghostVars>>

\* restoreFromDisk() has listed the notes and read some of those the row had.
RestoreReconciles ==
  LET onDisk == {n \in Notes : disk[n] # None}
      listed == {n \in Notes : cloud[n] # Deleted}
  IN \E read \in IF "requestFails" \in Faults THEN SUBSET onDisk ELSE {onDisk} :
       /\ online
       /\ Reconcile(ReconcileOutbox(store, onDisk, listed,
                      [n \in Notes |-> IF n \in read THEN cloud[n] ELSE Unknown]))
       /\ done' = [n \in Notes |-> IF store[n] # None /\ store'[n] = None
                                   THEN Later(done[n], store[n].edit) ELSE done[n]]
       /\ UNCHANGED <<passVars, timerVars, editorVars, noteVars, latest, saved>>

\* The list could not be had: what was hydrated stays.
ReconcileFails ==
  /\ ~online \/ "requestFails" \in Faults
  /\ Reconcile(store)
  /\ UNCHANGED <<passVars, timerVars, editorVars, noteVars, ghostVars>>

\* sync() gets the mutex with nothing to push: no flush.
PassFindsNothing ==
  /\ waiting /\ MutexFree /\ HasEntries = {}
  /\ waiting' = FALSE
  /\ rejections' = [n \in Notes |-> 0]
  /\ ScheduleRetry
  /\ UNCHANGED <<phase, online, store, disk, gated, writes, pass, worker, handedOff,
                 peeked, debounce, editorVars, noteVars, ghostVars>>

\* sync() gets the mutex: every note with entries and no prompt starts.  An
\* entry without a base goes out unchecked.
PassBegins ==
  /\ waiting /\ MutexFree /\ HasEntries # {}
  /\ waiting' = FALSE
  /\ pass' = "body"
  /\ rejections' = [n \in Notes |-> IF n \in HasEntries THEN rejections[n] ELSE 0]
  /\ worker' = [n \in Notes |->
                  IF n \notin HasEntries \ held THEN Idle
                  ELSE IF store[n].base = NoBase THEN Pushing(store[n], Unknown, FALSE)
                  ELSE Peeking(store[n])]
  /\ UNCHANGED <<phase, online, store, disk, gated, writes, handedOff, failed, peeked,
                 timerVars, editorVars, noteVars, ghostVars>>

\* The server answers the peek's getContent(), or the request fails.
PeekAnswered(n) ==
  /\ worker[n].stage = "peeking"
  /\ \E seen \in (IF online /\ cloud[n] # Deleted THEN {cloud[n]} ELSE {Unknown})
                 \cup (IF "requestFails" \in Faults THEN {Unknown} ELSE {})
                 \cup (IF online /\ "unreadable" \in Faults THEN {Unreadable} ELSE {}) :
       worker' = [worker EXCEPT ![n] = [stage |-> "peeked", entry |-> @.entry,
                                        since |-> @.since, seen |-> seen]]
  /\ UNCHANGED <<outboxVars, rejections, handedOff, failed, peeked, timerVars,
                 editorVars, noteVars, ghostVars>>

\* Why a worker stops after its peek: a prompt opened, or what it was for
\* was discarded or rebased.  Typing on the same base does not stop it.
PeekIsMoot(n) ==
  \/ n \in held
  \/ store[n] = None
  \/ store[n].base # worker[n].entry.base

\* A slip: an overwrite once handed to an editor is not one any more.
OverwritesFirst(n) ==
  n \notin handedOff /\ worker[n].seen \notin {Unknown, store[n].base, store[n].text}

\* overwritesNewerRemoteContent, of the newest entry.
Overwrites(n) == worker[n].seen \notin {Unknown, store[n].base, store[n].text}

\* The editor's user decides over an overwrite that can be shown.
HandsOver(n) == Overwrites(n) /\ worker[n].seen # Unreadable /\ n \in attached

\* pushNote() goes on after its peek.
PeekReturns(n) ==
  /\ worker[n].stage = "peeked"
  /\ peeked' = IF n \notin held /\ worker[n].seen # Unknown /\ worker[n].since
                 THEN peeked \cup {n} ELSE peeked
  /\ \/ /\ PeekIsMoot(n)
        /\ worker' = [worker EXCEPT ![n] = Idle]
        /\ UNCHANGED <<handedOff, inbox>>
     \/ /\ ~PeekIsMoot(n) /\ HandsOver(n)
        /\ handedOff' = handedOff \cup {n}
        /\ inbox' = [inbox EXCEPT ![n] = worker[n].seen]
        /\ worker' = [worker EXCEPT ![n] = Idle]
     \/ /\ ~PeekIsMoot(n) /\ ~HandsOver(n)
        /\ worker' = [worker EXCEPT ![n] = Pushing(store[n], @.seen, Overwrites(n))]
        /\ UNCHANGED <<handedOff, inbox>>
  /\ UNCHANGED <<outboxVars, rejections, failed, timerVars, front, attached, held,
                 noteVars, ghostVars>>

\* The server performs setContent().
PushLands(n) ==
  /\ worker[n].stage = "pushing"
  /\ online /\ cloud[n] # Deleted
  /\ cloud' = [cloud EXCEPT ![n] = worker[n].entry.text]
  /\ worker' = [worker EXCEPT ![n].stage = "landed"]
  /\ UNCHANGED <<outboxVars, rejections, handedOff, failed, peeked, timerVars,
                 editorVars, cache, ghostVars>>

\* setContent() resolved: the note's bookkeeping, its cached content and its
\* queue.  With `over` the user is told that newer changes were overwritten.
PushReturns(n) ==
  LET pushed == worker[n].entry
  IN /\ worker[n].stage = "landed"
     /\ worker' = [worker EXCEPT ![n] = Idle]
     /\ rejections' = [rejections EXCEPT ![n] = 0]
     /\ handedOff' = handedOff \ {n}
     /\ failed' = failed \ {n}
     /\ cache' = [cache EXCEPT ![n] = pushed.text]
     /\ store' = [store EXCEPT ![n] = PruneAndRebase(@, pushed.at, pushed.text)]
     /\ done' = Settled(n, pushed.edit)
     /\ UNCHANGED <<phase, online, disk, gated, writes, waiting, pass, peeked,
                    timerVars, editorVars, cloud, latest, saved>>

\* setContent() failed in a way a later attempt may not: the network is down
\* or fails, the session lapsed, or a push that landed was not acknowledged.
PushFails(n) ==
  /\ \/ worker[n].stage = "pushing" /\ (~online \/ "requestFails" \in Faults)
     \/ worker[n].stage = "landed" /\ "lostReply" \in Faults
  /\ worker' = [worker EXCEPT ![n] = Idle]
  /\ failed' = failed \cup {n}
  /\ UNCHANGED <<outboxVars, rejections, handedOff, peeked, timerVars, editorVars,
                 noteVars, ghostVars>>

\* A slip: an off-by-one in the bound on the strikes.
PushRejectedOnceMore(n) ==
  /\ worker[n].stage = "pushing"
  /\ online /\ (cloud[n] = Deleted \/ "rejects" \in Faults)
  /\ worker' = [worker EXCEPT ![n] = Idle]
  /\ failed' = failed \ {n}
  /\ IF rejections[n] + 1 <= MaxRejections
       THEN /\ rejections' = [rejections EXCEPT ![n] = @ + 1]
            /\ UNCHANGED <<store, done>>
       ELSE /\ rejections' = [rejections EXCEPT ![n] = 0]
            /\ store' = [store EXCEPT ![n] = None]
            /\ done' = Settled(n, latest[n])
  /\ UNCHANGED <<phase, online, disk, gated, writes, waiting, pass, handedOff, peeked,
                 timerVars, editorVars, noteVars, latest, saved>>

\* setContent() was rejected: a strike, and with the last the note's queue is
\* dropped.
PushRejected(n) ==
  /\ worker[n].stage = "pushing"
  /\ online /\ (cloud[n] = Deleted \/ "rejects" \in Faults)
  /\ worker' = [worker EXCEPT ![n] = Idle]
  /\ failed' = failed \ {n}
  /\ IF rejections[n] + 1 < MaxRejections
       THEN /\ rejections' = [rejections EXCEPT ![n] = @ + 1]
            /\ UNCHANGED <<store, done>>
       ELSE /\ rejections' = [rejections EXCEPT ![n] = 0]
            /\ store' = [store EXCEPT ![n] = None]
            /\ done' = Settled(n, latest[n])
  /\ UNCHANGED <<phase, online, disk, gated, writes, waiting, pass, handedOff, peeked,
                 timerVars, editorVars, noteVars, latest, saved>>

\* Every worker is done: the pass flushes the queue as it is now.
PassFlushes ==
  /\ pass = "body"
  /\ \A n \in Notes : IsSettled(n)
  /\ pass' = "flushing"
  /\ Flush(store, [type |-> "pass"])
  /\ UNCHANGED <<phase, online, store, disk, waiting, passVars, timerVars, editorVars,
                 noteVars, ghostVars>>

\* The debounce's timer fires.
DebounceFires ==
  /\ debounce
  /\ ExecuteNow
  /\ UNCHANGED <<phase, online, store, disk, gated, writes, pass, passVars, retry,
                 editorVars, noteVars, ghostVars>>

\* The retry's timer fires.
RetryFires ==
  /\ retry
  /\ retry' = FALSE
  /\ IF front /\ online THEN ExecuteNow ELSE UNCHANGED <<debounce, waiting>>
  /\ UNCHANGED <<phase, online, store, disk, gated, writes, pass, passVars,
                 editorVars, noteVars, ghostVars>>

\* AppState changes; a background ends the retry timer first.
AppStateChanges ==
  /\ front' = ~front
  /\ retry' = (retry /\ front')
  /\ ExecuteNow
  /\ UNCHANGED <<phase, online, store, disk, gated, writes, pass, passVars,
                 attached, held, inbox, noteVars, ghostVars>>

\* The network goes, or comes back: the reconnect listener's executeNow().
GoesOffline ==
  /\ online /\ online' = FALSE
  /\ UNCHANGED <<phase, store, disk, gated, writes, waiting, pass, passVars, timerVars,
                 editorVars, noteVars, ghostVars>>

GoesOnline ==
  /\ ~online /\ online' = TRUE
  /\ debounce' = FALSE
  /\ waiting' = (waiting \/ phase # "off")
  /\ UNCHANGED <<phase, store, disk, gated, writes, pass, passVars, retry, editorVars,
                 noteVars, ghostVars>>

\* The process ends.  Of the keystrokes, those on the disk are left; the
\* content query is persisted on its own.
SyncCrashes ==
  /\ CrashOutbox
  /\ worker' = [n \in Notes |-> Idle]
  /\ rejections' = [n \in Notes |-> 0]
  /\ handedOff' = {} /\ failed' = {} /\ peeked' = {}
  /\ debounce' = FALSE /\ retry' = FALSE
  /\ front' = TRUE /\ attached' = {} /\ held' = {}
  /\ inbox' = [n \in Notes |-> None]
  /\ latest' = [n \in Notes |-> IF disk[n] = None THEN done[n] ELSE disk[n].edit]
  /\ done' = [n \in Notes |-> IF disk[n] = None \/ done[n] < disk[n].edit
                              THEN done[n] ELSE disk[n].edit - 1]
  /\ saved' = [n \in Notes |-> IF disk[n] = None THEN 0 ELSE disk[n].edit]
  /\ UNCHANGED noteVars
=============================================================================
