# TLA+ models of the Filen TypeScript applications

This directory models the parts of the repository whose correctness depends on
the order in which things happen: the locks every application shares, the
outboxes of the mobile app for notes and chats with the note editor, the cached
body of a note against the server, the mobile app's offline store, and the
desktop's native host supervisor and sign-out. The models are checked with TLC
on small instances. Their safety properties, and the refinement of the semaphore's
abstract specification, are proved with TLAPS for every value of the constants;
liveness is model-checked (section 7).

    tlc -workers 2 -config MCNotesConflicts.cfg MCNotes
    tlapm SemaphoreProofs.tla

## 1. The system

The repository is a monorepo. `packages/filen-shared` holds rules without a
platform; `filen-mobile` (React Native), `filen-desktop` (Electron) and
`filen-web` are applications over one SDK, which encrypts and talks to the
server; `filen-office`, `filen-spellcheck` and `filen-assistant-eval` are
editors, dictionaries and a test harness.

JavaScript runs one callback at a time. What interleaves is what happens
between two `await`s, so in every module here **the code between two awaits is
one action**, and what a request does on the other side (SQLite, the file
system, the server, the host process) is an action of its own.

| component | state it keeps | operations | what is hard | what makes it correct |
|---|---|---|---|---|
| `Semaphore` (`semaphore.ts`) | permit counter, array of waiters with a head index | `acquire`, `release`, `withPermit` | compaction of the array, wake-ups | permits exact, FIFO, no lost wake-up |
| `KeyedSemaphores` (`semaphore.ts`) | map from key to semaphore | `acquire`, the release it returns | an entry dropped while another caller has found it | one holder per key, map stays bounded |
| `ClearBarrier` (`clearBarrier.ts`) | count inside, the exclusive flag and promise, the drain promise | `enter`, `leave`, `runExclusive` | promises replaced while somebody awaits them | a clear is alone, nobody is forgotten |
| outbox scaffold (`outboxSync.ts`) | queue in memory, its SQLite row, mutex, restore gate | `start`, `flushToDisk`, `runPass`, `cancel` | flushes gated by the restore, the process ending, failed writes | what was reported written survives |
| notes outbox rules (`notesOutbox.ts`, `notesOutboxReconcile.ts`) | none (pure) | build, merge, prune and rebase, reconcile | clock steps, entries typed during a push | newest text wins, settled text leaves |
| notes sync (`notes/components/sync.tsx`) | passes, holds, strikes, hand-overs, debounce and retry timers | `sync`, `pushNote`, `hold`, `discardInflight`, `attachEditor`, timers | typing during a peek or push, lost answers, rejections, prompts against passes | no edit lost or revived, overwrites announced, every edit settled |
| note editor (`notes/components/content/index.tsx`) | the queue of edits made elsewhere, the content query's cache | typing, `answerRemoteContent`, the read after a socket gap | prompts that wait while passes run, late events | the user is asked once |
| push echoes (`remoteChange.ts`, `pushEchoes.ts`) | hashes of recent pushes | `remember`, `isOwn`, `hasPending` | lost echoes, the limit, equal texts | another device's edit is never hidden |
| content query and offline notes (`useNoteContent.query.ts`, `notesOffline.ts`) | cached bodies, the memory of reads | reads, `refreshAfterRemoteEdit`, `commitContent` | reads, events, refreshes and pushes that pass one another | a body shown without a read is the server's |
| chats outbox (`chats/components/sync.tsx`, `chatsInflight.ts`) | queue by chat, errors with strikes | send, retry, remove, purge | a message sent twice, lost in a merge, or back after its removal | sent once, lost never, in order |
| offline store (`features/offline/*`) | bytes, metas, an index in memory and on disk, caches, counters | store, heal, remove, reconcile, rebuild, clear, the sync pass | four locks; reads older than the disk; a rebuild that is skipped | locks nest, caches and index are the store's |
| desktop native host (`supervisor.ts`) | one child process, a serial queue, timers, calls, crash history | ensure, call, idle stop, restart, sign-out, revocation, quit | crashes, sign-ins and calls between the awaits of a task | one host, no call left behind, a wanted host comes up |
| desktop sign-out (`signOut.ts`, `index.ts`) | the list of what is to be deleted, in memory and in a marker file; a serial queue | resume at the start, begin, sign out, sign in, the wipe before ready | the process ending between two steps, deletions that fail, the user signing in again | what was left is deleted in the end, what a session owns never |
| desktop updater, migration, sync and mounts services | files | replay after a crash | crashes between two steps | not modelled, see 8 |
| camera upload, transfers, mobile storage, authentication | ledgers, queues, files | long passes with requests | aborts, partial failure | not modelled |
| in-flight coalescing and small gates, shared job engines | maps, counters | one per job | cancellation | not modelled |
| web, office, spellcheck, assistant evaluation | | | | not modelled, see 8 |

How the modelled parts meet:

    editor --typing--> queue (zustand store) --flushToDisk--> SQLite row
      |  ^                 |        ^                             |
      |  |             passes    merge, reconcile <--- start() ---+
      |  +-- hand-over ----+
      |  +-- socket event <-- PushEchoes <-- other devices --+
      +-- hold / discard --> Sync --peek, push--> server
                              |
                              +-- mutex: Semaphore(1), held by a pass or the restore

    store section: ClearBarrier -> item's lock (KeyedSemaphores)
                     -> storeMutex (Semaphore) -> indexMutex (Semaphore(1))
    updateIndex(): ClearBarrier -> indexMutex          clearAll(): exclusive

    pages, services --call()--> supervisor --fork, stop--> native host
    vault, sign-out --session--> (serial queue, timers)  <--ready, exit, revoked

## 2. Modules

| module | models | extends |
|---|---|---|
| `FifoSemaphore` | what a semaphore promises (abstract specification) | |
| `Semaphore` | `class Semaphore` | |
| `KeyedSemaphores` | `class KeyedSemaphores` | |
| `ClearBarrier` | `class ClearBarrier` | |
| `OfflineSections` | the locks of `class Offline` together | `ClearBarrier`, `KeyedSemaphores` |
| `OfflineIndex` | the offline store's metas, caches, index and sync pass | |
| `OutboxSync` | `class OutboxSync`: restore, flushes, mutex; its subclasses are the modules that extend it | |
| `NotesOutbox` | the pure rules | |
| `NotesSync` | `class Sync` of the notes and `SyncHost` | `OutboxSync`, `NotesOutbox` |
| `NotesEditor` | the editor, its user, other devices, network, clock, process; the whole notes outbox's `Spec` and properties | `NotesSync` |
| `NoteBody` | a note's cached body: push echoes, events, reads, refreshes | |
| `ChatsSync` | `class Sync` of the chats, `chatsInflight.ts` | `OutboxSync` |
| `Supervisor` | `supervisor.ts` with the host, the vault and the sign-out as its environment | |
| `SignOut` | `signOut.ts` with the session's handlers in `index.ts` | |
| `SemaphoreProofs`, `OfflineIndexProofs`, `NoteBodyProofs`, `SignOutProofs`, `SupervisorProofs` | theorems on the module of that name | it |
| `OfflineSectionsProofs` | theorems on `OfflineSections`, `ClearBarrier` and `KeyedSemaphores` | `OfflineSections` |
| `NotesProofs`, `ChatsProofs` | theorems on the two outboxes | `NotesEditor`, `ChatsSync` |
| `MCSemaphore`, `MCOfflineSections`, `MCOfflineIndex`, `MCNotes`, `MCNoteBody`, `MCChats`, `MCSupervisor`, `MCSignOut` | instances for TLC | |

In each module an operator whose comment begins "A slip:" is a plausible bug in
the operator after it. No specification uses it; it documents what the
properties are able to notice.

### Semaphore

`counter`, `waiting` and `waitingHead` are the class's fields. `acquire()` is
`AcquireFree` or `AcquireQueue`; `release()` with all of `processQueue()` is
`Release`: `Grants` is how often its loop turns, `Compacted` its two ways to
shrink the array. A promise that resolved continues in a later microtask, so a
caller is `granted` before it is `holding` (`Resume`). The compaction's 4096 is
the constant `CompactAt`. `release()` by a caller that holds nothing is not
modelled: every caller goes through `withPermit()` or a `defer`.
`Fifo == INSTANCE FifoSemaphore WITH queue <- Live, owners <- Holders` is the
refinement mapping.

### KeyedSemaphores

An instance of `Semaphore(1)` is replaced by what `Semaphore` was shown to
implement, a FIFO: `line[i]`, whose head owns the permit. What is left is the
map: `For` finds or makes the key's instance, `ReleaseKey` drops the entry when
the line is empty and the entry is still this instance's (`Dropped`). A caller
keeps the instance it found. Instances are a finite set of names with an
unused one taken for `new Semaphore(1)`; an instance is garbage when neither
the map nor a caller refers to it. `for()` used alone never drops an entry and
is not modelled ("use either for() or acquire()").

### ClearBarrier

`exclusive` is `exclusiveActive` with `exclusivePromise`, which change
together. `drained` says whether the promise of that name has resolved; the
first `enter()` of an empty barrier replaces it by an unresolved one. A woken
caller re-tests its loop's condition in a callback of its own, hence the place
`woken` and the race between woken users and clears.

### OfflineSections

The composition: a section's place is `at` in the barrier, its item's lock is a
`KeyedSemaphores` caller, `storeLine` and `indexLine` are the two semaphores as
`FifoSemaphore` has them, and `step` is how far it is. Storers (`storeFile`,
`reconcileTree`, `redownloadStandaloneFile`, `removeItem`) take all four locks,
movers (`removeStoredDirectory`, `updateTreeRootMeta`, `renameStandaloneFile`)
two, `updateIndex()` the barrier and the index mutex. What a section does is
`Work`. `run()` gives back in reverse order with an await in between, hence
`ReleasePermit`, `ReleaseItem` and `LeaveBarrier` are three actions.

### OfflineIndex

An item's directory is `"bare"` or `"kept"` (with a meta). `fresh` is
`indexRebuildMutationCounter === mutationCounter`; of the other counters, too,
only "did it move since" is kept. A listing under way (`readers`) remembers
which metas it has yet to read, which of those were there when their read began
and which were invalidated since; `MetaReturns` may return the older or the
newer one. A job is a store section, which has its item to itself as
`OfflineSections` shows; `rebuild` holds the index mutex; a clear finds nobody
inside. The sync pass keeps in `pass` what it listed and heals, renames,
removes or skips one item at a time.

A tree's commit is three steps, as it is three awaits in `reconcileTree()`:
`TreeWrites` is the meta (1974-1976), `TreeDedups` what follows the await of the
index, the overlap dedup and the counter (1983-2019), and `TreeDedupFails` the
exit of an index or a deletion that throws, which moves no counter. `untold` is
what was stored or deleted since the counter moved; it is what `IndexIsStore` and
the list in `CachesAreStore` except. Entries inside a tree are not modelled: the
dedup may delete any items the index lets it take for entries (`Subsumable`), and
a deletion that throws has deleted nothing of its item. Sizes and what is
downloaded are left out.

### OutboxSync, NotesOutbox, NotesSync, NotesEditor

`store` is the zustand queue, `disk` the SQLite row. `flushToDisk(value)` is
`Flush`: its value is captured at the call and joins `gated` until the restore
is over, then `writes`; SQLite takes them in order (`WriteOldest`), and what
the caller does after its await is the flush's `then` (`FlushReturns`).
`Start`, `Hydrate`, `Reconcile` and `FinishRestore` are the restore. A pass
runs from `PassBegins` to the flush's return; it holds the mutex, as does the
restore (`MutexFree`).

A note's worker in a pass: `peeking` (request under way), `peeked` (answer on
its way back), `pushing`, `landed` (the server did it), then idle.
`PeekReturns` is `pushNote()` between the two requests: stop, hand over, or
push the newest entry of the same base. `PushReturns`, `PushFails` and
`PushRejected` are its three ends.

The editor answers events in a queue of its own; the newest event waits in
`inbox`, the answer under way is `task`. `hold()` is `held`; `settled` is
`IsSettled`. `latest`, `done`, `saved` and `kept` are history the code does not
keep; only properties read them, and keystrokes are numbered so that "this
edit" has a meaning. `kept` is the content the user last answered "Keep mine"
to, unless a later event was waiting by then: that event may carry the same
content, edited once more elsewhere, and asking about it is right. So may a push of this
device, which makes another version of it (`Lands`).
`NotesSyncAssumption` says that the scaffold's `EmptyQueue` is the notes'
`EmptyOutbox`, and that contents which are unreadable or deleted are no texts;
`NotesOutboxAssumption`, that an absent entry or base is neither.

What is simplified, and why it does not hide what the properties are about:

- A note's list of entries is one entry. Every rule of `notesOutbox.ts` leaves
  one: a keystroke's entry supersedes the others (`notesOutbox.ts:94-97`).
- A base is a content instead of its 32-bit hash: two contents with the same
  hash are not considered.
- Waiting `sync()` calls are one flag: a second call that waits finds what the
  first one left, and a new one may come at any time.
- The socket's delay and the editor's queue are one queue, of which the newest
  event is kept because older ones are superseded (`index.tsx:540-545`).
- This device's own pushes are recognised when they come back
  (`socketHandlers.ts:176-185`), always; how is `NoteBody`'s subject.
- `QueryReads` may happen whenever the query is enabled, which is more often
  than TanStack Query reads.
- The list, the reads and the prune of the restore's reconciliation are one
  step, as nothing else may run a pass meanwhile; typing happens before or
  after it. One read of the restore failing, as opposed to the list, is in.
- An owed read after a socket gap that a newer event supersedes is dropped at
  once; in the code it still takes its turn, holds the note and reads nothing.
- One editor per note; delays have no length (a timer may fire at any moment
  after it was armed); "inactive" app states do nothing in the code.

### NoteBody

Versions of a note on the server are numbered, and `history[v]` is the text of
version v; a text saved twice is two versions. `body` is the version the content
query holds, `current` and `read.fresh` are `contentReads` with its comparison
of sequence numbers and session times, `pushes` is `PushEchoes`, `refresh` the
request of `refreshAfterRemoteEdit()`. The queue of edits is one edit (`queued`)
and a pass is its request, as `NotesSync` and `NotesEditor` are about the rest;
a prompt is its two answers that change something. `loaded` is the ledger's
field, and `waits` the calls of `refreshAfterRemoteEdit()` that await `load()`,
with the text each has chosen (`Event`) or none (`Fetch`); they go on in order,
each in a callback of its own, after the load or its failure (`LoadReturns`), and
read what the cache holds only then. With the ledger in memory and nobody waiting
the await lets nothing in between (`AtOnce`). `late` is history: an event that
waited was put over a newer body. `unheard`, `evicted`, `mine`
and `verdict` are history for the properties. `ToldApart` says which versions have
an echo that can be told from every other event: no other device saved their
text, and if this one pushed it again, as it does when an answer is lost, the
limit did not drop it. `NoteBodyAssumption` has `MaxVersions` at least 1, as the
note has a version from the start. The fault `"sameText"` lets a text
come back while a refresh or a push relies on its not doing so; no run has it.

### ChatsSync

Messages are numbered in the order they were sent, so a queue is a set. A pass
works on `rest`, what is left of its snapshot, one message per chat at a time;
`landed` are the chats whose request the server performed. `errors` is
`inflightErrors` with its strikes. `MishapUnless` bounds what goes wrong without
a reason in the state (offline, a chat that is gone). `saved` is history: what
a flush reported written, of the messages queued then (`Persisted`). One that
failed may have left the queue and come back meanwhile; it counts if every
flush to come has it. Drafts and the optimistic copies of the messages query are
not modelled.

### Supervisor

The serial queue is `queue`, the await its first task is at `task`. `host` has
the fields of the code's `Child` and the process's own state: `opening`,
`open`, `dying` (exited, killed, or sent something malformed: its exit event is
still to come), `gone`. `report` is what pages see. One subscription stands for
all topics, `stopChild()`'s wait may end at any time (on `stopped`, on the exit
or after 25 s), `events` bounds acts of the user and failures. `demand` are the
users with work in their stores, which a task reads (`DemandRead`) before it
decides (`DemandDecides`, `IdleDecides`); it may rise at any time, with no call
out, and with or without an evaluation asked for (`AddWork`: a mount's store is
followed by `ensure()`, a pair's is not). `noticed` is history: the work an
evaluation has begun with. The environment
signs another user in only once the last one is signed out.

### SignOut

What can be deleted is a set of entries: the sync data and the mounts directory
of each user, the old client's stash, the app lock, the logs and the browser
profile. `data` says of each whether it is gone, a session's (`"owned"`) or left
by one. `pending` is the code's, `marker` the file, with `{}` for no file, so
`stored`, which only spares a removal, is not there. `queue` is the serial
queue; its first task is at `step`, and `todo` is what it has yet to delete:
each deletion is an action that may fail, and so is each save. In between the
page signs out (`SessionClear`, `VaultClears`), the server revokes the session
or the PIN is forgotten (`Revoked`, which go without `begin()`), somebody signs
in (`SessionSet`, `VaultSet`), the session writes (`Writes`, all it has at once)
or the process ends and starts again (`Restart`, with the wipe before ready).

A sign-out that keeps the mounts directory for its uploads (`cleared` is false)
makes it the user's own again from the first save on, as the comment at
`signOut.ts:323` has it. `MayClear`: `mounts/service.ts` says that a directory
may go when no upload is left in the drive's cache, and keeps the cache when no
host has run for the user; a directory that was kept is one for which none has
run since, so it is kept again until a session of the user has had it. `due` is
history for `LeftIsListed`. The fault `"saveFails"` makes the marker's write
fail; no run has it (section 6).

## 3. Runs

| run | instance | what it shows |
|---|---|---|
| semaphore | 5 callers, 2 permits, `CompactAt` 1 | with 5 callers up to 3 wait, so an array is both partly consumed and not empty when it is compacted |
| sections | 2 storers, 1 mover, 1 `updateIndex()`, 1 clear again and again, 2 items, 1 store permit | locks nest; no deadlock; a clear meets nobody; everybody is served |
| conflicts | 1 note, 3 texts, 2 keystrokes, 1 edit elsewhere, socket, background, clock | prompt, its three answers, hand-over and re-read against passes; a device alone never conflicts with itself |
| faults | 1 note, 2 texts, with failing and rejected requests, lost acknowledgements, late reads, unreadable contents, deletion | no unsettled edit leaves the queue, no settled one returns; the strikes go to the drop and start again |
| restart | 2 notes in one row, one end of the process | restores, gated flushes and the other note's entry |
| settles | `FairSpec`, failing requests, a network that goes, one end of the process | every edit settles |
| note_body | 4 versions, 3 pushes, a limit of 2 echoes, 1 gap of the socket, failing requests, lost answers, a ledger that is loaded late | echoes are told from other edits; a body shown without a read is current |
| chats | 2 messages, 2 chats, 2 strikes, 2 mishaps (failures, chats that go, offline, an end of the process) | sent once, lost never, in order, and in the end |
| offline | 1 file, 1 tree, an end of the process at any moment, nothing else bounded | index and caches are the store's |
| supervisor | 1 user with 2 credentials, 2 host processes, 1 caller, a crash loop at 2, 3 acts or failures | one host; calls, reports and restarts keep up with it |
| signout | 2 users, deletions that fail, an end of the process at any moment, nothing else bounded | what a sign-out left is deleted or listed; what a session owns is not deleted |
| removed | as offline, following both items' removal | section 6 |

*Locks.* The sections have two storers so that two contend for one item or for
the store's permit, and a mover that takes an item without it; a rebuild comes
from inside a section and from `updateIndex()`. Two instances suffice for two
keys, as at most two are alive at once. `KeyedSemaphores` and `ClearBarrier`
are checked in this composition, with their own invariants.

*Notes.* The bounds (`MaxEdits`, `MaxRemote`, `MaxCrashes`, `MaxFlushes`) are
named in `NotesEditor`'s header; with them used up the model may stop, so
deadlock checking is off. `Faults` selects what may go wrong; each action names
the fault that enables it. Two keystrokes are the least for "typed during the
push"; three texts are needed for base, mine and theirs to differ (`conflicts`;
`faults` has two and leaves that to it); one edit
elsewhere suffices for each prompt, and a second only repeats the queue's
superseding. One end of the process reaches every point of the restore, as a
second restore starts from a row of the same kind. `MaxRejections` is the
code's 3.

*Note body.* Three pushes overrun the limit of 2 (8 in the code) with one to
spare; four versions let an edit made elsewhere fall before, between and after
two pushes. Versions are the bound that stops the model. The ledger loads once,
at any moment before the fourth version (`MaxEarly` is 3): two events may wait for
it, as many as another device's edit and a push over it need, and go on after the
fourth, too. 3.5 million states.

*Chats.* Two messages make an order, in one chat or in two; two mishaps make a
failure with a restart, a lost answer with a retry, a deleted chat with a failed
list. Failed writes of the row, with a restart after them, are checked here for
the notes, too: `OutboxSync` is the same, and the fault `"diskFails"` triples
each of the notes' runs. `MaxRejections` is 2 (the code has 3) so that the drop needs no more
mishaps than there are. Two flushes may wait; three (645 000 states) show
nothing else, and `ChatsSaved` is about any number.

*Offline.* Nothing is counted, so no bound cuts a behaviour short. Items affect
one another only through caches, the index, the pass and the dedup; a file and a
tree are the two kinds of each. `Followed`, the items whose removal `removed` keeps,
is empty here, as only the run `removed` has a property of it. 2.0 million states.

*Supervisor.* Two processes: the old one may be dying while the next starts. A
crash loop of 2 (the code has 5) is reached with three events, with one left for
a retry. Two blobs suffice for a change of credentials, not for one that is
changed back within the debounce, which takes a third; the theorems have any
number. 304 000 states. The app may quit, so deadlock checking is off.

*Sign-out.* Two users: the one whose leftovers are listed and another who signs
in over them. Nothing is counted; a sign-out of a signed-out app and a second
one behind a first are in.

## 4. Fairness

- Semaphore: microtasks run (`Resume`), and holders release because
  `withPermit()` and `defer` do so in a `finally`. Nobody has to ask.
- Sections: what was begun goes on: callbacks run, downloads end or fail, and
  `run()` gives back what was deferred. Clears are not asked for for ever: a
  stream of them can starve `enter()`, whose loop waits for "any that queue up
  while we wait". No caller has to come.
- Notes, `FairSpec`: timers fire, SQLite and the server answer, the network
  comes back, a process that ended is started again, the app comes to the front,
  a user answers a prompt that is shown.
  `SF` on `PushLands` and `LoadTheirs`: a request tried again and again succeeds
  once (the retry timer, the foreground and the reconnect drive it). Network,
  foreground and the set of open editors settle down in the end; a user who
  opens and closes an editor for ever could postpone an answer for ever. Typing,
  opening and closing need not happen.
- Chats: `WF` on the system's steps as one, as JavaScript and SQLite run what is
  due, requests are answered one way or the other and a process that ended is
  started again; `WF` on the network's return. The user owes nothing.
- Supervisor: `WF` on the tasks of the queue, the retry and session timers, the
  sign-out flow's call of `signedOut()`, and on a host's getting ready, exiting
  and answering. Nobody has to sign in, call or retry. The idle timer need not
  fire.

`offline`, `note_body` and `signout` check safety only and state no fairness: a
file that can never be deleted stays listed for ever.

## 5. Properties

Each property is stated above its definition. The ones that carry most:

- `QueueIsUnsettledEdits` relates the queue to the history of keystrokes: per
  note it is exactly the newest unsettled one. Losing an edit, pushing a stale
  one and reviving a settled one all violate it.
- `SavedSurvives` (notes and chats): what a flush reported written is in the row
  until it is settled.
- `AnswerIsAlone`, `AskedOnce`, `OverwriteAnnounced`, `SoloNeverConflicts`:
  the conflict protocol between passes, prompts and other devices.
- `EditsSettle`, `SendsAnswered`: every edit and message is delivered, given up
  or withdrawn.
- `ReopenIsCurrent`, `EchoesAreOurs`, `PushStays`: what is trusted without a
  read, what is hidden as one's own, what a late answer may not undo.
- `AtMostOnce`, `NothingVanishes`, `WithdrawnStaysOut`, `ArrivesInOrder`: the
  promise of a chat's outbox, under retries, removals and restarts.
- `IndexIsStore`, `CachesAreStore`, `AnswersAreIndexed`: a rebuild that is
  skipped, a cache that is filled late and an answer given early are right, up to
  what the counter was not moved for yet.
- `LocksNest`, `ClearMeetsNoRebuild`, `SectionsServed`: four locks, one order.
- `OneHost`, `CallsReachTheHost`, `ReportIsTrue`, `RestartsNothingTwice`,
  `HostComesUp`, `WaitersHear`: the supervisor between the awaits of its tasks.
- `LeftIsListed`, `OnlyLeftGoes`: the sign-out's list against its files, over
  sign-ins, second sign-outs and restarts. The list that saves the first from a
  crash is what endangers the second.
- `ImplementsFifo`: the array with its compaction is a FIFO semaphore.

## 6. Disagreements between code and comments

A run shows one: `removed`. `removeItem()` takes the item's lock so that a
removal cannot be undone by a pass over the same item (`offline.ts:2893-2895`).
The pass lists what is stored before it takes any lock. If the removal is over
by the time the pass reaches the item, the pass takes the lock, makes the
directory and commits: the item is back. Trace: the pass lists a tree, the user
removes it, the pass reconciles it and commits.

The modules state further conditions that do not hold, with the comment each is
taken from. They are found within seconds when given to TLC as the one property
of a run, and no run here has them:

- `ChatsSync!PruneSparesLive` (`sync.tsx:51-53`, "a chat that gained live
  messages before/during the restore is never pruned"): the prune spares the
  chats that were live before the merge; one the user writes to while the list
  of chats is being fetched is dropped with its new message, if the row had
  messages for it and the list has not.
- `ChatsSync!NeverSentOnceOut` (`chats.ts:282-283`, "must never retry into a
  chat we just left"): a pass sends on from its snapshot.
- `OfflineIndex!CounterTellsAll` (`offline.ts:232-233`, "every disk mutation
  path calls invalidateCaches"): three deletions of `storeFile()` do not
  (lines 2145, 2193, 2205), and a tree's commit does so late. `reconcileTree()`
  writes the meta and drops the tree's own cached meta (1974-1976), then awaits
  `readIndex()`, which may wait behind a rebuild (1983), then deletes what the tree
  subsumes (1986-2017), and moves the counter only after that (2019). In between a
  rebuild is skipped on an index without the tree and the list of files is the old
  one; when the index or a deletion throws it stays so, until something else moves
  the counter. `IndexIsStore` and `CachesAreStore` except the items concerned
  (`untold`). `AnswersAreIndexed` needs no exception: a store that threw does not
  answer.
- `NoteBody!EventsNeverWait` (`notesOffline.ts:793`, "The event-body path needs no
  latch: it never waits between reading and committing"; 830-831, "events commit in
  socket order and the last one wins"): the event's text is chosen at line 783, `load()`
  is awaited at 810, and the text is committed at 832. While the ledger is not loaded
  the user may open the note, edit, push and close it; the older event is then put
  over the push, and a body read meanwhile is trusted although the event has taken
  its place. `ReopenIsCurrent` excepts a body that `late` says so of, and
  `PushStays` a push made after the event was announced (`OutwaitedBy`).
- `Supervisor!WorkIsServed` (`supervisor.ts:72`, `ensure()` "Starts or stops the
  host as the session and demand now say"): `addPair()` writes the pair after its
  calls have settled and asks for no evaluation (`sync/service.ts:645-662`). If the
  host crashed in between and the evaluation found no demand, its restart is given
  up; if the idle task has read the stores before, it stops the host. Nothing is
  due then, and the pair waits for the next focus, call or start. `HostComesUp` is
  about work an evaluation has begun with (`noticed`).
- `Supervisor!RevocationTakesItsOwn` (`supervisor.ts:68`): a revocation waits in
  the queue and for its host to stop, and then clears whatever session the vault
  holds, one the user signed in with meanwhile included.
- `Supervisor!SignedOutOnceExited` (`supervisor.ts:76`, "settles once it
  exited"): it settles on `stopped`, or after 25 s.
- `NotesEditor!CleanIsCurrent` (`sync.tsx:596-598`, the pushed content "IS the
  cloud content now"): an edit made elsewhere that a push buried is taken for
  newer when its event is answered after the push. `ReopenIsCurrent` shows that
  the next opening reads the server all the same.
- The row of the notes when its restore finds every edit in the cloud: the store
  is emptied and nothing writes the row, which is read and reconciled again at
  each start.

Conditions a passing run leaves out because its property does not hold under
them; adding the fault to the run's `Faults` shows it within seconds:

- `"early"` in `restart` (`SavedSurvives`): a keystroke before the restore has
  read the row writes, afterwards, a queue captured before the merge, over
  another note's saved edit. It takes a slow first read of SQLite.
- `"unreadable"` in `restart` with an edit made elsewhere (`SavedSurvives`,
  `QueueIsUnsettledEdits`): an undecryptable edit answered while the row is being
  read finds no unsynced edit in memory and discards what it thinks is there;
  the discarded edit comes back with the merge, and the flush of the empty
  queue, gated until then, overwrites the row.
- `"lostReply"` in `conflicts` (`SoloNeverConflicts`): a push that landed
  unacknowledged keeps its old base and the next peek takes it for an edit made
  elsewhere (`sync.tsx:541-548`).
- `"lateFetch"` in `conflicts` (`SoloNeverConflicts`): a content read under way
  when typing starts answers after the push and puts the older content into the
  cache (`content/index.tsx:219-227`).
- `"clock"` with `"early"` in `restart`, three keystrokes on one note
  (`QueueIsUnsettledEdits`): timestamps are monotonic over the entries in
  memory, not over the row's, so with the clock set back across a restart a
  stale entry wins the merge (`notesOutbox.ts:129-135`).
- `"sameText"` in `note_body` (`ReopenIsCurrent`, `PushStays`): a refresh
  compares bodies, not versions, so a body that changed and changed back during
  its request lets an older answer in; and two devices that save one text at a
  time take each other's event for their own. `EchoesAreOurs` holds with it.
- `"rejects"` in `conflicts` (`AskedOnce`): "Keep mine" rebases the edit and
  leaves the content query's cache at the older content. When the server rejects
  the edit until it is given up (`sync.tsx:553-585`), the query does not read
  again by itself (`staleTime: Infinity`, `content/index.tsx:225`); the next
  keystroke is based on the older content, and the user is asked, or warned,
  about the version he had kept his over.
- An end of the process and a third keystroke in `conflicts` (`AskedOnce`): the
  same, when the user typed what the other device had saved and keeps it while
  the restore reconciles, which then drops the edit as the cloud's own.

- `"saveFails"` in `signout` (`OnlyLeftGoes`, `LeftIsListed`): `save()` logs a
  marker that cannot be written or removed and goes on (`signOut.ts:260`).
  `signedIn()` promises "that no later start deletes what the new session
  writes" (lines 73-74); when its save fails, the old marker still lists the
  user's directories, and `resume()` deletes what his new session wrote. When
  the first save of a sign-out fails, a sign-out cut short is not finished by
  the next start, as line 333 has it.

`PushStays` is about confirmed pushes whose echo can be told apart (`ToldApart`).
Of others it is false: an edit whose answers are lost is pushed again and again
with one text. With more copies landed than `PushEchoes` remembers (8), or a copy
saved by another device, an older echo forgets the newer pushes with it
(`AfterMatch`), and the next event puts its older text into the cache in place of
a confirmed push's, until its own echo is delivered or the note is read.

Also met: the mobile app never calls `PushEchoes.forget()`, so a push that
failed stays remembered and `EchoesAreOurs` counts its text as owed; and a
cancelled read of the content query whose request had already resolved still
counts as a read.

## 7. Proofs

`tlapm` proves, for every value of the constants that satisfies the named
assumption of the module:

| theorem | statement |
|---|---|
| `SemaphoreTypes`, `SemaphoreCounts`, `SemaphoreNoLostWakeup`, `SemaphoreQueue` | types; permits exact; nobody waits with a permit free; the array is the waiters |
| `SemaphoreExclusion` | at most `MaxCount` callers hold a permit |
| `SemaphoreImplementsFifo` | every behaviour of `Semaphore` is one of `FifoSemaphore` |
| `BarrierTypes`, `BarrierExclusion`, `BarrierNobodyForgotten` | the barrier's three invariants |
| `KeyedExclusion`, `KeyedMapIsLive` | one holder per key; the map is exact |
| `SectionsNest`, `SectionsClear`, `SectionsExclusion` | the order of the locks; a clear meets no rebuild and nobody inside |
| `SectionsImplementLocks` | a behaviour of the composition is one of `ClearBarrier` and one of `KeyedSemaphores` |
| `NotesTypes`, `NotesAnswerIsAlone` | the types; no push works on a note while its answer is carried out |
| `NotesOverwriteAnnounced` | no push lands over what its peek saw, unannounced |
| `NotesEdits`, `NotesQueue`, `NotesSaved` | the queue is the newest unsettled keystrokes; what was reported saved stays (`Undisturbed`) |
| `NotesMirror` | the row is the queue when nothing is under way (one life of the process, a disk that writes) |
| `NotesSolo` | a device alone never meets a conflict (`Acknowledged`) |
| `ChatsInvariant`, `ChatsAtMostOnce`, `ChatsNothingVanishes`, `ChatsWithdrawn`, `ChatsSaved`, `ChatsInOrder` | all of the chats' safety |
| `OfflineInvariant`, `OfflineCaches`, `OfflineIndexed`, `OfflineAnswers` | caches and index are the store's but for what is `untold`; who is answered is indexed |
| `SupervisorInvariant`, `SupervisorOneHost`, `SupervisorRestartsOnce`, `SupervisorCalls`, `SupervisorReport` | all of the supervisor's safety |
| `NotesAskedOnce` | what the user kept his over is not asked about again (`Kept`) |
| `NoteBodyReopens` | a body shown without a read is the server's, unless an event that waited was put over it |
| `NoteBodyEchoes`, `NoteBodyPushStays` | echoes are told from other edits; a confirmed push stays in the cache, but for events that waited |
| `SignOutInvariant`, `SignOutStaysListed`, `SignOutSparesOwned` | what a sign-out left is deleted or listed; what a session owns is not deleted |

The types, `NobodyForgotten` and `MapIsLive` are proved and not among the runs'
properties. The bounds are constants like any other: nothing is assumed of them
but that they are numbers. Six groups of theorems have a hypothesis about
`Faults`, each leaving out what section 6 shows to break the property:

- `NoteBodyReopens`, `NoteBodyPushStays`: `"sameText" \notin Faults`
  (`NoteBodyEchoes` needs nothing); the sign-out's: `"saveFails" \notin Faults`.
- `Undisturbed` (`NotesEdits`, `NotesQueue`, `NotesSaved`): the process does not
  end (`MaxCrashes = 0`), or there are neither `"early"` keystrokes nor
  `"unreadable"` contents. Every other fault is in: lost acknowledgements,
  rejections, late reads, failing writes, clock steps, deletions.
- `NotesMirror`: `MaxCrashes = 0` and `"diskFails" \notin Faults`. With either
  the row rightly differs from the queue for a while.
- `Kept` (`NotesAskedOnce`): one life of the process and no `"rejects"`.
- `Acknowledged` (`NotesSolo`): one life of the process, neither `"lostReply"`
  nor `"lateFetch"`, and no content that cannot be read: a peek that cannot
  decrypt what it sees has to announce an overwrite.

*Sections.* `SectionsInv` is the barrier's invariant, the keyed semaphores'
invariant and `Placed`, which says by a section's step what it has taken. Each
step of the composition is a step of the barrier or leaves it alone, and
likewise for the keyed semaphores, so that their inductive steps, cited by name,
give two thirds of the invariant and `SectionsImplementLocks`.
`ClearMeetsNoRebuild` follows: who rebuilds is inside, and a clear is alone.

*Note body.* `BodyInv` is about what is newer than a body: as long as no event
and no connect came since the trusted read began, every version newer than the
cached body has its event on its way (`BodyMissesNothing`); the same of a read
that was answered (`ReadMissesNothing`) and of a push that landed
(`PushIsAnnounced`). A push under way keeps its note dirty, so no read begins
under it, and what a late refresh expects to replace was not saved after what it
read (`RefreshIsNewest`). With nothing on its way the body is the newest. An event
that waited for the ledger may put an older text in the body's place; until a read
or a push returns `BodyMissesNothing` then says nothing (`late`), and an event that
waited and is not older takes nothing from it.

`EchoInv` is about what is remembered. Texts are numbered as they are made, so
this device's versions carry growing texts, one repeated while its answers are
lost (`Numbered`), and the events on their way are those of the newest versions,
in order (`Contiguous`). Hence a push that was forgotten was forgotten with all
the older ones (`Floor`), and the copies of a text that are remembered are
counted: at least as many as echoes of it to come, unless the limit dropped one or
another device saved it too (`NotForgotten`), and no more, unless an echo of it was
missed (`NotKept`). The first shows that an own event is hidden, the second that
a hidden one is owed. That a confirmed push stays needs in addition that of a text
saved once it or a newer one is remembered (`Survives`): an event that is taken
for another device's then comes after that push. Of the events that wait
`WaitsKnow` says that they are of versions not older than any push the server had
when they came and whose echo can be told apart. So one of them takes the body
behind a push only if that landed while it waited, which is the exception
`PushStays` has (`OutwaitedBy`).

*Sign-out.* `SignOutInv` adds four facts to the types. `Queued` says which
operations can wait together: `resume()` is alone, no sign-out waits while a
session is stored, and a sign-in is the last. `Paced` relates memory to the
file: between two operations they are equal, which is where a marker that can be
saved is needed. `Lists` says that nothing listed is a session's, `begin()`'s
profile excepted, which only the next start deletes, and only without a session;
`OnlyLeftGoes` follows, as each deletion is of something listed. `Dues` says
where what is due is listed at each step. Neither property is inductive alone:
that a kept directory is not deleted needs the first save to have replaced the
older list, and that a list which was replaced forgets nothing needs `Listed` to
have made what it drops a session's again.

*Notes.* `NotesInv` adds four facts to the types and `AnswerIsAlone`. A held
note's editor is answering (`HeldIsBusy`), so an event answered from idle
discards under no hold it does not know of. Every flush an answer waits for is
the only one of its note, and its editor is where the flush left it (`Awaited`),
so a flush never moves on an answer it does not belong to. Before the restore is
over flushes are gated, afterwards none is (`CallsInv`), so the two queues never
hold one answer's flush each. An answer that asks is about a content
(`AsksAboutSomething`), which types what "Keep mine" rebases on. With
`VerdictIsOnPeek` (a push carries the verdict on what its peek saw) a step of
the invariant gives `OverwriteAnnounced`. There is one lemma per action.

*Notes, the edits.* `EditsInv` follows each keystroke. `Queue`, the row until
the restore has read it and the store from then on, is the newest unsettled
keystroke of each note (`Unsettled`); that takes `Quiet` (nothing is answered
from a store that is yet to be filled) and `Untouched`. `Working` says of each
worker that its entry is the queue's or an earlier one with an older timestamp,
so that the prune after a push, which goes by timestamps, takes out that entry
and no later one. `SavedIsKept`,
about the row and every flush under way, is not inductive: a flush that is
written makes what it holds saved, which later flushes then have to hold, and
`SavingIsKept` says beforehand that they do. `SoloInv` adds, for `NotesSolo`,
that the cache, the base of the queue and the cloud are one text except between
a push's landing and its acknowledgement, when the cloud has the push's.

*Notes, the prompt.* `OnceInv` follows the version the user kept his over. As long
as the cloud has it, the edit that was kept is queued and based on it, every
worker of the note is on that base and saw that version or none, and no event
waits (`BasedOnKept`); a push that lands something else buries it for good, since
the same text again is another version. In either case nobody can show it any
more (`Unasked`). It takes one life of the process, as a restore may drop the kept
edit, and no edit given up (`Kept`); every other fault is in.

*Chats.* `ChatsInv` conjoins the four invariants with eight facts. `Delivered`
carries `AtMostOnce`: a message whose answer was or will be heard is out of the
row a restore may read and leaves the queue with that answer, so no pass finds
it again. `Apart` says that until it is read the row shares no message with the
new process, which is why the merge revives nothing that was withdrawn.
`Lasting` orders the flushes: of the messages still queued, each flush has what
the earlier ones have, failed ones excepted; `SavedSurvives` follows for any
number of them. `InOrder` says that what a pass has yet to send of a chat skips no
earlier message still to be sent. `ArrivesInOrder` is a step of the invariant.

*Offline index.* `Reads` and `Finds` are about listings under way: a read whose
key was not invalidated will return what the disk has now, hence a listing the
counter did not move under finds what is stored whatever its reads still
return. So the index a rebuild publishes is right exactly when its marker says
so (`Indexed`), a list cache filled late is right (`CachesAreStore`), and a
rebuild that somebody asked for after his store or removal has it (`Answered`,
with `Jobs`: what a job did has been counted and stays done until it is over; only
another tree's dedup may delete what it stored). All but the metas' caches are
stated up to `untold`, which `Mutate` adds to while it leaves the counter alone;
that set, and not the marker, is what a tree's commit is in between its meta and
the end of its dedup.

*Supervisor.* `SupervisorInv` is the four invariants, `Queued`, `Running` and
`Failed`, and `Reported`, which is `ReportIsTrue` while tasks are under way: a
report that names a host that is gone is allowed as long as the running task
will set it right (`Corrects`), a due restart has its timer or an evaluation in
the queue, and `off` with a host means that a sign-out waits. A decision that was
read from the stores and is yet to be carried out concerns the host that was current
then (`Asking`, `Running`), whatever demand does meanwhile. Only a host that a
task is stopping was told to (`Running`), which makes `OneHost` survive the
forks. One lemma per task and await.

*Semaphore.* `IInv` conjoins the four invariants: none is inductive alone. That
a release wakes the right callers needs the array to hold exactly the waiters;
that this survives a compaction needs the head to stay within the array; that
nobody waits with a permit free needs the counter to be exact. The lemmas
`HolderJoins`, `HolderLeaves` and `Shifted` are the arithmetic of cardinalities
and indices; there is one lemma per action. `ReleaseEffect` splits on the three
outcomes of `Compacted` and says what all have in common. The refinement needs
nothing more: a release takes the head off `Live`, whichever way the array is
cut (`ReleaseGivesBack`), `acquire()` takes or appends, and the continuation of
a granted caller is a stutter.

*ClearBarrier.* `BarrierInv` adds to the types that `inflight` is the number of
users inside, that `exclusive` holds exactly when one clear claims the barrier,
and that `drained` is unresolved exactly while somebody is inside; the last is
why awaiting a promise that later `enter()`s replace is sound.

*KeyedSemaphores.* `KeyedInv` says that a line holds each of its callers once,
exactly those that found the instance, all for the same key, and that the map
points at the instance of every key in use. That last conjunct is the one the
code's comment in the release function is about.

Only model-checked: everything with liveness (`EventuallyGranted`,
`SectionsServed`, `EditsSettle`, `SendsAnswered`, `HostComesUp`, `WaitersHear`),
as TLAPS does not treat fairness and ENABLED; and the run `removed`.

What the proofs found in the models: the history of `ChatsSync`'s `SavedSurvives`
was wrong once three flushes waited, and the first `AskedOnce` once two edits made
elsewhere had one content, then, with lost answers, once this device itself pushed
the content kept over. `PushStays` was false of repeated pushes. No run's bounds
had let any of it happen; TLC shows each with one more push, keystroke or fault.
The conditions on `"unreadable"` with a restart and on `"rejects"` (section 6) came
from steps of `EditsInv` and `OnceInv` that failed. Each inductive invariant was
checked by TLC on an instance like its runs' before it was proved.

## 8. Not modelled

- Of the outboxes: sign-out (`cancel()`, the abort signal, the wipe), the history
  restore's `discardInflight()`, a SQLite read that fails during the restore
  (the gate opens all the same and the next flush overwrites the row), chat
  drafts. A chat message given up lives on in the session's errors only, by
  design.
- Of the offline store: the entries inside a tree, so which items a tree subsumes
  is any choice the index allows; a deletion that throws halfway; sizes; what the
  planner decides and what is downloaded. Of the offline notes: what the ledger of
  marked notes holds, its passes and evictions; of its load, that it takes a while
  and may fail.
- Of the desktop: what runs inside the native host, the updater, the migration,
  and the services in front of the engine and rclone, which are calls and demand
  to the supervisor. Of the sign-out: a marker that cannot be read, a vault that
  fails to be cleared, a session kept in memory only, the file provider, the
  page's own wipe.
- Camera upload, transfers, SQLite itself (taken to perform writes in the order
  issued), SecureStore, authentication: passes with requests and progress, of
  which only the ends matter to the modules here.
- Rendering, wording, toasts beyond the overwrite announcement, back-off
  lengths, hash collisions; the SDK and the server beyond reading and writing.
- The office editors, the dictionaries and the evaluation harness, most of the
  repository's lines: readers, writers and layout of document formats, in one
  actor and without persistence of their own. Their correctness is about formats
  and has no order of events for a model checker to vary. The web client's
  outboxes follow the shared rules.

## 9. Plan

1. The entries of a tree in `OfflineIndex`, so that the overlap dedup deletes the
   items that are in the tree and no others; the sync pass's plan against the items'
   locks.
2. `SignOut` composed with `Supervisor`, in place of its `signingOut`: a
   sign-out's wait for the host against the deletion of what the host writes.
3. `SecureStore`'s write queue, the camera upload's ledger, the updater's
   staged steps.
4. Lemmas on `NotesOutbox` by themselves (a built entry supersedes, a merge
   keeps the newest, a prune keeps what came later), which `NotesProofs` now
   proves where it needs them.
