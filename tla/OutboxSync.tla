----------------------------- MODULE OutboxSync -----------------------------
(***************************************************************************)
(* packages/filen-mobile/src/lib/outboxSync.ts: what the mobile app's      *)
(* persisted outboxes share.  The queue lives in a store in memory and is  *)
(* mirrored to one SQLite row; start() restores it; passes deliver it, one *)
(* at a time, under a mutex the restore also holds.  The outboxes extend   *)
(* this module as the classes extend the abstract class.                   *)
(*                                                                         *)
(* flushToDisk(value) captures its value when it is called and writes it   *)
(* once the restore is over; what its caller does after the await is the   *)
(* write's `then`.  SQLite performs writes in the order they were issued.  *)
(*                                                                         *)
(* sync() calls that wait for the mutex are not counted: one that waits    *)
(* stands for all, as the next one can be made as soon as it has run.      *)
(* Sign-out (cancel() and the wipe) is not modelled here.                  *)
(***************************************************************************)
EXTENDS Naturals, Sequences, FiniteSets

CONSTANTS EmptyQueue,    \* the queue that holds nothing
          MaxFlushes     \* bound: flushes called and not yet written

VARIABLES phase,    \* "off" until start(), then how far the restore is
          online,   \* onlineManager.isOnline()
          store,    \* the live queue
          disk,     \* the persisted queue; no row reads as the empty one
          gated,    \* flushes waiting for the restore, first come first
          writes,   \* flushes SQLite has yet to write, first come first
          waiting,  \* a sync() waits for the mutex
          pass      \* the pass that holds it: none, in its body, flushing

outboxVars == <<phase, online, store, disk, gated, writes, waiting, pass>>

OutboxTypeOK(Queue, Then) ==
  /\ phase \in {"off", "reading", "reconciling", "ready"}
  /\ online \in BOOLEAN
  /\ store \in Queue
  /\ disk \in Queue
  /\ gated \in Seq([queue : Queue, then : Then])
  /\ writes \in Seq([queue : Queue, then : Then])
  /\ waiting \in BOOLEAN
  /\ pass \in {"none", "body", "flushing"}

OutboxInit ==
  /\ phase = "off"
  /\ online \in BOOLEAN
  /\ store = EmptyQueue
  /\ disk = EmptyQueue
  /\ gated = <<>>
  /\ writes = <<>>
  /\ waiting = FALSE
  /\ pass = "none"

\* The bound, for the guards of what calls flushToDisk() at the user's wish.
FlushRoom == Len(gated) + Len(writes) < MaxFlushes

\* A slip: the newest flush is written first.
FlushNewestFirst(value, then) ==
  LET call == [queue |-> value, then |-> then]
  IN IF phase = "ready"
       THEN writes' = <<call>> \o writes /\ UNCHANGED gated
       ELSE gated' = <<call>> \o gated /\ UNCHANGED writes

\* flushToDisk(value), until its write.
Flush(value, then) ==
  LET call == [queue |-> value, then |-> then]
  IN IF phase = "ready"
       THEN writes' = Append(writes, call) /\ UNCHANGED gated
       ELSE gated' = Append(gated, call) /\ UNCHANGED writes

\* A slip: the row is removed before it is written, and the write may fail.
WriteAfterRemove(ok) ==
  /\ writes # <<>>
  /\ disk' = IF ok THEN Head(writes).queue ELSE EmptyQueue
  /\ writes' = Tail(writes)
  /\ UNCHANGED <<phase, online, gated>>

\* SQLite is done with the oldest write, which `ok` says it performed; what
\* follows is up to the outbox.
WriteOldest(ok) ==
  /\ writes # <<>>
  /\ disk' = IF ok THEN Head(writes).queue ELSE disk
  /\ writes' = Tail(writes)
  /\ UNCHANGED <<phase, online, gated>>

\* The condition under which runPass() gets as far as asking for the mutex.
RunsPass == phase # "off" /\ online

\* A call of sync().
CallSync == waiting' = (waiting \/ RunsPass)

\* SyncHost mounts and start() begins the restore, which takes the mutex.
Start ==
  /\ phase = "off"
  /\ phase' = "reading"
  /\ UNCHANGED <<online, store, disk, gated, writes, waiting, pass>>

\* The restore's end: the mutex is free and the gated flushes are issued.
\* A restore that found something and left work in the store calls sync().
FinishRestore(found) ==
  /\ phase' = "ready"
  /\ writes' = writes \o gated
  /\ gated' = <<>>
  /\ waiting' = (waiting \/ (found /\ store' # EmptyQueue /\ online))

\* A slip, the one the code's #41 comment is about: offline, what the row holds
\* is not hydrated.
HydrateOnline(merged) ==
  /\ phase = "reading"
  /\ IF disk = EmptyQueue \/ ~online
       THEN UNCHANGED store /\ FinishRestore(FALSE)
       ELSE /\ store' = merged
            /\ phase' = "reconciling"
            /\ UNCHANGED <<gated, writes, waiting>>
  /\ UNCHANGED <<online, disk, pass>>

\* The row is read: with nothing in it the restore is over, else `merged` is
\* the store and, online, a reconciliation with the cloud follows.
Hydrate(merged) ==
  /\ phase = "reading"
  /\ IF disk = EmptyQueue
       THEN UNCHANGED store /\ FinishRestore(FALSE)
       ELSE /\ store' = merged
            /\ IF online
                 THEN phase' = "reconciling" /\ UNCHANGED <<gated, writes, waiting>>
                 ELSE FinishRestore(TRUE)
  /\ UNCHANGED <<online, disk, pass>>

\* The reconciliation leaves `reconciled` in the store, or failed and left it.
Reconcile(reconciled) ==
  /\ phase = "reconciling"
  /\ store' = reconciled
  /\ FinishRestore(TRUE)
  /\ UNCHANGED <<online, disk, pass>>

\* A waiting sync() gets the mutex, after the restore.
MutexFree == phase = "ready" /\ pass = "none"

\* The process ends: what is in memory is gone, writes not performed included.
CrashOutbox ==
  /\ phase # "off"
  /\ phase' = "off"
  /\ store' = EmptyQueue
  /\ gated' = <<>>
  /\ writes' = <<>>
  /\ waiting' = FALSE
  /\ pass' = "none"
  /\ UNCHANGED <<online, disk>>
=============================================================================
