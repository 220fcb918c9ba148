---------------------------- MODULE NotesProofs ----------------------------
(***************************************************************************)
(* Proofs about the notes outbox, for all notes, texts, faults and bounds. *)
(*                                                                         *)
(* That a conflict's answer is alone with its note (AnswerIsAlone) rests   *)
(* on three things no line of the code states in one place: an editor that *)
(* holds its note is busy answering; a flush an answer waits for returns   *)
(* to that very answer, so the queue of flushes holds at most one per note *)
(* and its editor is where the flush left it; and flushes wait for the     *)
(* restore or for SQLite, never some for each.  NotesInv conjoins them     *)
(* with the types and is inductive.                                        *)
(*                                                                         *)
(* More invariants rest on it: EditsInv follows the edits themselves       *)
(* through queue, flushes and row, SoloInv a device that edits alone, and  *)
(* OnceInv the version the user kept theirs over.                          *)
(***************************************************************************)
EXTENDS NotesEditor, TLAPS

Call == [queue : Outbox, then : Then]

\* A flush whose return moves its note's answer on.
Awaits(then) == then.type \in {"kept", "discarded"}

\* The answer is waiting for it, and for no other.
Awaited(q, tasks) ==
  \A i \in 1..Len(q) : Awaits(q[i].then) =>
    /\ tasks[q[i].then.note] = IF q[i].then.type = "kept" THEN "saving" ELSE "discarding"
    /\ \A j \in 1..Len(q) :
         Awaits(q[j].then) /\ q[j].then.note = q[i].then.note => j = i

\* The flushes.
CallsInv ==
  /\ IF phase = "ready" THEN gated = <<>> ELSE writes = <<>>
  /\ Awaited(gated, task) /\ Awaited(writes, task)

\* An answer that asks is about a content.
AsksAboutSomething ==
  \A n \in Notes : task[n] \in {"asking", "prompt", "keep"} => theirs[n] # None

\* A held note's editor is answering.
HeldIsBusy == \A n \in held : task[n] # "idle"

\* A push carries the verdict on what its peek saw.
VerdictIsOnPeek ==
  \A n \in Notes : worker[n].stage = "pushing" =>
    (worker[n].over <=> worker[n].seen \notin {Unknown, worker[n].entry.base, worker[n].entry.text})

ControlInv ==
  CallsInv /\ AsksAboutSomething /\ HeldIsBusy /\ AnswerIsAlone /\ VerdictIsOnPeek

NotesInv == TypeOK /\ ControlInv

-----------------------------------------------------------------------------
(* The pure rules keep their types. *)

\* A keystroke makes an entry.
LEMMA BuiltEntry ==
  ASSUME NEW p \in Entry \cup {None}, NEW e \in Nat \ {0}, NEW t \in Texts, NEW m \in Nat,
         NEW b \in Texts \cup {NoBase}
  PROVE  BuildEntry(p, e, t, m, b) \in Entry
BY NotesOutboxAssumption DEF BuildEntry, Entry, Later

\* Merging two queues gives a queue.
LEMMA Merged ==
  ASSUME NEW q \in Outbox, NEW r \in Outbox
  PROVE  MergeInflight(q, r) \in Outbox
BY DEF MergeInflight, Outbox

\* A push leaves an entry or none.
LEMMA Pruned ==
  ASSUME NEW e \in Entry \cup {None}, NEW t, NEW b \in Texts
  PROVE  PruneAndRebase(e, t, b) \in Entry \cup {None}
BY DEF PruneAndRebase, Entry

\* A reconciliation leaves a queue.
LEMMA Reconciled ==
  ASSUME NEW q \in Outbox, NEW k, NEW c, NEW r
  PROVE  ReconcileOutbox(q, k, c, r) \in Outbox
BY DEF ReconcileOutbox, Outbox
-----------------------------------------------------------------------------
(* Sequences of flushes. *)

\* Sequences keep their element type.
LEMMA AppendTypes ==
  ASSUME NEW S, NEW s \in Seq(S), NEW c \in S
  PROVE  Append(s, c) \in Seq(S)
OBVIOUS

\* What one with one more has.
LEMMA Appended ==
  ASSUME NEW S, NEW s \in Seq(S), NEW c \in S
  PROVE  /\ Len(s) \in Nat /\ Len(Append(s, c)) = Len(s) + 1 /\ Append(s, c) # <<>>
         /\ \A i \in 1..Len(s) : Append(s, c)[i] = s[i] /\ s[i] \in S
         /\ Append(s, c)[Len(s) + 1] = c
OBVIOUS

\* What is left of one, and its first element.
LEMMA TailTypes ==
  ASSUME NEW S, NEW s \in Seq(S), s # <<>>
  PROVE  Tail(s) \in Seq(S) /\ Head(s) \in S
OBVIOUS

\* Nothing before it.
LEMMA ConcatEmpty ==
  ASSUME NEW S, NEW s \in Seq(S)
  PROVE  <<>> \o s = s
OBVIOUS

\* Two of them in a row.
LEMMA ConcatTypes ==
  ASSUME NEW S, NEW s \in Seq(S), NEW t \in Seq(S)
  PROVE  s \o t \in Seq(S)
OBVIOUS

\* What an awaited flush carries.
LEMMA AwaitsTypes ==
  ASSUME NEW c \in Call, Awaits(c.then)
  PROVE  c.then.note \in Notes
BY DEF Call, Then, Awaits

\* A flush nobody's answer waits for changes nothing.
LEMMA AppendUnawaited ==
  ASSUME NEW q \in Seq(Call), NEW c \in Call, NEW tasks, Awaited(q, tasks), ~Awaits(c.then)
  PROVE  Awaited(Append(q, c), tasks)
<1>1. /\ Len(Append(q, c)) = Len(q) + 1 /\ Len(q) \in Nat
      /\ \A i \in 1..Len(q) : Append(q, c)[i] = q[i]
      /\ Append(q, c)[Len(q) + 1] = c
  OBVIOUS
<1>2. \A i \in 1..(Len(q) + 1) : Awaits(Append(q, c)[i].then) => i \in 1..Len(q)
  BY <1>1
<1> DEFINE r == Append(q, c)
<1> HIDE DEF r
<1> QED  BY <1>1, <1>2 DEF Awaited, r

\* An answer moves on to wait for its flush.
LEMMA AppendAwaited ==
  ASSUME NEW q \in Seq(Call), NEW c \in Call, Awaits(c.then),
         NEW tasks \in [Notes -> Tasks], Awaited(q, tasks),
         tasks[c.then.note] \notin {"saving", "discarding"},
         NEW moved,
         moved = [tasks EXCEPT ![c.then.note] =
                        IF c.then.type = "kept" THEN "saving" ELSE "discarding"]
  PROVE  Awaited(Append(q, c), moved)
<1> DEFINE r == Append(q, c)
<1>0. c.then.note \in Notes
  BY AwaitsTypes
<1>1. /\ Len(r) = Len(q) + 1 /\ Len(q) \in Nat
      /\ \A i \in 1..Len(q) : r[i] = q[i] /\ r[i] \in Call
      /\ r[Len(q) + 1] = c
  OBVIOUS
<1> HIDE DEF r
<1>2. \A i \in 1..Len(q) : Awaits(r[i].then) =>
        r[i].then.note \in Notes /\ r[i].then.note # c.then.note
  BY <1>1, AwaitsTypes DEF Awaited
<1>3. ASSUME NEW i \in 1..Len(r), Awaits(r[i].then)
      PROVE  /\ moved[r[i].then.note] =
                  IF r[i].then.type = "kept" THEN "saving" ELSE "discarding"
             /\ \A j \in 1..Len(r) :
                  Awaits(r[j].then) /\ r[j].then.note = r[i].then.note => j = i
  <2>1. CASE i = Len(q) + 1
    BY <2>1, <1>0, <1>1, <1>2
  <2>2. CASE i \in 1..Len(q)
    <3>1. /\ r[i] = q[i] /\ Awaits(q[i].then)
          /\ r[i].then.note \in Notes /\ r[i].then.note # c.then.note
      BY <2>2, <1>3, <1>1, <1>2
    <3>2. moved[r[i].then.note] = tasks[r[i].then.note]
      BY <3>1
    <3>3. \A j \in 1..Len(q) : Awaits(r[j].then) /\ r[j].then.note = r[i].then.note => j = i
      BY <2>2, <3>1, <1>1 DEF Awaited
    <3>4. \A j \in 1..Len(r) : j \in 1..Len(q) \/ r[j] = c
      BY <1>1
    <3> QED  BY <2>2, <3>1, <3>2, <3>3, <3>4 DEF Awaited
  <2> QED  BY <2>1, <2>2, <1>1
<1> QED  BY <1>3 DEF Awaited, r

\* The answer of a note that waits for no flush moves on.
LEMMA TaskMoves ==
  ASSUME NEW q \in Seq(Call), NEW tasks \in [Notes -> Tasks], Awaited(q, tasks),
         NEW n \in Notes, tasks[n] \notin {"saving", "discarding"}, NEW s
  PROVE  Awaited(q, [tasks EXCEPT ![n] = s])
<1>1. \A i \in 1..Len(q) : q[i] \in Call
  OBVIOUS
<1>2. \A i \in 1..Len(q) : Awaits(q[i].then) => q[i].then.note \in Notes \ {n}
  BY <1>1, AwaitsTypes DEF Awaited
<1> QED  BY <1>2 DEF Awaited

\* The oldest flush returns.
LEMMA TailAwaited ==
  ASSUME NEW q \in Seq(Call), q # <<>>, NEW tasks, Awaited(q, tasks)
  PROVE  Awaited(Tail(q), tasks)
<1> DEFINE r == Tail(q)
<1>1. /\ Len(q) \in Nat \ {0} /\ Len(r) = Len(q) - 1
      /\ \A i \in 1..Len(r) : r[i] = q[i + 1]
  OBVIOUS
<1> HIDE DEF r
<1>2. \A i \in 1..Len(r) : i + 1 \in 1..Len(q)
  BY <1>1
<1>3. ASSUME NEW i \in 1..Len(r), Awaits(r[i].then)
      PROVE  /\ tasks[r[i].then.note] =
                  IF r[i].then.type = "kept" THEN "saving" ELSE "discarding"
             /\ \A j \in 1..Len(r) :
                  Awaits(r[j].then) /\ r[j].then.note = r[i].then.note => j = i
  <2>1. tasks[r[i].then.note] = IF r[i].then.type = "kept" THEN "saving" ELSE "discarding"
    BY <1>1, <1>2, <1>3 DEF Awaited
  <2>2. ASSUME NEW j \in 1..Len(r), Awaits(r[j].then), r[j].then.note = r[i].then.note
        PROVE  j = i
    <3>1. i + 1 \in 1..Len(q) /\ j + 1 \in 1..Len(q) /\ r[i] = q[i + 1] /\ r[j] = q[j + 1]
      BY <1>1, <1>2
    <3>2. j + 1 = i + 1
      BY <3>1, <2>2, <1>3 DEF Awaited
    <3> QED  BY <3>2
  <2> QED  BY <2>1, <2>2
<1> QED  BY <1>3 DEF Awaited, r

\* It returns to the answer that waits for it, which moves on.
LEMMA TailMoves ==
  ASSUME NEW q \in Seq(Call), q # <<>>, NEW tasks \in [Notes -> Tasks], Awaited(q, tasks),
         Awaits(Head(q).then), NEW s
  PROVE  /\ Head(q).then.note \in Notes
         /\ tasks[Head(q).then.note] =
              IF Head(q).then.type = "kept" THEN "saving" ELSE "discarding"
         /\ Awaited(Tail(q), [tasks EXCEPT ![Head(q).then.note] = s])
<1> DEFINE r == Tail(q)
           m == Head(q).then.note
<1>1. /\ Len(q) \in Nat \ {0} /\ Len(r) = Len(q) - 1
      /\ \A i \in 1..Len(r) : r[i] = q[i + 1] /\ r[i] \in Call
      /\ Head(q) = q[1] /\ Head(q) \in Call
  OBVIOUS
<1>2. /\ m \in Notes
      /\ tasks[m] = IF Head(q).then.type = "kept" THEN "saving" ELSE "discarding"
  BY <1>1, AwaitsTypes DEF Awaited
<1>3. Awaited(r, tasks)
  BY TailAwaited
<1> HIDE DEF r
<1>4. ASSUME NEW i \in 1..Len(r), Awaits(r[i].then)
      PROVE  r[i].then.note \in Notes \ {m}
  <2>1. i + 1 \in 1..Len(q) /\ 1 \in 1..Len(q) /\ i + 1 # 1 /\ r[i] = q[i + 1] /\ r[i] \in Call
    BY <1>1
  <2>2. r[i].then.note # m
    BY <2>1, <1>1, <1>4 DEF Awaited
  <2> QED  BY <2>1, <2>2, <1>4, AwaitsTypes
<1> HIDE DEF m
<1>5. Awaited(r, [tasks EXCEPT ![m] = s])
  BY <1>3, <1>4, <1>2 DEF Awaited
<1> QED  BY <1>2, <1>5 DEF r, m
-----------------------------------------------------------------------------
(* What every action needs. *)

USE DEF outboxVars, passVars, timerVars, editorVars, noteVars, ghostVars, taskVars, worldVars,
        OutboxTypeOK, SyncTypeOK, EditorTypeOK

\* The flushes that wait, and the editors' answers.
LEMMA CallTypes ==
  ASSUME TypeOK
  PROVE  gated \in Seq(Call) /\ writes \in Seq(Call) /\ task \in [Notes -> Tasks]
BY DEF TypeOK, Call

\* A flush queues a call.
LEMMA FlushTypes ==
  ASSUME TypeOK, NEW q \in Outbox, NEW t \in Then, Flush(q, t)
  PROVE  gated' \in Seq(Call) /\ writes' \in Seq(Call)
<1> DEFINE call == [queue |-> q, then |-> t]
<1>1. call \in Call
  BY DEF Call
<1>2. \/ writes' = Append(writes, call) /\ gated' = gated
      \/ gated' = Append(gated, call) /\ writes' = writes
  BY DEF Flush
<1> HIDE DEF call
<1> QED  BY <1>1, <1>2, CallTypes, AppendTypes

\* A flush no answer waits for.
LEMMA FlushUnawaited ==
  ASSUME TypeOK, CallsInv, NEW q \in Outbox, NEW t \in Then, ~Awaits(t), Flush(q, t),
         UNCHANGED <<phase, task>>
  PROVE  CallsInv'
<1> DEFINE call == [queue |-> q, then |-> t]
<1>1. call \in Call /\ ~Awaits(call.then)
  BY DEF Call
<1>2. \/ phase = "ready" /\ writes' = Append(writes, call) /\ gated' = gated
      \/ phase # "ready" /\ gated' = Append(gated, call) /\ writes' = writes
  BY DEF Flush
<1> HIDE DEF call
<1> QED  BY <1>1, <1>2, CallTypes, AppendUnawaited DEF CallsInv

\* A flush the answer of note n goes on to wait for.
LEMMA FlushAwaited ==
  ASSUME TypeOK, CallsInv, NEW q \in Outbox, NEW t \in Then, Awaits(t), Flush(q, t),
         task[t.note] \notin {"saving", "discarding"},
         task' = [task EXCEPT ![t.note] = IF t.type = "kept" THEN "saving" ELSE "discarding"],
         UNCHANGED phase
  PROVE  CallsInv'
<1> DEFINE call == [queue |-> q, then |-> t]
<1>1. call \in Call /\ call.then = t
  BY DEF Call
<1>2. \/ phase = "ready" /\ writes' = Append(writes, call) /\ gated' = gated
      \/ phase # "ready" /\ gated' = Append(gated, call) /\ writes' = writes
  BY DEF Flush
<1> HIDE DEF call
<1>3. Awaited(Append(gated, call), task') /\ Awaited(Append(writes, call), task')
  BY <1>1, CallTypes, AppendAwaited DEF CallsInv
<1>4. t.note \in Notes
  BY <1>1, AwaitsTypes
<1>5. Awaited(gated, task') /\ Awaited(writes, task')
  BY <1>4, CallTypes, TaskMoves DEF CallsInv
<1> QED  BY <1>2, <1>3, <1>5 DEF CallsInv

\* The answer of a note moves on without a flush.
LEMMA AnswerMoves ==
  ASSUME TypeOK, CallsInv, NEW n \in Notes, NEW s, task' = [task EXCEPT ![n] = s],
         task[n] \notin {"saving", "discarding"}, UNCHANGED <<phase, gated, writes>>
  PROVE  CallsInv'
BY CallTypes, TaskMoves DEF CallsInv

\* The control state does not change.
LEMMA Frame ==
  ASSUME ControlInv, UNCHANGED <<phase, gated, writes, task, theirs, held, worker>>
  PROVE  ControlInv'
BY DEF ControlInv, CallsInv, AsksAboutSomething, HeldIsBusy, AnswerIsAlone, VerdictIsOnPeek

\* Only the workers change.
LEMMA WorkersFrame ==
  ASSUME ControlInv, UNCHANGED <<phase, gated, writes, task, theirs, held>>,
         AnswerIsAlone', VerdictIsOnPeek'
  PROVE  ControlInv'
BY DEF ControlInv, CallsInv, AsksAboutSomething, HeldIsBusy
-----------------------------------------------------------------------------
(* The restore. *)

\* The end of the restore keeps the flushes' types.
LEMMA FinishTypes ==
  ASSUME NotesInv, NEW found, FinishRestore(found)
  PROVE  gated' \in Seq(Call) /\ writes' \in Seq(Call)
<1>1. gated \in Seq(Call) /\ writes \in Seq(Call)
  BY CallTypes DEF NotesInv
<1> QED  BY <1>1, ConcatTypes DEF FinishRestore

\* The gated flushes are issued in their order.
LEMMA FinishCalls ==
  ASSUME NotesInv, NEW found, FinishRestore(found), phase # "ready", UNCHANGED task
  PROVE  CallsInv'
<1>1. writes = <<>> /\ gated \in Seq(Call)
  BY CallTypes DEF NotesInv, ControlInv, CallsInv
<1>2. writes' = gated /\ gated' = <<>>
  BY <1>1, ConcatEmpty DEF FinishRestore
<1>3. Awaited(<<>>, task)
  BY DEF Awaited
<1> QED  BY <1>2, <1>3 DEF NotesInv, ControlInv, CallsInv, FinishRestore

\* start() takes the mutex and no more.
LEMMA SyncHostMountsInv ==
  ASSUME NotesInv, Sync(SyncHostMounts)
  PROVE  NotesInv'
<1> USE DEF Sync, SyncHostMounts, Start
<1>1. TypeOK'
  BY DEF NotesInv, TypeOK
<1>2. ControlInv'
  BY DEF NotesInv, ControlInv, CallsInv, AsksAboutSomething, HeldIsBusy, AnswerIsAlone,
         VerdictIsOnPeek
<1> QED  BY <1>1, <1>2 DEF NotesInv

\* Nothing in the row, or a merge: both keep the invariant.
LEMMA RestoreReadsInv ==
  ASSUME NotesInv, Sync(RestoreReads)
  PROVE  NotesInv'
<1> USE DEF Sync, RestoreReads, Hydrate
<1>1. gated' \in Seq(Call) /\ writes' \in Seq(Call)
  <2>1. CASE FinishRestore(FALSE) \/ FinishRestore(TRUE)
    BY <2>1, FinishTypes
  <2>2. CASE UNCHANGED <<gated, writes>>
    BY <2>2, CallTypes DEF NotesInv
  <2> QED  BY <2>1, <2>2
<1>2. store' \in Outbox /\ phase' \in {"ready", "reconciling"} /\ waiting' \in BOOLEAN
  <2>1. MergeInflight(store, disk) \in Outbox
    BY Merged DEF NotesInv, TypeOK
  <2> QED  BY <2>1 DEF NotesInv, TypeOK, FinishRestore
<1>3. TypeOK'
  <2>1. OutboxTypeOK(Outbox, Then)'
    BY <1>1, <1>2 DEF NotesInv, TypeOK, Call
  <2>2. SyncTypeOK'
    BY <1>1, <1>2 DEF NotesInv, TypeOK, Call
  <2>3. EditorTypeOK'
    BY <1>1, <1>2 DEF NotesInv, TypeOK, Call
  <2> QED  BY <2>1, <2>2, <2>3 DEF TypeOK
<1>4. CallsInv'
  <2>1. CASE FinishRestore(FALSE) \/ FinishRestore(TRUE)
    BY <2>1, FinishCalls
  <2>2. CASE UNCHANGED <<gated, writes>> /\ phase' = "reconciling"
    BY <2>2 DEF NotesInv, ControlInv, CallsInv
  <2> QED  BY <2>1, <2>2
<1>5. ControlInv'
  BY <1>4 DEF NotesInv, ControlInv, AsksAboutSomething, HeldIsBusy, AnswerIsAlone,
              VerdictIsOnPeek
<1> QED  BY <1>3, <1>5 DEF NotesInv

\* Whatever the reconciliation leaves.
LEMMA ReconcileInv ==
  ASSUME NotesInv, NEW q \in Outbox, Reconcile(q), done' \in [Notes -> Nat],
         UNCHANGED <<passVars, timerVars, editorVars, noteVars, latest, saved, taskVars,
                     worldVars>>
  PROVE  NotesInv'
<1> USE DEF Reconcile
<1>1. gated' \in Seq(Call) /\ writes' \in Seq(Call)
  BY FinishTypes
<1>2. phase' = "ready" /\ waiting' \in BOOLEAN
  BY DEF NotesInv, TypeOK, FinishRestore
<1>3. TypeOK'
  <2>1. OutboxTypeOK(Outbox, Then)'
    BY <1>1, <1>2 DEF NotesInv, TypeOK, Call
  <2>2. SyncTypeOK'
    BY <1>1, <1>2 DEF NotesInv, TypeOK, Call
  <2>3. EditorTypeOK'
    BY <1>1, <1>2 DEF NotesInv, TypeOK, Call
  <2> QED  BY <2>1, <2>2, <2>3 DEF TypeOK
<1>4. CallsInv'
  BY FinishCalls
<1>5. ControlInv'
  BY <1>4 DEF NotesInv, ControlInv, AsksAboutSomething, HeldIsBusy, AnswerIsAlone,
              VerdictIsOnPeek
<1> QED  BY <1>3, <1>5 DEF NotesInv

\* restoreFromDisk() against what the cloud lists.
LEMMA RestoreReconcilesInv ==
  ASSUME NotesInv, Sync(RestoreReconciles)
  PROVE  NotesInv'
<1> DEFINE onDisk == {n \in Notes : disk[n] # None}
           listed == {n \in Notes : cloud[n] # Deleted}
<1>1. PICK read \in SUBSET onDisk :
        Reconcile(ReconcileOutbox(store, onDisk, listed,
                    [n \in Notes |-> IF n \in read THEN cloud[n] ELSE Unknown]))
  BY DEF Sync, RestoreReconciles
<1>2. store \in Outbox /\ done \in [Notes -> Nat]
  BY DEF NotesInv, TypeOK
<1>3. done' = [n \in Notes |-> IF store[n] # None /\ store'[n] = None
                               THEN Later(done[n], store[n].edit) ELSE done[n]]
  BY DEF Sync, RestoreReconciles
<1>4. done' \in [Notes -> Nat]
  BY <1>2, <1>3 DEF Outbox, Entry, Later
<1>5. UNCHANGED <<passVars, timerVars, editorVars, noteVars, latest, saved, taskVars, worldVars>>
  BY DEF Sync, RestoreReconciles
<1> HIDE DEF onDisk, listed
<1> QED  BY <1>1, <1>2, <1>4, <1>5, Reconciled, ReconcileInv

\* restoreFromDisk() when the list cannot be had.
LEMMA ReconcileFailsInv ==
  ASSUME NotesInv, Sync(ReconcileFails)
  PROVE  NotesInv'
<1>1. store \in Outbox /\ done' \in [Notes -> Nat]
  BY DEF NotesInv, TypeOK, Sync, ReconcileFails
<1> QED  BY <1>1, ReconcileInv DEF Sync, ReconcileFails
-----------------------------------------------------------------------------
(* The passes and their workers. *)

\* What a worker's stage says of its record.
LEMMA WorkerTypes ==
  ASSUME TypeOK, NEW n \in Notes
  PROVE  /\ worker \in [Notes -> WorkerStates]
         /\ worker[n].stage \in {"peeking", "peeked"} =>
              worker[n].entry \in Entry /\ worker[n].since \in BOOLEAN
         /\ worker[n].stage \in {"peeked", "pushing", "landed"} =>
              worker[n].seen \in Texts \cup {Unknown, Unreadable}
         /\ worker[n].stage \in {"pushing", "landed"} =>
              worker[n].entry \in Entry /\ worker[n].over \in BOOLEAN
BY DEF TypeOK, WorkerStates, Idle

\* A pass with nothing to push.
LEMMA PassFindsNothingInv ==
  ASSUME NotesInv, Sync(PassFindsNothing)
  PROVE  NotesInv'
<1> USE DEF Sync, PassFindsNothing
<1>1. rejections' \in [Notes -> 0..(MaxRejections - 1)]
  BY NotesSyncAssumption
<1>2. failed' \in SUBSET Notes /\ retry' \in BOOLEAN
  BY DEF ScheduleRetry, HasEntries
<1>3. TypeOK'
  BY <1>1, <1>2 DEF NotesInv, TypeOK
<1>4. ControlInv'
  BY Frame DEF NotesInv
<1> QED  BY <1>3, <1>4 DEF NotesInv

\* A pass starts no worker on a note under a hold.
LEMMA PassBeginsInv ==
  ASSUME NotesInv, Sync(PassBegins)
  PROVE  NotesInv'
<1> USE DEF Sync, PassBegins
<1>1. rejections' \in [Notes -> 0..(MaxRejections - 1)]
  BY NotesSyncAssumption DEF NotesInv, TypeOK
<1>2. worker' = [n \in Notes |->
                  IF n \notin HasEntries \ held THEN Idle
                  ELSE IF store[n].base = NoBase THEN Pushing(store[n], Unknown, FALSE)
                  ELSE Peeking(store[n])]
  OBVIOUS
<1>3. \A n \in HasEntries : store[n] \in Entry
  BY DEF NotesInv, TypeOK, Outbox, HasEntries
<1>4. worker' \in [Notes -> WorkerStates]
  BY <1>2, <1>3 DEF WorkerStates, Pushing, Peeking
<1>5. TypeOK'
  BY <1>1, <1>4 DEF NotesInv, TypeOK
<1>6. AnswerIsAlone'
  <2>1. ASSUME NEW n \in Notes, n \in held'
        PROVE  worker'[n] = Idle
    <3>1. n \notin HasEntries \ held
      BY <2>1
    <3> HIDE DEF PassBegins, Sync
    <3> QED  BY <1>2, <3>1
  <2> QED  BY <2>1 DEF AnswerIsAlone, Idle
<1>7. VerdictIsOnPeek'
  BY <1>2 DEF VerdictIsOnPeek, Idle, Pushing, Peeking
<1>8. ControlInv'
  BY <1>6, <1>7, WorkersFrame DEF NotesInv
<1> QED  BY <1>5, <1>8 DEF NotesInv

\* No answer waits for a pass's flush.
LEMMA PassFlushesInv ==
  ASSUME NotesInv, Sync(PassFlushes)
  PROVE  NotesInv'
<1> USE DEF Sync, PassFlushes
<1>1. store \in Outbox /\ [type |-> "pass"] \in Then /\ ~Awaits([type |-> "pass"])
  BY DEF NotesInv, TypeOK, Then, Awaits
<1>2. Flush(store, [type |-> "pass"])
  OBVIOUS
<1>3. gated' \in Seq(Call) /\ writes' \in Seq(Call)
  BY <1>1, <1>2, FlushTypes DEF NotesInv
<1>4. TypeOK'
  BY <1>3 DEF NotesInv, TypeOK, Call
<1>5. CallsInv'
  BY <1>1, <1>2, FlushUnawaited DEF NotesInv, ControlInv
<1>6. ControlInv'
  BY <1>5 DEF NotesInv, ControlInv, AsksAboutSomething, HeldIsBusy, AnswerIsAlone,
              VerdictIsOnPeek
<1> QED  BY <1>4, <1>6 DEF NotesInv

\* The peek's answer moves a worker no further than its peek.
LEMMA PeekAnsweredInv ==
  ASSUME NotesInv, NEW n \in Notes, Sync(PeekAnswered(n))
  PROVE  NotesInv'
<1>0. PICK seen \in Texts \cup {Unknown, Unreadable} :
        worker' = [worker EXCEPT ![n] = [stage |-> "peeked", entry |-> worker[n].entry,
                                         since |-> worker[n].since, seen |-> seen]]
  BY DEF Sync, PeekAnswered, NotesInv, TypeOK, Contents
<1>1. worker[n].stage = "peeking"
      /\ UNCHANGED <<outboxVars, rejections, handedOff, failed, peeked, timerVars, editorVars,
                     noteVars, ghostVars, taskVars, worldVars>>
  BY DEF Sync, PeekAnswered
<1>2. [stage |-> "peeked", entry |-> worker[n].entry, since |-> worker[n].since,
       seen |-> seen] \in WorkerStates
  BY <1>1, WorkerTypes DEF NotesInv, WorkerStates
<1>3. TypeOK'
  <2>1. OutboxTypeOK(Outbox, Then)'
    BY <1>0, <1>1, <1>2 DEF NotesInv, TypeOK
  <2>2. SyncTypeOK'
    BY <1>0, <1>1, <1>2 DEF NotesInv, TypeOK
  <2>3. EditorTypeOK'
    BY <1>0, <1>1, <1>2 DEF NotesInv, TypeOK
  <2> QED  BY <2>1, <2>2, <2>3 DEF TypeOK
<1>4. \A m \in Notes : \/ worker'[m].stage = "peeked"
                       \/ worker'[m] = worker[m]
  BY <1>0 DEF NotesInv, TypeOK
<1>5. AnswerIsAlone' /\ VerdictIsOnPeek'
  BY <1>1, <1>4 DEF NotesInv, ControlInv, AnswerIsAlone, VerdictIsOnPeek
<1>6. ControlInv'
  BY <1>1, <1>5, WorkersFrame DEF NotesInv
<1> QED  BY <1>3, <1>6 DEF NotesInv

\* A worker that goes on to push does so on a note nobody holds.
LEMMA PeekHandledInv ==
  ASSUME NotesInv, NEW n \in Notes, PeekHandled(n)
  PROVE  NotesInv'
<1> USE DEF PeekHandled, PeekReturns
<1>0. /\ worker \in [Notes -> WorkerStates]
      /\ worker[n].stage = "peeked" /\ worker[n].seen \in Texts \cup {Unknown, Unreadable}
  BY WorkerTypes DEF NotesInv
<1>1. CASE worker' = [worker EXCEPT ![n] = Idle]
  <2>1. worker' \in [Notes -> WorkerStates]
    BY <1>1, <1>0 DEF WorkerStates
  <2>2. inbox' \in [Notes -> Texts \cup {None, Unreadable}]
    BY <1>0 DEF NotesInv, TypeOK, HandsOver, Overwrites
  <2>3. TypeOK'
    <3>1. OutboxTypeOK(Outbox, Then)'
      BY <2>1, <2>2 DEF NotesInv, TypeOK
    <3>2. SyncTypeOK'
      BY <2>1, <2>2 DEF NotesInv, TypeOK
    <3>3. EditorTypeOK'
      BY <2>1, <2>2 DEF NotesInv, TypeOK
    <3> QED  BY <3>1, <3>2, <3>3 DEF TypeOK
  <2>4. \A m \in Notes : worker'[m] = Idle \/ worker'[m] = worker[m]
    BY <1>1, <1>0
  <2>5. AnswerIsAlone' /\ VerdictIsOnPeek'
    BY <2>4 DEF NotesInv, ControlInv, AnswerIsAlone, VerdictIsOnPeek, Idle
  <2>6. ControlInv'
    BY <2>5, WorkersFrame DEF NotesInv
  <2> QED  BY <2>3, <2>6 DEF NotesInv
<1>2. CASE /\ ~PeekIsMoot(n) /\ UNCHANGED <<handedOff, inbox>>
           /\ worker' = [worker EXCEPT ![n] = Pushing(store[n], worker[n].seen, Overwrites(n))]
  <2>1. store[n] \in Entry /\ n \notin held
    BY <1>2 DEF NotesInv, TypeOK, Outbox, PeekIsMoot
  <2>2. Overwrites(n) \in BOOLEAN
    BY DEF Overwrites
  <2>3. Pushing(store[n], worker[n].seen, Overwrites(n)) \in WorkerStates
    BY <1>0, <2>1, <2>2 DEF Pushing, WorkerStates
  <2>4. worker' \in [Notes -> WorkerStates]
    BY <1>0, <1>2, <2>3
  <2>5. TypeOK'
    <3>1. OutboxTypeOK(Outbox, Then)'
      BY <1>2, <2>4 DEF NotesInv, TypeOK
    <3>2. SyncTypeOK'
      BY <1>2, <2>4 DEF NotesInv, TypeOK
    <3>3. EditorTypeOK'
      BY <1>2, <2>4 DEF NotesInv, TypeOK
    <3> QED  BY <3>1, <3>2, <3>3 DEF TypeOK
  <2>6. \A m \in Notes \ {n} : worker'[m] = worker[m]
    BY <1>2, <1>0
  <2>7. AnswerIsAlone'
    BY <2>1, <2>6 DEF NotesInv, ControlInv, AnswerIsAlone
  <2>8. /\ worker'[n].over = Overwrites(n) /\ worker'[n].seen = worker[n].seen
        /\ worker'[n].entry = store[n]
    BY <1>0, <1>2 DEF Pushing
  <2>9. VerdictIsOnPeek'
    BY <2>6, <2>8 DEF NotesInv, ControlInv, VerdictIsOnPeek, Overwrites
  <2>10. ControlInv'
    BY <2>7, <2>9, WorkersFrame DEF NotesInv
  <2> QED  BY <2>5, <2>10 DEF NotesInv
<1> QED  BY <1>1, <1>2

\* A push lands where a push was under way.
LEMMA PushLandsInv ==
  ASSUME NotesInv, NEW n \in Notes, Lands(n)
  PROVE  NotesInv'
<1> USE DEF Lands, PushLands
<1>0. /\ worker \in [Notes -> WorkerStates] /\ worker[n].stage = "pushing"
      /\ worker[n].entry \in Entry /\ worker[n].over \in BOOLEAN
      /\ worker[n].seen \in Texts \cup {Unknown, Unreadable}
      /\ worker[n].entry.text \in Texts
  BY WorkerTypes DEF NotesInv, Entry
<1>1. [worker[n] EXCEPT !.stage = "landed"] \in WorkerStates
  BY <1>0 DEF WorkerStates, Idle
<1>2. /\ worker' \in [Notes -> WorkerStates] /\ cloud' \in [Notes -> Contents]
      /\ kept' \in [Notes -> Texts \cup {None}]
  BY <1>0, <1>1 DEF NotesInv, TypeOK, Contents
<1>3. TypeOK'
  <2>1. OutboxTypeOK(Outbox, Then)'
    BY <1>2 DEF NotesInv, TypeOK
  <2>2. SyncTypeOK'
    BY <1>2 DEF NotesInv, TypeOK
  <2>3. EditorTypeOK'
    BY <1>2 DEF NotesInv, TypeOK
  <2> QED  BY <2>1, <2>2, <2>3 DEF TypeOK
<1>4. /\ \A m \in Notes \ {n} : worker'[m] = worker[m]
      /\ worker'[n].stage = "landed"
  BY <1>0, <1>1 DEF WorkerStates, Idle
<1>5. AnswerIsAlone' /\ VerdictIsOnPeek'
  BY <1>0, <1>4 DEF NotesInv, ControlInv, AnswerIsAlone, VerdictIsOnPeek
<1>6. ControlInv'
  BY <1>5, WorkersFrame DEF NotesInv
<1> QED  BY <1>3, <1>6 DEF NotesInv

\* A worker that is done.
LEMMA WorkerDone ==
  ASSUME NotesInv, NEW n \in Notes, worker' = [worker EXCEPT ![n] = Idle],
         UNCHANGED <<phase, gated, writes, task, theirs, held>>
  PROVE  worker' \in [Notes -> WorkerStates] /\ ControlInv'
<1>1. worker \in [Notes -> WorkerStates]
  BY DEF NotesInv, TypeOK
<1>2. worker' \in [Notes -> WorkerStates]
  BY <1>1 DEF WorkerStates
<1>3. \A m \in Notes : worker'[m] = Idle \/ worker'[m] = worker[m]
  BY <1>1
<1>4. AnswerIsAlone' /\ VerdictIsOnPeek'
  BY <1>3 DEF NotesInv, ControlInv, AnswerIsAlone, VerdictIsOnPeek, Idle
<1> QED  BY <1>2, <1>4, WorkersFrame DEF NotesInv

\* The bookkeeping after a push.
LEMMA PushReturnsInv ==
  ASSUME NotesInv, NEW n \in Notes, Sync(PushReturns(n))
  PROVE  NotesInv'
<1> USE DEF Sync, PushReturns
<1>0. worker[n].entry \in Entry
  BY WorkerTypes DEF NotesInv
<1>1. /\ store \in Outbox /\ done \in [Notes -> Nat] /\ cache \in [Notes -> Texts]
      /\ rejections \in [Notes -> 0..(MaxRejections - 1)]
  BY DEF NotesInv, TypeOK
<1>2. store' \in Outbox
  BY <1>0, <1>1, Pruned DEF Outbox, Entry
<1>3. cache' \in [Notes -> Texts] /\ done' \in [Notes -> Nat]
  BY <1>0, <1>1 DEF Entry, Settled, Later
<1>4. rejections' \in [Notes -> 0..(MaxRejections - 1)]
  BY <1>1, NotesSyncAssumption
<1>5. worker' \in [Notes -> WorkerStates] /\ ControlInv'
  BY WorkerDone
<1>6. TypeOK'
  <2>1. OutboxTypeOK(Outbox, Then)'
    BY <1>2, <1>3, <1>4, <1>5 DEF NotesInv, TypeOK
  <2>2. SyncTypeOK'
    BY <1>2, <1>3, <1>4, <1>5 DEF NotesInv, TypeOK
  <2>3. EditorTypeOK'
    BY <1>2, <1>3, <1>4, <1>5 DEF NotesInv, TypeOK
  <2> QED  BY <2>1, <2>2, <2>3 DEF TypeOK
<1> QED  BY <1>5, <1>6 DEF NotesInv

\* A push that may be tried again.
LEMMA PushFailsInv ==
  ASSUME NotesInv, NEW n \in Notes, Sync(PushFails(n))
  PROVE  NotesInv'
<1> USE DEF Sync, PushFails
<1>1. worker' \in [Notes -> WorkerStates] /\ ControlInv'
  BY WorkerDone
<1>2. TypeOK'
  BY <1>1 DEF NotesInv, TypeOK
<1> QED  BY <1>1, <1>2 DEF NotesInv

\* A strike, or the drop of the note's queue.
LEMMA PushRejectedInv ==
  ASSUME NotesInv, NEW n \in Notes, Sync(PushRejected(n))
  PROVE  NotesInv'
<1> USE DEF Sync, PushRejected
<1>1. worker' \in [Notes -> WorkerStates] /\ ControlInv'
  BY WorkerDone
<1>2. /\ store \in Outbox /\ done \in [Notes -> Nat] /\ latest \in [Notes -> Nat]
      /\ rejections \in [Notes -> 0..(MaxRejections - 1)]
  BY DEF NotesInv, TypeOK
<1>3. rejections' \in [Notes -> 0..(MaxRejections - 1)]
  BY <1>2, NotesSyncAssumption
<1>4. store' \in Outbox /\ done' \in [Notes -> Nat]
  BY <1>2 DEF Outbox, Settled, Later
<1>5. TypeOK'
  <2>1. OutboxTypeOK(Outbox, Then)'
    BY <1>1, <1>3, <1>4 DEF NotesInv, TypeOK
  <2>2. SyncTypeOK'
    BY <1>1, <1>3, <1>4 DEF NotesInv, TypeOK
  <2>3. EditorTypeOK'
    BY <1>1, <1>3, <1>4 DEF NotesInv, TypeOK
  <2> QED  BY <2>1, <2>2, <2>3 DEF TypeOK
<1> QED  BY <1>1, <1>5 DEF NotesInv

\* The debounce's timer asks for a pass.
LEMMA DebounceFiresInv ==
  ASSUME NotesInv, Sync(DebounceFires)
  PROVE  NotesInv'
<1> USE DEF Sync, DebounceFires, ExecuteNow, CallSync, RunsPass
<1>1. TypeOK'
  BY DEF NotesInv, TypeOK
<1>2. ControlInv'
  BY Frame DEF NotesInv
<1> QED  BY <1>1, <1>2 DEF NotesInv

\* The retry's timer asks for a pass.
LEMMA RetryFiresInv ==
  ASSUME NotesInv, Sync(RetryFires)
  PROVE  NotesInv'
<1> USE DEF Sync, RetryFires, ExecuteNow, CallSync, RunsPass
<1>1. TypeOK'
  <2>1. OutboxTypeOK(Outbox, Then)'
    BY DEF NotesInv, TypeOK
  <2>2. SyncTypeOK'
    BY DEF NotesInv, TypeOK
  <2>3. EditorTypeOK'
    BY DEF NotesInv, TypeOK
  <2> QED  BY <2>1, <2>2, <2>3 DEF TypeOK
<1>2. ControlInv'
  BY Frame DEF NotesInv
<1> QED  BY <1>1, <1>2 DEF NotesInv
-----------------------------------------------------------------------------
(* The editor's user. *)

\* Opening a note.
LEMMA OpenInv ==
  ASSUME NotesInv, NEW n \in Notes, Open(n)
  PROVE  NotesInv'
<1>1. TypeOK'
  BY DEF Open, NotesInv, TypeOK
<1>2. ControlInv'
  BY Frame DEF Open, NotesInv
<1> QED  BY <1>1, <1>2 DEF NotesInv

\* Closing one leaves an answer under way as it is.
LEMMA CloseInv ==
  ASSUME NotesInv, NEW n \in Notes, Close(n)
  PROVE  NotesInv'
<1>1. TypeOK'
  BY DEF Close, NotesInv, TypeOK
<1>2. ControlInv'
  BY Frame DEF Close, NotesInv
<1> QED  BY <1>1, <1>2 DEF NotesInv

\* A keystroke; no answer waits for its flush.
LEMMA TypeInv ==
  ASSUME NotesInv, NEW n \in Notes, Type(n)
  PROVE  NotesInv'
<1> DEFINE then == [type |-> "typed", note |-> n, edit |-> edits + 1]
<1>0. /\ store \in Outbox /\ edits \in Nat /\ now \in Nat
      /\ cache \in [Notes -> Texts] /\ latest \in [Notes -> Nat]
  BY DEF NotesInv, TypeOK
<1>1. PICK text \in Texts :
        store' = [store EXCEPT ![n] = BuildEntry(store[n], edits + 1, text, now + 1, cache[n])]
  BY DEF Type
<1>2. BuildEntry(store[n], edits + 1, text, now + 1, cache[n]) \in Entry
  <2>1. /\ store[n] \in Entry \cup {None} /\ cache[n] \in Texts
        /\ edits + 1 \in Nat \ {0} /\ now + 1 \in Nat
    BY <1>0 DEF Outbox
  <2> QED  BY <2>1, BuiltEntry
<1>3. store' \in Outbox
  BY <1>0, <1>1, <1>2 DEF Outbox
<1>4. then \in Then /\ ~Awaits(then) /\ Flush(store', then)
  BY <1>0 DEF Then, Awaits, Type
<1>5. gated' \in Seq(Call) /\ writes' \in Seq(Call)
  BY <1>3, <1>4, FlushTypes DEF NotesInv
<1>6. UNCHANGED <<phase, online, disk, waiting, pass, passVars, timerVars, editorVars,
                  noteVars, done, saved, taskVars, fetching, fresh, socket, remotes, crashes, kept>>
      /\ now' \in Nat /\ edits' \in Nat /\ latest' \in [Notes -> Nat]
  BY <1>0 DEF Type
<1>7. TypeOK'
  <2>1. OutboxTypeOK(Outbox, Then)'
    BY <1>3, <1>5, <1>6 DEF NotesInv, TypeOK, Call
  <2>2. SyncTypeOK'
    BY <1>3, <1>5, <1>6 DEF NotesInv, TypeOK, Call
  <2>3. EditorTypeOK'
    BY <1>3, <1>5, <1>6 DEF NotesInv, TypeOK, Call
  <2> QED  BY <2>1, <2>2, <2>3 DEF TypeOK
<1>8. CallsInv'
  BY <1>3, <1>4, <1>6, FlushUnawaited DEF NotesInv, ControlInv
<1>9. ControlInv'
  BY <1>6, <1>8 DEF NotesInv, ControlInv, AsksAboutSomething, HeldIsBusy, AnswerIsAlone,
                    VerdictIsOnPeek
<1> QED  BY <1>7, <1>9 DEF NotesInv

\* The content query reads.
LEMMA QueryReadsInv ==
  ASSUME NotesInv, NEW n \in Notes, QueryReads(n)
  PROVE  NotesInv'
<1>1. TypeOK'
  <2>1. OutboxTypeOK(Outbox, Then)'
    BY DEF QueryReads, NotesInv, TypeOK, Contents
  <2>2. SyncTypeOK'
    BY DEF QueryReads, NotesInv, TypeOK, Contents
  <2>3. EditorTypeOK'
    BY DEF QueryReads, NotesInv, TypeOK, Contents
  <2> QED  BY <2>1, <2>2, <2>3 DEF TypeOK
<1>2. ControlInv'
  BY Frame DEF QueryReads, NotesInv
<1> QED  BY <1>1, <1>2 DEF NotesInv

\* Its answer changes the cache only.
LEMMA QueryReturnsInv ==
  ASSUME NotesInv, NEW n \in Notes, QueryReturns(n)
  PROVE  NotesInv'
<1>1. TypeOK'
  BY DEF QueryReturns, NotesInv, TypeOK
<1>2. ControlInv'
  BY Frame DEF QueryReturns, NotesInv
<1> QED  BY <1>1, <1>2 DEF NotesInv
-----------------------------------------------------------------------------
(* The answer to an edit made elsewhere. *)

\* An answer moves on without a flush, and where no pass may be it was
\* settled or there before.
LEMMA AnswerControl ==
  ASSUME NotesInv, NEW n \in Notes, NEW s \in Tasks \ {"asking"},
         task' = [task EXCEPT ![n] = s], task[n] \notin {"saving", "discarding"},
         held' \subseteq held \cup {n},
         s = "idle" => n \notin held',
         s \in {"prompt", "keep"} => theirs[n] # None,
         s \in {"saving", "loading", "discarding", "reading"} => IsSettled(n),
         UNCHANGED <<phase, gated, writes, theirs, worker>>
  PROVE  ControlInv'
<1>1. CallsInv'
  BY AnswerMoves DEF NotesInv, ControlInv
<1>2. task \in [Notes -> Tasks]
  BY DEF NotesInv, TypeOK
<1>3. AsksAboutSomething'
  BY <1>2 DEF NotesInv, ControlInv, AsksAboutSomething
<1>4. HeldIsBusy'
  <2>1. \A m \in held' : m = n \/ m \in held
    OBVIOUS
  <2>2. held \subseteq Notes
    BY DEF NotesInv, TypeOK
  <2> QED  BY <1>2, <2>1, <2>2 DEF NotesInv, ControlInv, HeldIsBusy
<1>5. AnswerIsAlone'
  BY <1>2 DEF NotesInv, ControlInv, AnswerIsAlone, IsSettled, Idle
<1>6. VerdictIsOnPeek'
  BY DEF NotesInv, ControlInv, VerdictIsOnPeek
<1> QED  BY <1>1, <1>3, <1>4, <1>5, <1>6 DEF ControlInv

\* The prompt opens, or the hold is released.
LEMMA PromptOpensInv ==
  ASSUME NotesInv, NEW n \in Notes, PromptOpens(n)
  PROVE  NotesInv'
<1> USE DEF PromptOpens, EndTask, GoesTo, Release
<1>1. TypeOK'
  <2>1. OutboxTypeOK(Outbox, Then)'
    BY DEF NotesInv, TypeOK, Tasks
  <2>2. SyncTypeOK'
    BY DEF NotesInv, TypeOK, Tasks
  <2>3. EditorTypeOK'
    BY DEF NotesInv, TypeOK, Tasks
  <2> QED  BY <2>1, <2>2, <2>3 DEF TypeOK
<1>2. theirs[n] # None
  BY DEF NotesInv, ControlInv, AsksAboutSomething
<1>3. ControlInv'
  <2>1. CASE Superseded(n)
    BY <2>1, AnswerControl DEF Tasks
  <2>2. CASE ~Superseded(n)
    BY <2>2, <1>2, AnswerControl DEF Tasks
  <2> QED  BY <2>1, <2>2
<1> QED  BY <1>1, <1>3 DEF NotesInv

\* The user's choice.
LEMMA PromptAnsweredInv ==
  ASSUME NotesInv, NEW n \in Notes, PromptAnswered(n)
  PROVE  NotesInv'
<1> USE DEF PromptAnswered, GoesTo
<1>1. PICK choice \in {"keep", "theirs", "copy"} : task' = [task EXCEPT ![n] = choice]
  OBVIOUS
<1>2. TypeOK'
  BY <1>1 DEF NotesInv, TypeOK, Tasks
<1>3. theirs[n] # None
  BY DEF NotesInv, ControlInv, AsksAboutSomething
<1>4. ControlInv'
  BY <1>1, <1>3, AnswerControl DEF Tasks
<1> QED  BY <1>2, <1>4 DEF NotesInv

\* Nothing left to keep: the hold is released.
LEMMA KeepNothingInv ==
  ASSUME NotesInv, NEW n \in Notes, KeepNothing(n)
  PROVE  NotesInv'
<1> USE DEF KeepNothing, EndTask, Release
<1>1. TypeOK'
  BY DEF NotesInv, TypeOK, Tasks
<1>2. ControlInv'
  BY AnswerControl DEF Tasks
<1> QED  BY <1>1, <1>2 DEF NotesInv

\* No copy: the hold is released.
LEMMA CopyFailsInv ==
  ASSUME NotesInv, NEW n \in Notes, CopyFails(n)
  PROVE  NotesInv'
<1> USE DEF CopyFails, EndTask, Release
<1>1. TypeOK'
  BY DEF NotesInv, TypeOK, Tasks
<1>2. ControlInv'
  BY AnswerControl DEF Tasks
<1> QED  BY <1>1, <1>2 DEF NotesInv

\* The reload is over: the hold is released.
LEMMA LoadReturnsInv ==
  ASSUME NotesInv, NEW n \in Notes, LoadReturns(n)
  PROVE  NotesInv'
<1> USE DEF LoadReturns, EndTask, Release
<1>1. TypeOK'
  <2>1. OutboxTypeOK(Outbox, Then)'
    BY DEF NotesInv, TypeOK, Tasks, Contents
  <2>2. SyncTypeOK'
    BY DEF NotesInv, TypeOK, Tasks, Contents
  <2>3. EditorTypeOK'
    BY DEF NotesInv, TypeOK, Tasks, Contents
  <2> QED  BY <2>1, <2>2, <2>3 DEF TypeOK
<1>2. ControlInv'
  BY AnswerControl DEF Tasks
<1> QED  BY <1>1, <1>2 DEF NotesInv

\* The owed read takes a hold.
LEMMA RereadBeginsInv ==
  ASSUME NotesInv, NEW n \in Notes, RereadBegins(n)
  PROVE  NotesInv'
<1> USE DEF RereadBegins, GoesTo
<1>1. CASE n \in fresh
  <2>1. TypeOK'
    BY <1>1 DEF NotesInv, TypeOK
  <2>2. ControlInv'
    BY <1>1, Frame DEF NotesInv
  <2> QED  BY <2>1, <2>2 DEF NotesInv
<1>2. CASE n \notin fresh
  <2>1. TypeOK'
    <3>1. task \in [Notes -> Tasks] /\ held \subseteq Notes
      BY DEF NotesInv, TypeOK
    <3>2. held' \subseteq Notes
      BY <1>2, <3>1
    <3>3. task' \in [Notes -> Tasks]
      BY <1>2, <3>1 DEF Tasks
    <3> QED  BY <3>2, <3>3 DEF NotesInv, TypeOK
  <2>2. ControlInv'
    BY <1>2, AnswerControl DEF Tasks
  <2> QED  BY <2>1, <2>2 DEF NotesInv
<1> QED  BY <1>1, <1>2

\* It reads once no pass works on the note.
LEMMA RereadReadsInv ==
  ASSUME NotesInv, NEW n \in Notes, RereadReads(n)
  PROVE  NotesInv'
<1> USE DEF RereadReads, EndTask, GoesTo, Release
<1>1. TypeOK'
  <2>1. OutboxTypeOK(Outbox, Then)'
    BY DEF NotesInv, TypeOK, Tasks
  <2>2. SyncTypeOK'
    BY DEF NotesInv, TypeOK, Tasks
  <2>3. EditorTypeOK'
    BY DEF NotesInv, TypeOK, Tasks
  <2> QED  BY <2>1, <2>2, <2>3 DEF TypeOK
<1>2. ControlInv'
  <2>1. CASE Superseded(n) \/ n \in peeked
    BY <2>1, AnswerControl DEF Tasks
  <2>2. CASE ~(Superseded(n) \/ n \in peeked)
    BY <2>2, AnswerControl DEF Tasks
  <2> QED  BY <2>1, <2>2
<1> QED  BY <1>1, <1>2 DEF NotesInv

\* It has nothing to answer: the hold is released.
LEMMA RereadEndsInv ==
  ASSUME NotesInv, NEW n \in Notes, RereadEnds(n)
  PROVE  NotesInv'
<1> USE DEF RereadEnds, EndTask, Release
<1>1. TypeOK'
  BY DEF NotesInv, TypeOK, Tasks
<1>2. ControlInv'
  BY AnswerControl DEF Tasks
<1> QED  BY <1>1, <1>2 DEF NotesInv

\* A discard that an answer goes on to wait for.
LEMMA DiscardInv ==
  ASSUME NotesInv, NEW n \in Notes, Discard(n),
         task' = [task EXCEPT ![n] = "discarding"],
         task[n] \notin {"saving", "discarding"},
         IsSettled(n) \/ (n \in held => task[n] = "reading"),
         UNCHANGED <<phase, theirs, worker, held>>
  PROVE  /\ store' \in Outbox /\ rejections' \in [Notes -> 0..(MaxRejections - 1)]
         /\ done' \in [Notes -> Nat]
         /\ gated' \in Seq(Call) /\ writes' \in Seq(Call)
         /\ ControlInv'
<1> DEFINE then == [type |-> "discarded", note |-> n]
<1>0. /\ store \in Outbox /\ rejections \in [Notes -> 0..(MaxRejections - 1)]
      /\ done \in [Notes -> Nat] /\ latest \in [Notes -> Nat] /\ task \in [Notes -> Tasks]
  BY DEF NotesInv, TypeOK
<1>1. store' \in Outbox /\ done' \in [Notes -> Nat]
  BY <1>0 DEF Discard, Outbox, Settled, Later
<1>2. rejections' \in [Notes -> 0..(MaxRejections - 1)]
  BY <1>0, NotesSyncAssumption DEF Discard
<1>3. /\ then \in Then /\ Awaits(then) /\ then.note = n /\ then.type = "discarded"
      /\ Flush(store', then)
  BY DEF Then, Awaits, Discard
<1>4. gated' \in Seq(Call) /\ writes' \in Seq(Call)
  BY <1>1, <1>3, FlushTypes DEF NotesInv
<1>5. CallsInv'
  <2> HIDE DEF then
  <2> QED  BY <1>1, <1>3, FlushAwaited DEF NotesInv, ControlInv
<1>6. AnswerIsAlone'
  BY <1>0 DEF NotesInv, ControlInv, AnswerIsAlone, IsSettled, Idle
<1>7. AsksAboutSomething' /\ HeldIsBusy' /\ VerdictIsOnPeek'
  <2>1. held \subseteq Notes
    BY DEF NotesInv, TypeOK
  <2> QED  BY <1>0, <2>1 DEF NotesInv, ControlInv, AsksAboutSomething, HeldIsBusy, VerdictIsOnPeek
<1> QED  BY <1>1, <1>2, <1>4, <1>5, <1>6, <1>7 DEF ControlInv

\* Its first steps, for an event or for what a read found.
LEMMA AnswerRemoteContentInv ==
  ASSUME NotesInv, NEW n \in Notes, NEW content \in Texts \cup {Unreadable}, content # None,
         AnswerRemoteContent(n, content),
         task[n] \in {"idle", "reading"},
         inbox' \in [Notes -> Texts \cup {None, Unreadable}],
         UNCHANGED <<phase, online, disk, waiting, pass, worker, handedOff, failed, peeked,
                     retry, front, attached, cloud, latest, saved, reread, worldVars>>
  PROVE  NotesInv'
<1> USE DEF AnswerRemoteContent, EndTask, GoesTo
<1>0. task \in [Notes -> Tasks] /\ held \subseteq Notes
  BY DEF NotesInv, TypeOK
<1>1. CASE /\ Release(n) /\ EndTask(n)
           /\ cache' \in [Notes -> Texts]
           /\ UNCHANGED <<store, gated, writes, rejections, done, theirs>>
  <2>1. TypeOK'
    <3>1. OutboxTypeOK(Outbox, Then)'
      BY <1>1 DEF NotesInv, TypeOK, Tasks, Release
    <3>2. SyncTypeOK'
      BY <1>1 DEF NotesInv, TypeOK, Tasks, Release
    <3>3. EditorTypeOK'
      BY <1>1 DEF NotesInv, TypeOK, Tasks, Release
    <3> QED  BY <3>1, <3>2, <3>3 DEF TypeOK
  <2>2. ControlInv'
    BY <1>1, AnswerControl DEF Tasks, Release
  <2> QED  BY <2>1, <2>2 DEF NotesInv
<1>2. CASE /\ Discard(n) /\ GoesTo(n, "discarding")
           /\ UNCHANGED <<held, debounce, cache, theirs>>
  <2>1. n \in held => task[n] = "reading"
    BY DEF NotesInv, ControlInv, HeldIsBusy
  <2>2. /\ store' \in Outbox /\ rejections' \in [Notes -> 0..(MaxRejections - 1)]
        /\ done' \in [Notes -> Nat]
        /\ gated' \in Seq(Call) /\ writes' \in Seq(Call)
        /\ ControlInv'
    BY <1>2, <2>1, DiscardInv
  <2>3. TypeOK'
    <3>1. OutboxTypeOK(Outbox, Then)'
      BY <1>2, <2>2 DEF NotesInv, TypeOK, Tasks, Call
    <3>2. SyncTypeOK'
      BY <1>2, <2>2 DEF NotesInv, TypeOK, Tasks, Call
    <3>3. EditorTypeOK'
      BY <1>2, <2>2 DEF NotesInv, TypeOK, Tasks, Call
    <3> QED  BY <3>1, <3>2, <3>3 DEF TypeOK
  <2> QED  BY <2>2, <2>3 DEF NotesInv
<1>3. CASE /\ held' = held \cup {n}
           /\ GoesTo(n, "asking")
           /\ theirs' = [theirs EXCEPT ![n] = content]
           /\ UNCHANGED <<store, gated, writes, rejections, done, debounce, cache>>
  <2>1. TypeOK'
    <3>1. held' \in SUBSET Notes /\ task' \in [Notes -> Tasks]
          /\ theirs' \in [Notes -> Texts \cup {None, Unreadable}]
      BY <1>3 DEF NotesInv, TypeOK, Tasks
    <3>2. OutboxTypeOK(Outbox, Then)'
      BY <1>3 DEF NotesInv, TypeOK
    <3>3. SyncTypeOK'
      BY <1>3, <3>1 DEF NotesInv, TypeOK
    <3>4. EditorTypeOK'
      BY <1>3, <3>1 DEF NotesInv, TypeOK
    <3> QED  BY <3>2, <3>3, <3>4 DEF TypeOK
  <2>2. CallsInv'
    BY <1>3, AnswerMoves DEF NotesInv, ControlInv
  <2>3. AsksAboutSomething'
    BY <1>0, <1>3 DEF NotesInv, TypeOK, ControlInv, AsksAboutSomething
  <2>4. HeldIsBusy' /\ AnswerIsAlone' /\ VerdictIsOnPeek'
    BY <1>0, <1>3 DEF NotesInv, ControlInv, HeldIsBusy, AnswerIsAlone, VerdictIsOnPeek
  <2> QED  BY <2>1, <2>2, <2>3, <2>4 DEF NotesInv, ControlInv
<1> QED
  <2>1. cache \in [Notes -> Texts]
    BY DEF NotesInv, TypeOK
  <2> QED  BY <1>1, <1>2, <1>3, <2>1

\* An idle editor holds nothing, so answering an event starts afresh.
LEMMA AnswerEventInv ==
  ASSUME NotesInv, NEW n \in Notes, AnswerEvent(n)
  PROVE  NotesInv'
<1>1. /\ inbox[n] \in Texts \cup {Unreadable} /\ inbox[n] # None
      /\ inbox' \in [Notes -> Texts \cup {None, Unreadable}]
  BY DEF AnswerEvent, NotesInv, TypeOK
<1> QED  BY <1>1, AnswerRemoteContentInv DEF AnswerEvent

\* What the read found is answered under the hold it has.
LEMMA RereadFindsInv ==
  ASSUME NotesInv, NEW n \in Notes, RereadFinds(n)
  PROVE  NotesInv'
<1>1. cloud[n] \in Texts /\ cloud[n] # None
  BY NotesOutboxAssumption DEF RereadFinds, NotesInv, TypeOK, Contents
<1>2. inbox' \in [Notes -> Texts \cup {None, Unreadable}]
  BY DEF RereadFinds, NotesInv, TypeOK
<1> QED  BY <1>1, <1>2, AnswerRemoteContentInv DEF RereadFinds

\* Load theirs discards once no pass works on the note.
LEMMA LoadTheirsInv ==
  ASSUME NotesInv, NEW n \in Notes, LoadTheirs(n)
  PROVE  NotesInv'
<1> USE DEF LoadTheirs, GoesTo
<1>1. /\ store' \in Outbox /\ rejections' \in [Notes -> 0..(MaxRejections - 1)]
      /\ done' \in [Notes -> Nat]
      /\ gated' \in Seq(Call) /\ writes' \in Seq(Call)
      /\ ControlInv'
  BY DiscardInv
<1>2. TypeOK'
  <2>1. OutboxTypeOK(Outbox, Then)'
    BY <1>1 DEF NotesInv, TypeOK, Tasks, Call
  <2>2. SyncTypeOK'
    BY <1>1 DEF NotesInv, TypeOK, Tasks, Call
  <2>3. EditorTypeOK'
    BY <1>1 DEF NotesInv, TypeOK, Tasks, Call
  <2> QED  BY <2>1, <2>2, <2>3 DEF TypeOK
<1> QED  BY <1>1, <1>2 DEF NotesInv

\* Keep mine rebases or queues again once no pass works on the note.
LEMMA KeepMineInv ==
  ASSUME NotesInv, NEW n \in Notes, KeepMine(n)
  PROVE  NotesInv'
<1> DEFINE then == [type |-> "kept", note |-> n, edit |-> store'[n].edit]
<1>0. /\ store \in Outbox /\ edits \in Nat /\ now \in Nat /\ latest \in [Notes -> Nat]
      /\ cache \in [Notes -> Texts] /\ task \in [Notes -> Tasks]
      /\ theirs \in [Notes -> Texts \cup {None, Unreadable}]
      /\ kept \in [Notes -> Texts \cup {None}]
  BY DEF NotesInv, TypeOK
<1>1. theirs[n] # None /\ task[n] = "keep" /\ IsSettled(n)
  BY DEF KeepMine, NotesInv, ControlInv, AsksAboutSomething
<1>2. TheirBase(n) \in Texts \cup {NoBase}
  BY <1>0, <1>1 DEF TheirBase
<1>3. /\ store' \in Outbox /\ store'[n] \in Entry
      /\ now' \in Nat /\ edits' \in Nat /\ latest' \in [Notes -> Nat]
  <2>1. CASE /\ store[n] # None
             /\ store' = [store EXCEPT ![n].base = TheirBase(n)]
             /\ UNCHANGED <<now, edits, latest>>
    <3>1. [store[n] EXCEPT !.base = TheirBase(n)] \in Entry
      BY <2>1, <1>0, <1>2 DEF Outbox, Entry
    <3> QED  BY <2>1, <3>1, <1>0 DEF Outbox
  <2>2. CASE /\ store' = [store EXCEPT ![n] =
                       BuildEntry(None, edits + 1, cache[n], now + 1, TheirBase(n))]
             /\ now' = now + 1 /\ edits' = edits + 1
             /\ latest' = [latest EXCEPT ![n] = edits + 1]
    <3>1. cache[n] \in Texts /\ edits + 1 \in Nat \ {0} /\ now + 1 \in Nat
      BY <1>0
    <3>2. BuildEntry(None, edits + 1, cache[n], now + 1, TheirBase(n)) \in Entry
      BY <3>1, <1>2, BuiltEntry
    <3> QED  BY <2>2, <3>1, <3>2, <1>0 DEF Outbox
  <2> QED  BY <2>1, <2>2 DEF KeepMine
<1>4. /\ then \in Then /\ Awaits(then) /\ then.note = n /\ then.type = "kept"
  BY <1>3 DEF Then, Awaits, Entry
<1>5. /\ Flush(store', then) /\ task' = [task EXCEPT ![n] = "saving"]
      /\ kept' \in [Notes -> Texts \cup {None}]
      /\ UNCHANGED <<phase, online, disk, waiting, pass, passVars, timerVars, editorVars,
                     noteVars, done, saved, theirs, reread, fetching, fresh, socket, remotes,
                     crashes>>
  BY <1>0, <1>1 DEF KeepMine, GoesTo
<1> HIDE DEF then
<1>6. gated' \in Seq(Call) /\ writes' \in Seq(Call)
  BY <1>3, <1>4, <1>5, FlushTypes DEF NotesInv
<1>7. TypeOK'
  <2>1. OutboxTypeOK(Outbox, Then)'
    BY <1>3, <1>5, <1>6 DEF NotesInv, TypeOK, Tasks, Call
  <2>2. SyncTypeOK'
    BY <1>3, <1>5, <1>6 DEF NotesInv, TypeOK, Tasks, Call
  <2>3. EditorTypeOK'
    BY <1>3, <1>5, <1>6 DEF NotesInv, TypeOK, Tasks, Call
  <2> QED  BY <2>1, <2>2, <2>3 DEF TypeOK
<1>8. CallsInv'
  BY <1>1, <1>3, <1>4, <1>5, FlushAwaited DEF NotesInv, ControlInv
<1>9. AnswerIsAlone'
  BY <1>0, <1>1, <1>5 DEF NotesInv, ControlInv, AnswerIsAlone, IsSettled, Idle
<1>10. AsksAboutSomething' /\ HeldIsBusy' /\ VerdictIsOnPeek'
  <2>1. held \subseteq Notes
    BY DEF NotesInv, TypeOK
  <2> QED  BY <1>0, <1>5, <2>1 DEF NotesInv, ControlInv, AsksAboutSomething, HeldIsBusy,
                                   VerdictIsOnPeek
<1> QED  BY <1>7, <1>8, <1>9, <1>10 DEF NotesInv, ControlInv
-----------------------------------------------------------------------------
(* SQLite, the other devices, the network and the process. *)

\* A flush returns to the answer that waits for it, if one does.
LEMMA FlushReturnsInv ==
  ASSUME NotesInv, FlushReturns
  PROVE  NotesInv'
<1> DEFINE then == Head(writes).then
<1>0. /\ writes \in Seq(Call) /\ task \in [Notes -> Tasks] /\ saved \in [Notes -> Nat]
      /\ disk \in Outbox /\ held \subseteq Notes
  BY CallTypes DEF NotesInv, TypeOK
<1>1. PICK ok \in BOOLEAN : WriteOldest(ok)
  BY DEF FlushReturns
<1>2. /\ writes # <<>> /\ writes' = Tail(writes) /\ UNCHANGED <<phase, online, gated>>
      /\ disk' \in {disk, Head(writes).queue}
  BY <1>1 DEF WriteOldest
<1>3. writes' \in Seq(Call) /\ Head(writes) \in Call
  BY <1>0, <1>2, TailTypes
<1>4. disk' \in Outbox /\ then \in Then
  BY <1>0, <1>2, <1>3 DEF Call
<1>5. phase = "ready" /\ gated = <<>> /\ Awaited(writes, task)
  BY <1>2 DEF NotesInv, ControlInv, CallsInv
<1>6. Awaited(<<>>, task')
  BY DEF Awaited
<1>7. UNCHANGED <<store, waiting, worker, rejections, handedOff, peeked, front, attached,
                  inbox, noteVars, latest, done, theirs, reread, worldVars>>
  BY DEF FlushReturns
<1>8. CASE /\ then.type = "typed"
           /\ saved' \in [Notes -> Nat] /\ debounce' = TRUE
           /\ UNCHANGED <<pass, failed, retry, held, task>>
  <2>1. TypeOK'
    <3>1. OutboxTypeOK(Outbox, Then)'
      BY <1>2, <1>3, <1>4, <1>7, <1>8 DEF NotesInv, TypeOK, Call
    <3>2. SyncTypeOK'
      BY <1>2, <1>3, <1>4, <1>7, <1>8 DEF NotesInv, TypeOK, Call
    <3>3. EditorTypeOK'
      BY <1>2, <1>3, <1>4, <1>7, <1>8 DEF NotesInv, TypeOK, Call
    <3> QED  BY <3>1, <3>2, <3>3 DEF TypeOK
  <2>2. Awaited(writes', task')
    BY <1>0, <1>2, <1>5, <1>8, TailAwaited
  <2>3. ControlInv'
    BY <2>2, <1>2, <1>5, <1>6, <1>7, <1>8
       DEF NotesInv, ControlInv, CallsInv, AsksAboutSomething, HeldIsBusy, AnswerIsAlone,
           VerdictIsOnPeek
  <2> QED  BY <2>1, <2>3 DEF NotesInv
<1>9. CASE /\ then.type = "pass"
           /\ pass' = "none" /\ ScheduleRetry
           /\ UNCHANGED <<debounce, held, saved, task>>
  <2>1. TypeOK'
    <3>1. OutboxTypeOK(Outbox, Then)'
      BY <1>2, <1>3, <1>4, <1>7, <1>9
         DEF NotesInv, TypeOK, Call, ScheduleRetry, HasEntries
    <3>2. SyncTypeOK'
      BY <1>2, <1>3, <1>4, <1>7, <1>9
         DEF NotesInv, TypeOK, Call, ScheduleRetry, HasEntries
    <3>3. EditorTypeOK'
      BY <1>2, <1>3, <1>4, <1>7, <1>9
         DEF NotesInv, TypeOK, Call, ScheduleRetry, HasEntries
    <3> QED  BY <3>1, <3>2, <3>3 DEF TypeOK
  <2>2. Awaited(writes', task')
    BY <1>0, <1>2, <1>5, <1>9, TailAwaited
  <2>3. ControlInv'
    BY <2>2, <1>2, <1>5, <1>6, <1>7, <1>9
       DEF NotesInv, ControlInv, CallsInv, AsksAboutSomething, HeldIsBusy, AnswerIsAlone,
           VerdictIsOnPeek
  <2> QED  BY <2>1, <2>3 DEF NotesInv
<1>10. CASE /\ then.type = "kept"
            /\ saved' \in [Notes -> Nat]
            /\ Release(then.note) /\ EndTask(then.note)
            /\ UNCHANGED <<pass, failed, retry>>
  <2>1. /\ then.note \in Notes
        /\ Awaited(writes', [task EXCEPT ![then.note] = "idle"])
    BY <1>0, <1>2, <1>5, <1>10, TailMoves DEF Awaits
  <2>2. /\ task' = [task EXCEPT ![then.note] = "idle"]
        /\ held' = held \ {then.note} /\ debounce' \in BOOLEAN
    BY <1>10 DEF EndTask, Release, NotesInv, TypeOK
  <2> HIDE DEF then
  <2>3. TypeOK'
    <3>1. OutboxTypeOK(Outbox, Then)'
      BY <1>2, <1>3, <1>4, <1>7, <1>10, <2>1, <2>2 DEF NotesInv, TypeOK, Call, Tasks
    <3>2. SyncTypeOK'
      BY <1>2, <1>3, <1>4, <1>7, <1>10, <2>1, <2>2 DEF NotesInv, TypeOK, Call, Tasks
    <3>3. EditorTypeOK'
      BY <1>2, <1>3, <1>4, <1>7, <1>10, <2>1, <2>2 DEF NotesInv, TypeOK, Call, Tasks
    <3> QED  BY <3>1, <3>2, <3>3 DEF TypeOK
  <2>4. CallsInv'
    BY <1>2, <1>5, <1>6, <2>1, <2>2 DEF CallsInv
  <2>5. AsksAboutSomething' /\ HeldIsBusy' /\ AnswerIsAlone' /\ VerdictIsOnPeek'
    BY <1>0, <1>7, <2>1, <2>2
       DEF NotesInv, ControlInv, AsksAboutSomething, HeldIsBusy, AnswerIsAlone, VerdictIsOnPeek
  <2> QED  BY <2>3, <2>4, <2>5 DEF NotesInv, ControlInv
<1>11. CASE /\ then.type = "discarded"
            /\ GoesTo(then.note, "loading")
            /\ UNCHANGED <<pass, failed, timerVars, held, saved>>
  <2>1. /\ then.note \in Notes /\ task[then.note] = "discarding"
        /\ Awaited(writes', [task EXCEPT ![then.note] = "loading"])
    BY <1>0, <1>2, <1>5, <1>11, TailMoves DEF Awaits
  <2>2. task' = [task EXCEPT ![then.note] = "loading"]
    BY <1>11 DEF GoesTo
  <2> HIDE DEF then
  <2>3. TypeOK'
    <3>1. OutboxTypeOK(Outbox, Then)'
      BY <1>2, <1>3, <1>4, <1>7, <1>11, <2>1, <2>2 DEF NotesInv, TypeOK, Call, Tasks
    <3>2. SyncTypeOK'
      BY <1>2, <1>3, <1>4, <1>7, <1>11, <2>1, <2>2 DEF NotesInv, TypeOK, Call, Tasks
    <3>3. EditorTypeOK'
      BY <1>2, <1>3, <1>4, <1>7, <1>11, <2>1, <2>2 DEF NotesInv, TypeOK, Call, Tasks
    <3> QED  BY <3>1, <3>2, <3>3 DEF TypeOK
  <2>4. CallsInv'
    BY <1>2, <1>5, <1>6, <2>1, <2>2 DEF CallsInv
  <2>5. AsksAboutSomething' /\ HeldIsBusy' /\ AnswerIsAlone' /\ VerdictIsOnPeek'
    BY <1>0, <1>7, <1>11, <2>1, <2>2
       DEF NotesInv, ControlInv, AsksAboutSomething, HeldIsBusy, AnswerIsAlone, VerdictIsOnPeek
  <2> QED  BY <2>3, <2>4, <2>5 DEF NotesInv, ControlInv
<1>12. then.type \in {"typed", "kept"} => then.edit \in Nat
  BY <1>4 DEF Then
<1>13. \A b \in BOOLEAN : then.type \in {"typed", "kept"} =>
         [saved EXCEPT ![then.note] = IF b THEN Later(@, then.edit) ELSE @]
           \in [Notes -> Nat]
  BY <1>0, <1>12 DEF Later
<1> QED
  <2> DEFINE flushed(b) == [saved EXCEPT ![then.note] =
                              IF b THEN Later(@, then.edit) ELSE @]
  <2>1. PICK b \in BOOLEAN :
          \/ /\ then.type = "typed" /\ saved' = flushed(b) /\ debounce' = TRUE
             /\ UNCHANGED <<pass, failed, retry, held, task>>
          \/ /\ then.type = "kept" /\ saved' = flushed(b)
             /\ Release(then.note) /\ EndTask(then.note)
             /\ UNCHANGED <<pass, failed, retry>>
          \/ /\ then.type = "discarded" /\ GoesTo(then.note, "loading")
             /\ UNCHANGED <<pass, failed, timerVars, held, saved>>
          \/ /\ then.type = "pass" /\ pass' = "none" /\ ScheduleRetry
             /\ UNCHANGED <<debounce, held, saved, task>>
    BY ZenonT(60) DEF FlushReturns
  <2>2. then.type \in {"typed", "kept"} => flushed(b) \in [Notes -> Nat]
    BY <1>13
  <2> HIDE DEF flushed, then
  <2> QED  BY <2>1, <2>2, <1>8, <1>9, <1>10, <1>11

\* An edit elsewhere changes the cloud and what editors are told.
LEMMA RemoteEditInv ==
  ASSUME NotesInv, NEW n \in Notes, RemoteEdit(n)
  PROVE  NotesInv'
<1> USE DEF RemoteEdit
<1>1. cloud' \in [Notes -> Contents]
  BY DEF NotesInv, TypeOK, Contents
<1>2. inbox' \in [Notes -> Texts \cup {None, Unreadable}] /\ reread' \in SUBSET Notes
  <2>1. /\ inbox \in [Notes -> Texts \cup {None, Unreadable}] /\ reread \in SUBSET Notes
    BY DEF NotesInv, TypeOK
  <2>2. CASE UNCHANGED <<inbox, reread>>
    BY <2>1, <2>2
  <2>3. CASE /\ \E heard \in Texts \cup {Unreadable} : inbox' = [inbox EXCEPT ![n] = heard]
             /\ reread' = reread \ {n}
    BY <2>1, <2>3
  <2> QED  BY <2>2, <2>3
<1>3. remotes' \in Nat /\ kept' \in [Notes -> Texts \cup {None}]
  BY DEF NotesInv, TypeOK
<1>4. UNCHANGED <<outboxVars, passVars, timerVars, front, attached, held, cache, ghostVars,
                  task, theirs, fetching, fresh, socket, now, edits, crashes>>
  OBVIOUS
<1> HIDE DEF RemoteEdit
<1>5. TypeOK'
  BY <1>1, <1>2, <1>3, <1>4 DEF NotesInv, TypeOK
<1>6. ControlInv'
  BY <1>4, Frame DEF NotesInv
<1> QED  BY <1>5, <1>6 DEF NotesInv

\* A reconnect ages the workers' peeks.
LEMMA SocketReconnectsInv ==
  ASSUME NotesInv, SocketReconnects
  PROVE  NotesInv'
<1> USE DEF SocketReconnects
<1>1. worker' = [n \in Notes |-> IF worker[n].stage \in {"peeking", "peeked"}
                                 THEN [worker[n] EXCEPT !.since = FALSE] ELSE worker[n]]
  OBVIOUS
<1>2. ASSUME NEW n \in Notes, worker[n].stage \in {"peeking", "peeked"}
      PROVE  /\ [worker[n] EXCEPT !.since = FALSE] \in WorkerStates
             /\ [worker[n] EXCEPT !.since = FALSE].stage = worker[n].stage
  <2>1. CASE worker[n] \in [stage : {"peeking"}, entry : Entry, since : BOOLEAN]
    BY <2>1 DEF WorkerStates
  <2>2. CASE worker[n] \in [stage : {"peeked"}, entry : Entry, since : BOOLEAN,
                            seen : Texts \cup {Unknown, Unreadable}]
    BY <2>2 DEF WorkerStates
  <2>3. worker[n] \in WorkerStates
    BY DEF NotesInv, TypeOK
  <2> QED  BY <1>2, <2>1, <2>2, <2>3 DEF WorkerStates, Idle
<1>3. worker \in [Notes -> WorkerStates]
  BY DEF NotesInv, TypeOK
<1>4. worker' \in [Notes -> WorkerStates]
  BY <1>1, <1>2, <1>3
<1>5. TypeOK'
  BY <1>4 DEF NotesInv, TypeOK
<1>6. \A n \in Notes : \/ worker'[n] = worker[n]
                       \/ worker'[n].stage \in {"peeking", "peeked"}
  BY <1>1, <1>2
<1>7. AnswerIsAlone' /\ VerdictIsOnPeek'
  BY <1>6 DEF NotesInv, ControlInv, AnswerIsAlone, VerdictIsOnPeek
<1>8. ControlInv'
  BY <1>7, WorkersFrame DEF NotesInv
<1> QED  BY <1>5, <1>8 DEF NotesInv

\* The app goes to the back.
LEMMA BackgroundsInv ==
  ASSUME NotesInv, Backgrounds
  PROVE  NotesInv'
<1>1. TypeOK'
  <2>1. OutboxTypeOK(Outbox, Then)'
    BY DEF Backgrounds, AppStateChanges, ExecuteNow, CallSync, RunsPass, NotesInv,
           TypeOK
  <2>2. SyncTypeOK'
    BY DEF Backgrounds, AppStateChanges, ExecuteNow, CallSync, RunsPass, NotesInv,
           TypeOK
  <2>3. EditorTypeOK'
    BY DEF Backgrounds, AppStateChanges, ExecuteNow, CallSync, RunsPass, NotesInv,
           TypeOK
  <2> QED  BY <2>1, <2>2, <2>3 DEF TypeOK
<1>2. ControlInv'
  BY Frame DEF Backgrounds, AppStateChanges, ExecuteNow, CallSync, RunsPass, NotesInv
<1> QED  BY <1>1, <1>2 DEF NotesInv

\* It comes to the front.
LEMMA ForegroundsInv ==
  ASSUME NotesInv, Foregrounds
  PROVE  NotesInv'
<1>1. TypeOK'
  <2>1. OutboxTypeOK(Outbox, Then)'
    BY DEF Foregrounds, AppStateChanges, ExecuteNow, CallSync, RunsPass, NotesInv,
           TypeOK
  <2>2. SyncTypeOK'
    BY DEF Foregrounds, AppStateChanges, ExecuteNow, CallSync, RunsPass, NotesInv,
           TypeOK
  <2>3. EditorTypeOK'
    BY DEF Foregrounds, AppStateChanges, ExecuteNow, CallSync, RunsPass, NotesInv,
           TypeOK
  <2> QED  BY <2>1, <2>2, <2>3 DEF TypeOK
<1>2. ControlInv'
  BY Frame DEF Foregrounds, AppStateChanges, ExecuteNow, CallSync, RunsPass, NotesInv
<1> QED  BY <1>1, <1>2 DEF NotesInv

\* The network is lost.
LEMMA NetworkGoesInv ==
  ASSUME NotesInv, NetworkGoes
  PROVE  NotesInv'
<1>1. TypeOK'
  BY DEF NetworkGoes, GoesOffline, NotesInv, TypeOK
<1>2. ControlInv'
  BY Frame DEF NetworkGoes, GoesOffline, NotesInv
<1> QED  BY <1>1, <1>2 DEF NotesInv

\* It comes back.
LEMMA NetworkComesInv ==
  ASSUME NotesInv, NetworkComes
  PROVE  NotesInv'
<1>1. TypeOK'
  BY DEF NetworkComes, GoesOnline, NotesInv, TypeOK
<1>2. ControlInv'
  BY Frame DEF NetworkComes, GoesOnline, NotesInv
<1> QED  BY <1>1, <1>2 DEF NotesInv

\* The socket is lost.
LEMMA SocketDropsInv ==
  ASSUME NotesInv, SocketDrops
  PROVE  NotesInv'
<1>1. TypeOK'
  BY DEF SocketDrops, NotesInv, TypeOK
<1>2. ControlInv'
  BY Frame DEF SocketDrops, NotesInv
<1> QED  BY <1>1, <1>2 DEF NotesInv

\* The clock is set back.
LEMMA ClockStepsInv ==
  ASSUME NotesInv, ClockSteps
  PROVE  NotesInv'
<1>1. TypeOK'
  BY DEF ClockSteps, NotesInv, TypeOK
<1>2. ControlInv'
  BY Frame DEF ClockSteps, NotesInv
<1> QED  BY <1>1, <1>2 DEF NotesInv

\* The process ends: no flush, no hold, no worker and no answer is left.
LEMMA CrashInv ==
  ASSUME NotesInv, Crash
  PROVE  NotesInv'
<1> USE DEF Crash, SyncCrashes, CrashOutbox
<1>0. disk \in Outbox /\ done \in [Notes -> Nat]
  BY DEF NotesInv, TypeOK
<1>1. latest' \in [Notes -> Nat] /\ saved' \in [Notes -> Nat]
  BY <1>0 DEF Outbox, Entry
<1>2. done' \in [Notes -> Nat]
  <2>1. ASSUME NEW n \in Notes, disk[n] # None, ~(done[n] < disk[n].edit)
        PROVE  disk[n].edit - 1 \in Nat
    BY <1>0, <2>1 DEF Outbox, Entry
  <2> QED  BY <1>0, <2>1
<1>3. store' \in Outbox
  BY NotesSyncAssumption DEF EmptyOutbox, Outbox
<1>4. rejections' \in [Notes -> 0..(MaxRejections - 1)]
  BY NotesSyncAssumption
<1>5. worker' \in [Notes -> WorkerStates] /\ task' \in [Notes -> Tasks]
  BY DEF WorkerStates, Tasks
<1>6. /\ inbox' \in [Notes -> Texts \cup {None, Unreadable}]
      /\ theirs' \in [Notes -> Texts \cup {None, Unreadable}]
      /\ kept' \in [Notes -> Texts \cup {None}] /\ fetching' \in [Notes -> Texts \cup {None}]
      /\ crashes' \in Nat
  BY DEF NotesInv, TypeOK
<1>7. /\ phase' = "off" /\ gated' = <<>> /\ writes' = <<>> /\ waiting' = FALSE /\ pass' = "none"
      /\ handedOff' = {} /\ failed' = {} /\ peeked' = {} /\ debounce' = FALSE /\ retry' = FALSE
      /\ front' = TRUE /\ attached' = {} /\ held' = {} /\ reread' = {} /\ fresh' = {}
      /\ UNCHANGED <<online, disk, noteVars, socket, now, edits, remotes>>
  OBVIOUS
<1>8. TypeOK'
  <2> HIDE DEF Crash, SyncCrashes, CrashOutbox
  <2>1. gated' \in Seq(Call) /\ writes' \in Seq(Call)
    BY <1>7
  <2> QED  BY <2>1, <1>1, <1>2, <1>3, <1>4, <1>5, <1>6, <1>7
            DEF NotesInv, TypeOK, Call
<1>9. ControlInv'
  BY DEF ControlInv, CallsInv, Awaited, AsksAboutSomething, HeldIsBusy, AnswerIsAlone,
         VerdictIsOnPeek, Idle
<1> QED  BY <1>8, <1>9 DEF NotesInv

\* The first start.
LEMMA InitInv == Init => NotesInv
<1> SUFFICES ASSUME Init PROVE NotesInv
  OBVIOUS
<1> USE DEF Init, SyncInit, OutboxInit
<1>1. store \in Outbox /\ disk \in Outbox
  BY NotesSyncAssumption DEF EmptyOutbox, Outbox
<1>2. rejections \in [Notes -> 0..(MaxRejections - 1)]
  BY NotesSyncAssumption
<1>3. cloud \in [Notes -> Contents] /\ cache \in [Notes -> Texts]
  BY DEF Contents
<1>4. TypeOK
  <2>1. worker \in [Notes -> WorkerStates] /\ task \in [Notes -> Tasks]
    BY DEF WorkerStates, Tasks
  <2>2. /\ inbox \in [Notes -> Texts \cup {None, Unreadable}]
        /\ theirs \in [Notes -> Texts \cup {None, Unreadable}]
        /\ kept \in [Notes -> Texts \cup {None}] /\ fetching \in [Notes -> Texts \cup {None}]
        /\ latest \in [Notes -> Nat] /\ done \in [Notes -> Nat] /\ saved \in [Notes -> Nat]
    OBVIOUS
  <2>3. /\ phase = "off" /\ online \in BOOLEAN /\ gated = <<>> /\ writes = <<>>
        /\ waiting = FALSE /\ pass = "none"
        /\ handedOff = {} /\ failed = {} /\ peeked = {} /\ debounce = FALSE /\ retry = FALSE
        /\ front = TRUE /\ attached = {} /\ held = {} /\ reread = {} /\ fresh = {}
        /\ socket = online /\ now = 0 /\ edits = 0 /\ remotes = 0 /\ crashes = 0
    OBVIOUS
  <2> HIDE DEF Init, SyncInit, OutboxInit
  <2>4. gated \in Seq(Call) /\ writes \in Seq(Call)
    BY <2>3
  <2> QED  BY <1>1, <1>2, <1>3, <2>1, <2>2, <2>3, <2>4 DEF TypeOK, Call
<1>5. ControlInv
  BY DEF ControlInv, CallsInv, Awaited, AsksAboutSomething, HeldIsBusy, AnswerIsAlone,
         VerdictIsOnPeek, Idle
<1> QED  BY <1>4, <1>5 DEF NotesInv
-----------------------------------------------------------------------------
\* Every step keeps the invariant.
LEMMA NextInv == NotesInv /\ [Next]_vars => NotesInv'
<1> SUFFICES ASSUME NotesInv, [Next]_vars PROVE NotesInv'
  OBVIOUS
<1>1. CASE Restores \/ Reconciles
  BY <1>1, SyncHostMountsInv, RestoreReadsInv, RestoreReconcilesInv, ReconcileFailsInv
     DEF Restores, Reconciles
<1>2. CASE Passes \/ Timers \/ FlushReturns
  BY <1>2, PassFindsNothingInv, PassBeginsInv, PassFlushesInv, DebounceFiresInv,
     RetryFiresInv, FlushReturnsInv DEF Passes, Timers
<1>3. ASSUME NEW n \in Notes, Works(n) \/ Lands(n) \/ PushGoesWrong(n) PROVE NotesInv'
  BY <1>3, PeekAnsweredInv, PeekHandledInv, PushReturnsInv, PushLandsInv, PushFailsInv,
     PushRejectedInv DEF Works, PushGoesWrong
<1>4. ASSUME NEW n \in Notes, AnswerSteps(n) PROVE NotesInv'
  BY <1>4, AnswerEventInv, PromptOpensInv, PromptAnsweredInv, KeepMineInv, KeepNothingInv,
     LoadTheirsInv, CopyFailsInv, LoadReturnsInv, RereadBeginsInv, RereadReadsInv,
     RereadFindsInv, RereadEndsInv DEF AnswerSteps
<1>5. CASE Environment
  <2>1. ASSUME NEW n \in Notes, \/ Open(n) \/ Close(n) \/ Type(n) \/ QueryReads(n)
                                \/ QueryReturns(n) \/ RemoteEdit(n)
        PROVE  NotesInv'
    BY <2>1, OpenInv, CloseInv, TypeInv, QueryReadsInv, QueryReturnsInv, RemoteEditInv
  <2>2. CASE \/ SocketDrops \/ SocketReconnects \/ Backgrounds \/ Foregrounds
             \/ NetworkGoes \/ NetworkComes \/ ClockSteps \/ Crash
    BY <2>2, SocketDropsInv, SocketReconnectsInv, BackgroundsInv, ForegroundsInv,
       NetworkGoesInv, NetworkComesInv, ClockStepsInv, CrashInv
  <2> QED  BY <1>5, <2>1, <2>2 DEF Environment
<1>6. CASE UNCHANGED vars
  <2>1. TypeOK'
    BY <1>6 DEF vars, NotesInv, TypeOK
  <2>2. ControlInv'
    BY <1>6, Frame DEF vars, NotesInv
  <2> QED  BY <2>1, <2>2 DEF NotesInv
<1> QED  BY <1>1, <1>2, <1>3, <1>4, <1>5, <1>6 DEF Next

\* NotesInv holds in every state.
THEOREM NotesInvariant == Spec => []NotesInv
<1> QED  BY InitInv, NextInv, PTL DEF Spec

\* Types: among others, the strikes stay below the bound at which the queue of
\* a note is dropped.
THEOREM NotesTypes == Spec => []TypeOK
<1>1. NotesInv => TypeOK
  BY DEF NotesInv
<1> QED  BY <1>1, NotesInvariant, PTL

\* While an answer that holds its note is carried out, no pass is past its peek
\* on that note: whatever else happens, the user's choice and a push never work
\* on the same edit at once.
THEOREM NotesAnswerIsAlone == Spec => []AnswerIsAlone
<1>1. NotesInv => AnswerIsAlone
  BY DEF NotesInv, ControlInv
<1> QED  BY <1>1, NotesInvariant, PTL

\* A push that lands over a content its edit was not based on, and that its
\* peek saw, carries the overwrite warning.
THEOREM NotesOverwriteAnnounced == Spec => OverwriteAnnounced
<1>1. NotesInv /\ [Next]_vars =>
        [\A n \in Notes :
           worker[n].stage = "pushing" /\ worker'[n].stage = "landed" => Announced(n)]_vars
  <2> SUFFICES ASSUME NotesInv, NEW n \in Notes, worker[n].stage = "pushing"
               PROVE  Announced(n)
    OBVIOUS
  <2> QED  BY DEF NotesInv, ControlInv, VerdictIsOnPeek, Announced
<1> QED  BY <1>1, NotesInvariant, PTL DEF Spec, OverwriteAnnounced
-----------------------------------------------------------------------------
(***************************************************************************)
(* What becomes of the edits.  Nothing is typed nor discarded before the   *)
(* restore has read the row, or else there is no restart (Undisturbed).    *)
(* The queue is then the restored one (Queue) from the start, and EditsInv *)
(* follows it: with the flushes under way, with the entry each worker of a *)
(* pass took from it, and with what the editors were told is saved.        *)
(***************************************************************************)

Undisturbed == MaxCrashes = 0 \/ ("early" \notin Faults /\ "unreadable" \notin Faults)

\* The flushes under way, oldest first.
Calls == IF phase = "ready" THEN writes ELSE gated

Restoring == phase \in {"off", "reading"}

\* The queue, which before the restore has read it is the row.
Queue == IF Restoring /\ MaxCrashes # 0 THEN disk ELSE store

\* Until then either the row is empty or everything else is.
Untouched ==
  IF MaxCrashes = 0
    THEN phase # "reconciling" /\ (phase # "ready" => disk = EmptyOutbox)
    ELSE Restoring => store = EmptyOutbox /\ gated = <<>>

\* Until then no answer is under way that would discard an edit.
Quiet ==
  Restoring /\ MaxCrashes # 0 =>
    \A n \in Notes : task[n] \in {"idle", "settling", "reading"} /\ inbox[n] # Unreadable

\* Keystrokes are numbered as they come; what is settled or saved was made.
Counted == \A n \in Notes : done[n] <= latest[n] /\ latest[n] <= edits /\ saved[n] <= latest[n]

\* The queue is the newest unsettled keystroke of each note.
Unsettled ==
  \A n \in Notes : IF latest[n] > done[n]
                     THEN Queue[n] # None /\ Queue[n].edit = latest[n]
                     ELSE Queue[n] = None

\* The edits of a queue were made.
Made(q, most) == \A n \in Notes : q[n] # None => q[n].edit <= most

\* Neither the row nor a flush holds an edit nobody made.
Stored == Made(disk, edits) /\ \A i \in 1..Len(Calls) : Made(Calls[i].queue, edits)

\* An entry a worker took was the queue's or an earlier one of its note.
Follows(e, f) == e.at <= f.at /\ e.edit <= f.edit /\ (e.at = f.at <=> e.edit = f.edit)

\* Workers run in a pass, each on such an entry, which the queue then has.
Working ==
  /\ pass # "none" => phase = "ready"
  /\ \A n \in Notes : worker[n] # Idle =>
       pass = "body" /\ store[n] # None /\ Follows(worker[n].entry, store[n])

Has(q, n, edit) == q[n] # None /\ q[n].edit >= edit

\* What was saved and is not settled is in every queue written or to be written.
SavedIsKept ==
  \A n \in Notes : saved[n] > done[n] =>
    /\ Has(disk, n, saved[n])
    /\ \A i \in 1..Len(Calls) : Has(Calls[i].queue, n, saved[n])

Saves(then) == then.type \in {"typed", "kept"}

\* What a flush will save is in its queue and in the later ones.
SavingIsKept ==
  \A i \in 1..Len(Calls) : Saves(Calls[i].then) =>
    /\ Calls[i].then.edit <= latest[Calls[i].then.note]
    /\ Calls[i].then.edit > done[Calls[i].then.note] =>
         \A j \in i..Len(Calls) : Has(Calls[j].queue, Calls[i].then.note, Calls[i].then.edit)

\* A pass flushes once, and waits for it.
OnePass ==
  \A i \in 1..Len(Calls) : Calls[i].then.type = "pass" =>
    /\ pass = "flushing"
    /\ \A j \in 1..Len(Calls) : Calls[j].then.type = "pass" => j = i

\* Outside a pass the newest flush has the queue.
Newest == IF Calls = <<>> THEN disk ELSE Calls[Len(Calls)].queue

Mirrored ==
  MaxCrashes = 0 /\ "diskFails" \notin Faults /\ pass # "body" => store = Newest

EditsInv ==
  /\ Untouched /\ Quiet /\ Counted /\ Unsettled /\ Stored /\ Working
  /\ SavedIsKept /\ SavingIsKept /\ OnePass /\ Mirrored

\* The flushes under way are calls.
LEMMA CallsTypes ==
  ASSUME NotesInv
  PROVE  Calls \in Seq(Call)
BY CallTypes DEF NotesInv, Calls

\* Edits that are settled ask less of the flushes under way.
LEMMA SettlingKeeps ==
  ASSUME NotesInv, NotesInv', EditsInv, Calls' = Calls,
         UNCHANGED <<disk, saved, latest, edits>>,
         \A n \in Notes : done[n] <= done'[n],
         pass' = pass \/ pass # "flushing"
  PROVE  Stored' /\ SavedIsKept' /\ SavingIsKept' /\ OnePass'
<1>0. /\ Calls \in Seq(Call) /\ done \in [Notes -> Nat] /\ done' \in [Notes -> Nat]
      /\ saved \in [Notes -> Nat]
  BY CallsTypes DEF NotesInv, TypeOK
<1>1. Stored'
  BY DEF EditsInv, Stored
<1>2. SavedIsKept'
  BY <1>0 DEF EditsInv, SavedIsKept
<1>3. SavingIsKept'
  <2> SUFFICES ASSUME NEW i \in 1..Len(Calls), Saves(Calls[i].then)
               PROVE  /\ Calls[i].then.edit <= latest[Calls[i].then.note]
                      /\ Calls[i].then.edit > done'[Calls[i].then.note] =>
                           \A j \in i..Len(Calls) :
                             Has(Calls[j].queue, Calls[i].then.note, Calls[i].then.edit)
    BY DEF SavingIsKept
  <2>1. Calls[i] \in Call /\ Calls[i].then \in Then
    <3>1. Calls[i] \in Call
      BY <1>0
    <3> QED  BY <3>1 DEF Call
  <2>2. Calls[i].then.note \in Notes /\ Calls[i].then.edit \in Nat
    BY <2>1 DEF Saves, Then
  <2>3. Calls[i].then.edit > done'[Calls[i].then.note] =>
          Calls[i].then.edit > done[Calls[i].then.note]
    BY <2>2, <1>0
  <2> QED  BY <2>3 DEF EditsInv, SavingIsKept
<1>4. OnePass'
  BY DEF EditsInv, OnePass
<1> QED  BY <1>1, <1>2, <1>3, <1>4

\* Nothing of the queue changes, but perhaps the restore begins.
LEMMA EditsFrame ==
  ASSUME NotesInv, NotesInv', EditsInv, Quiet',
         UNCHANGED <<store, disk, gated, writes, pass, worker, latest, done, saved, edits>>,
         phase' = phase \/ (phase = "off" /\ phase' = "reading")
  PROVE  EditsInv'
<1>1. Calls' = Calls /\ Restoring' = Restoring /\ Queue' = Queue /\ Newest' = Newest
  BY DEF Calls, Restoring, Queue, Newest
<1>2. Stored' /\ SavedIsKept' /\ SavingIsKept' /\ OnePass'
  <2>1. done \in [Notes -> Nat]
    BY DEF NotesInv, TypeOK
  <2> QED  BY <1>1, <2>1, SettlingKeeps
<1>3. Untouched' /\ Counted' /\ Unsettled' /\ Working' /\ Mirrored'
  BY <1>1 DEF EditsInv, Untouched, Counted, Unsettled, Working, Mirrored
<1> QED  BY <1>2, <1>3 DEF EditsInv

\* Workers go on, end, or take up what is in the queue.
LEMMA EditsWorkers ==
  ASSUME NotesInv, NotesInv', EditsInv,
         UNCHANGED <<phase, store, disk, gated, writes, latest, done, saved, edits>>, Quiet',
         \/ pass' = pass
         \/ /\ phase = "ready" /\ pass = "none" /\ pass' = "body"
            /\ \A n \in Notes : worker[n] = Idle,
         \A n \in Notes :
           \/ worker'[n] = Idle
           \/ worker[n] # Idle /\ worker'[n].entry \in {worker[n].entry, store[n]}
           \/ pass' = "body" /\ store[n] # None /\ worker'[n].entry = store[n]
  PROVE  EditsInv'
<1>0. store \in Outbox
  BY DEF NotesInv, TypeOK
<1>1. Calls' = Calls /\ Restoring' = Restoring /\ Queue' = Queue /\ Newest' = Newest
  BY DEF Calls, Restoring, Queue, Newest
<1>2. Stored' /\ SavedIsKept' /\ SavingIsKept' /\ OnePass'
  <2>1. done \in [Notes -> Nat]
    BY DEF NotesInv, TypeOK
  <2> QED  BY <1>1, <2>1, SettlingKeeps
<1>3. Untouched' /\ Counted' /\ Unsettled'
  BY <1>1 DEF EditsInv, Untouched, Counted, Unsettled
<1>4. Mirrored'
  BY <1>1 DEF EditsInv, Mirrored
<1>5. Working'
  <2>1. ASSUME NEW n \in Notes, worker'[n] # Idle
        PROVE  pass' = "body" /\ store[n] # None /\ Follows(worker'[n].entry, store[n])
    <3>1. store[n] # None => Follows(store[n], store[n])
      BY <1>0 DEF Follows, Outbox, Entry
    <3> QED  BY <2>1, <3>1 DEF EditsInv, Working
  <2> QED  BY <2>1 DEF EditsInv, Working
<1> QED  BY <1>2, <1>3, <1>4, <1>5 DEF EditsInv

\* The queue as it becomes is flushed.
LEMMA EditsFlush ==
  ASSUME NotesInv, NotesInv', EditsInv, NEW then \in Then, Flush(store', then),
         UNCHANGED <<phase, disk, saved>>,
         Restoring => MaxCrashes = 0,
         Counted', Unsettled', Working',
         \A n \in Notes : done[n] <= done'[n] /\ latest[n] <= latest'[n],
         edits <= edits',
         Saves(then) => then.edit <= latest'[then.note],
         IF then.type = "pass" THEN pass = "body" /\ pass' = "flushing" ELSE pass' = pass
  PROVE  EditsInv'
<1> DEFINE call == [queue |-> store', then |-> then]
<1>0. /\ Calls \in Seq(Call) /\ edits \in Nat /\ edits' \in Nat
      /\ disk \in Outbox /\ store' \in Outbox /\ saved \in [Notes -> Nat]
      /\ done \in [Notes -> Nat] /\ latest \in [Notes -> Nat]
      /\ done' \in [Notes -> Nat] /\ latest' \in [Notes -> Nat]
  BY CallsTypes DEF NotesInv, TypeOK
<1>1. call \in Call /\ call.queue = store' /\ call.then = then
  BY <1>0 DEF Call
<1>2. Calls' = Append(Calls, call)
  BY DEF Calls, Flush
<1> HIDE DEF call
<1>3. /\ Len(Calls) \in Nat /\ Len(Calls') = Len(Calls) + 1 /\ Calls' # <<>>
      /\ \A i \in 1..Len(Calls) : Calls'[i] = Calls[i] /\ Calls[i] \in Call
      /\ Calls'[Len(Calls) + 1] = call
  <2>1. /\ Len(Append(Calls, call)) = Len(Calls) + 1 /\ Append(Calls, call) # <<>>
        /\ Len(Calls) \in Nat
        /\ \A i \in 1..Len(Calls) : Append(Calls, call)[i] = Calls[i] /\ Calls[i] \in Call
        /\ Append(Calls, call)[Len(Calls) + 1] = call
    BY <1>0, <1>1, Appended
  <2> QED  BY <1>2, <2>1
<1>4. \A i \in 1..Len(Calls') : i \in 1..Len(Calls) \/ i = Len(Calls) + 1
  BY <1>3
<1>5. Queue' = store'
  BY DEF Queue, Restoring
<1>6. \A n \in Notes, e \in Nat : e > done'[n] /\ e <= latest'[n] => Has(store', n, e)
  BY <1>0, <1>5 DEF Unsettled, Has
<1>7. \A n \in Notes, e \in Nat : e > done'[n] => e > done[n]
  BY <1>0
<1>8. Untouched' /\ Quiet'
  BY DEF EditsInv, Untouched, Quiet, Restoring
<1>9. Stored'
  <2>1. \A q \in Outbox : Made(q, edits) => Made(q, edits')
    BY <1>0 DEF Made, Outbox, Entry
  <2>2. Made(store', edits')
    BY <1>0, <1>5 DEF Made, Counted, Unsettled
  <2>3. \A i \in 1..Len(Calls) : Calls[i].queue \in Outbox
    BY <1>3 DEF Call
  <2> QED  BY <2>1, <2>2, <2>3, <1>0, <1>1, <1>3, <1>4 DEF EditsInv, Stored
<1>10. SavedIsKept'
  BY <1>0, <1>1, <1>3, <1>4, <1>6, <1>7 DEF EditsInv, SavedIsKept, Counted
<1>11. SavingIsKept'
  <2> SUFFICES ASSUME NEW i \in 1..Len(Calls'), Saves(Calls'[i].then)
               PROVE  /\ Calls'[i].then.edit <= latest'[Calls'[i].then.note]
                      /\ Calls'[i].then.edit > done'[Calls'[i].then.note] =>
                           \A j \in i..Len(Calls') :
                             Has(Calls'[j].queue, Calls'[i].then.note, Calls'[i].then.edit)
    BY DEF SavingIsKept
  <2>1. Calls'[i] \in Call /\ Calls'[i].then \in Then
    <3>1. Calls'[i] \in Call
      BY <1>1, <1>3, <1>4
    <3> QED  BY <3>1 DEF Call
  <2>2. Calls'[i].then.note \in Notes /\ Calls'[i].then.edit \in Nat
    BY <2>1 DEF Saves, Then
  <2>3. Calls'[i].then.edit <= latest'[Calls'[i].then.note]
    <3>1. CASE i \in 1..Len(Calls)
      <4>1. Calls'[i].then.edit <= latest[Calls'[i].then.note]
        BY <3>1, <1>3 DEF EditsInv, SavingIsKept
      <4> QED  BY <4>1, <2>2, <1>0
    <3> QED  BY <3>1, <1>1, <1>3, <1>4
  <2>4. ASSUME Calls'[i].then.edit > done'[Calls'[i].then.note], NEW j \in i..Len(Calls')
        PROVE  Has(Calls'[j].queue, Calls'[i].then.note, Calls'[i].then.edit)
    <3>1. CASE j = Len(Calls) + 1
      BY <3>1, <2>2, <2>3, <2>4, <1>1, <1>3, <1>6
    <3>2. CASE j # Len(Calls) + 1
      <4>1. i \in 1..Len(Calls) /\ j \in i..Len(Calls) /\ j \in 1..Len(Calls)
        BY <3>2, <1>3
      <4>2. Calls[i].then.edit > done[Calls[i].then.note]
        BY <4>1, <2>2, <2>4, <1>3, <1>7
      <4>3. Has(Calls[j].queue, Calls[i].then.note, Calls[i].then.edit)
        BY <4>1, <4>2, <1>3 DEF EditsInv, SavingIsKept
      <4> QED  BY <4>1, <4>3, <1>3
    <3> QED  BY <3>1, <3>2
  <2> QED  BY <2>3, <2>4
<1>12. Mirrored'
  BY <1>1, <1>3 DEF Mirrored, Newest
<1>13. OnePass'
  <2>1. CASE then.type = "pass"
    <3>1. \A i \in 1..Len(Calls) : Calls[i].then.type # "pass"
      BY <2>1 DEF EditsInv, OnePass
    <3> QED  BY <2>1, <3>1, <1>3, <1>4 DEF OnePass
  <2>2. CASE then.type # "pass"
    BY <2>2, <1>1, <1>3, <1>4 DEF EditsInv, OnePass
  <2> QED  BY <2>1, <2>2
<1> QED  BY <1>8, <1>9, <1>10, <1>11, <1>12, <1>13 DEF EditsInv
-----------------------------------------------------------------------------
(* The restore and the passes. *)

\* The restore begins.
LEMMA SyncHostMountsEdits ==
  ASSUME NotesInv, NotesInv', EditsInv, Sync(SyncHostMounts)
  PROVE  EditsInv'
<1>1. Quiet'
  BY DEF Sync, SyncHostMounts, Start, EditsInv, Quiet, Restoring
<1> QED  BY <1>1, EditsFrame DEF Sync, SyncHostMounts, Start

\* The restore's end issues the flushes it held back.
LEMMA CallsIssued ==
  ASSUME NotesInv, NEW found, FinishRestore(found), phase # "ready"
  PROVE  Calls' = Calls
<1>1. writes = <<>> /\ gated \in Seq(Call)
  BY CallTypes DEF NotesInv, ControlInv, CallsInv
<1> QED  BY <1>1, ConcatEmpty DEF FinishRestore, Calls

\* Once the row is read the store is the queue.
LEMMA RestoreReadsEdits ==
  ASSUME NotesInv, NotesInv', EditsInv, Sync(RestoreReads)
  PROVE  EditsInv'
<1> USE DEF Sync, RestoreReads, Hydrate
<1>0. /\ store \in Outbox /\ disk \in Outbox /\ done \in [Notes -> Nat]
      /\ phase = "reading" /\ Restoring /\ pass = "none" /\ pass' = "none"
      /\ disk' = disk /\ worker' = worker
  BY DEF NotesInv, TypeOK, EditsInv, Working, Restoring
<1>1. Calls' = Calls
  <2>1. CASE phase' = "reconciling"
    BY <2>1, <1>0 DEF Calls, FinishRestore
  <2>2. CASE phase' # "reconciling"
    BY <2>2, <1>0, CallsIssued
  <2> QED  BY <2>1, <2>2
<1>2. Stored' /\ SavedIsKept' /\ SavingIsKept' /\ OnePass'
  BY <1>0, <1>1, SettlingKeeps
<1>3. store' = Queue /\ Queue' = Queue
  <2>1. CASE MaxCrashes = 0
    BY <2>1, <1>0, NotesSyncAssumption DEF EditsInv, Untouched, Queue, FinishRestore
  <2>2. CASE MaxCrashes # 0
    <3>1. store = EmptyOutbox /\ Queue = disk
      BY <2>2, <1>0 DEF EditsInv, Untouched, Queue
    <3>2. MergeInflight(EmptyOutbox, disk) = disk
      BY <1>0 DEF MergeInflight, EmptyOutbox, Outbox
    <3>3. store' = disk
      BY <3>1, <3>2, NotesSyncAssumption
    <3>4. ~Restoring'
      BY <1>0 DEF Restoring, FinishRestore
    <3> QED  BY <3>1, <3>3, <3>4 DEF Queue
  <2> QED  BY <2>1, <2>2
<1>4. Counted' /\ Unsettled'
  BY <1>3 DEF EditsInv, Counted, Unsettled
<1>5. Untouched' /\ Quiet'
  BY <1>0, NotesSyncAssumption
  DEF EditsInv, Untouched, Quiet, Restoring, FinishRestore
<1>6. Working'
  BY <1>0 DEF EditsInv, Working
<1>7. Mirrored'
  <2>1. CASE MaxCrashes = 0
    <3>1. store' = store
      BY <2>1, <1>0, <1>3 DEF Queue
    <3> QED  BY <3>1, <1>0, <1>1 DEF EditsInv, Mirrored, Newest
  <2> QED  BY <2>1 DEF Mirrored
<1> QED  BY <1>2, <1>4, <1>5, <1>6, <1>7 DEF EditsInv

\* What the reconciliation drops is settled.
LEMMA RestoreReconcilesEdits ==
  ASSUME NotesInv, NotesInv', EditsInv, Sync(RestoreReconciles)
  PROVE  EditsInv'
<1> USE DEF Sync, RestoreReconciles, Reconcile
<1>0. /\ store \in Outbox /\ done \in [Notes -> Nat] /\ latest \in [Notes -> Nat]
      /\ phase = "reconciling" /\ phase' = "ready" /\ pass = "none" /\ MaxCrashes # 0
      /\ UNCHANGED <<pass, disk, worker, latest, saved, edits>>
      /\ done' = [n \in Notes |-> IF store[n] # None /\ store'[n] = None
                                   THEN Later(done[n], store[n].edit) ELSE done[n]]
  BY DEF NotesInv, TypeOK, EditsInv, Working, Untouched, FinishRestore
<1>1. Calls' = Calls
  BY <1>0, CallsIssued
<1>2. \A n \in Notes : store'[n] \in {None, store[n]}
  BY DEF ReconcileOutbox
<1>3. Queue = store /\ Queue' = store'
  BY <1>0 DEF Queue, Restoring
<1>4. ASSUME NEW n \in Notes
      PROVE  /\ done[n] <= done'[n] /\ done'[n] <= latest[n]
             /\ IF latest[n] > done'[n]
                  THEN store'[n] # None /\ store'[n].edit = latest[n]
                  ELSE store'[n] = None
  <2>1. store[n] # None => store[n].edit \in Nat
    BY <1>0 DEF Outbox, Entry
  <2>2. done[n] \in Nat /\ latest[n] \in Nat /\ done[n] <= latest[n]
    BY <1>0 DEF EditsInv, Counted
  <2>3. IF latest[n] > done[n] THEN store[n] # None /\ store[n].edit = latest[n]
                               ELSE store[n] = None
    BY <1>3 DEF EditsInv, Unsettled
  <2>4. done'[n] = IF store[n] # None /\ store'[n] = None
                     THEN Later(done[n], store[n].edit) ELSE done[n]
    BY <1>0
  <2> QED  BY <2>1, <2>2, <2>3, <2>4, <1>2 DEF Later
<1>5. Stored' /\ SavedIsKept' /\ SavingIsKept' /\ OnePass'
  BY <1>0, <1>1, <1>4, SettlingKeeps
<1>6. Counted' /\ Unsettled'
  BY <1>0, <1>3, <1>4 DEF EditsInv, Counted, Unsettled
<1>7. Untouched' /\ Quiet' /\ Mirrored'
  BY <1>0 DEF EditsInv, Untouched, Quiet, Restoring, Mirrored
<1>8. Working'
  BY <1>0 DEF EditsInv, Working
<1> QED  BY <1>5, <1>6, <1>7, <1>8 DEF EditsInv

\* The restore goes on without the list.
LEMMA ReconcileFailsEdits ==
  ASSUME NotesInv, NotesInv', EditsInv, Sync(ReconcileFails)
  PROVE  EditsInv'
<1> USE DEF Sync, ReconcileFails, Reconcile
<1>0. /\ done \in [Notes -> Nat]
      /\ phase = "reconciling" /\ phase' = "ready" /\ pass = "none" /\ MaxCrashes # 0
      /\ UNCHANGED <<store, pass, disk, worker, latest, done, saved, edits>>
  BY DEF NotesInv, TypeOK, EditsInv, Working, Untouched, FinishRestore
<1>1. Calls' = Calls
  BY <1>0, CallsIssued
<1>2. Stored' /\ SavedIsKept' /\ SavingIsKept' /\ OnePass'
  BY <1>0, <1>1, SettlingKeeps
<1>3. Queue' = Queue
  BY <1>0 DEF Queue, Restoring
<1>4. Counted' /\ Unsettled' /\ Untouched' /\ Quiet' /\ Mirrored' /\ Working'
  BY <1>0, <1>3
  DEF EditsInv, Counted, Unsettled, Untouched, Quiet, Restoring, Mirrored, Working
<1> QED  BY <1>2, <1>4 DEF EditsInv

\* A pass with nothing to push.
LEMMA PassFindsNothingEdits ==
  ASSUME NotesInv, NotesInv', EditsInv, Sync(PassFindsNothing)
  PROVE  EditsInv'
<1> USE DEF Sync, PassFindsNothing
<1>1. Quiet'
  BY DEF EditsInv, Quiet, Restoring
<1> QED  BY <1>1, EditsFrame

\* A pass takes the notes' entries.
LEMMA PassBeginsEdits ==
  ASSUME NotesInv, NotesInv', EditsInv, Sync(PassBegins)
  PROVE  EditsInv'
<1> USE DEF Sync, PassBegins
<1>1. phase = "ready" /\ Quiet' /\ \A n \in Notes : worker[n] = Idle
  BY DEF MutexFree, EditsInv, Working, Quiet, Restoring
<1>2. ASSUME NEW n \in Notes
      PROVE  \/ worker'[n] = Idle
             \/ store[n] # None /\ worker'[n].entry = store[n]
  BY DEF HasEntries, Peeking, Pushing
<1> QED  BY <1>1, <1>2, EditsWorkers DEF MutexFree

\* A pass flushes what it leaves.
LEMMA PassFlushesEdits ==
  ASSUME NotesInv, NotesInv', EditsInv, Sync(PassFlushes)
  PROVE  EditsInv'
<1> USE DEF Sync, PassFlushes
<1>0. /\ done \in [Notes -> Nat] /\ latest \in [Notes -> Nat] /\ edits \in Nat
      /\ phase = "ready" /\ \A n \in Notes : worker[n] = Idle
  BY DEF NotesInv, TypeOK, EditsInv, Working, IsSettled
<1>1. [type |-> "pass"] \in Then /\ ~Saves([type |-> "pass"])
  BY DEF Then, Saves
<1>2. Counted' /\ Unsettled' /\ Working'
  BY <1>0 DEF EditsInv, Counted, Unsettled, Working, Queue, Restoring
<1>3. Flush(store', [type |-> "pass"])
  OBVIOUS
<1> QED  BY <1>0, <1>1, <1>2, <1>3, EditsFlush DEF Restoring

\* The server answers a peek.
LEMMA PeekAnsweredEdits ==
  ASSUME NotesInv, NotesInv', EditsInv, NEW n \in Notes, Sync(PeekAnswered(n))
  PROVE  EditsInv'
<1> USE DEF Sync, PeekAnswered
<1>0. worker \in [Notes -> WorkerStates]
  BY DEF NotesInv, TypeOK
<1>1. worker[n] # Idle /\ worker'[n].entry = worker[n].entry
      /\ \A m \in Notes : m # n => worker'[m] = worker[m]
  BY <1>0 DEF Idle
<1>2. Quiet'
  BY <1>1 DEF EditsInv, Working, Quiet, Restoring
<1> QED  BY <1>1, <1>2, EditsWorkers

\* A worker goes on after its peek with the newest entry.
LEMMA PeekHandledEdits ==
  ASSUME NotesInv, NotesInv', EditsInv, NEW n \in Notes, PeekHandled(n)
  PROVE  EditsInv'
<1> USE DEF PeekHandled, PeekReturns
<1>0. worker \in [Notes -> WorkerStates]
  BY DEF NotesInv, TypeOK
<1>1. worker[n] # Idle
      /\ \A m \in Notes : m # n => worker'[m] = worker[m]
  BY <1>0 DEF Idle
<1>2. Quiet' /\ store[n] # None
  BY <1>1 DEF EditsInv, Working, Quiet, Restoring
<1>3. worker'[n] = Idle \/ worker'[n].entry = store[n]
  BY <1>0 DEF Pushing
<1> QED  BY <1>1, <1>2, <1>3, EditsWorkers

\* A push lands, or fails: its worker's entry is the same or let go.
LEMMA PushLandsEdits ==
  ASSUME NotesInv, NotesInv', EditsInv, NEW n \in Notes,
         Lands(n) \/ Sync(PushFails(n))
  PROVE  EditsInv'
<1> USE DEF Sync, Lands, PushLands, PushFails
<1>0. worker \in [Notes -> WorkerStates]
  BY DEF NotesInv, TypeOK
<1>1. worker[n] # Idle
      /\ \A m \in Notes : m # n => worker'[m] = worker[m]
  BY <1>0 DEF Idle
<1>2. Quiet'
  BY <1>1 DEF EditsInv, Working, Quiet, Restoring
<1>3. worker'[n] = Idle \/ worker'[n].entry = worker[n].entry
  <2>1. CASE worker[n].stage = "pushing" /\ worker'[n] = [worker[n] EXCEPT !.stage = "landed"]
    <3>1. worker[n] \in [stage : {"pushing", "landed"}, entry : Entry,
                         seen : Texts \cup {Unknown, Unreadable}, over : BOOLEAN]
      BY <2>1, <1>0 DEF WorkerStates, Idle
    <3> QED  BY <2>1, <3>1
  <2> QED  BY <2>1, <1>0
<1> QED  BY <1>1, <1>2, <1>3, EditsWorkers

\* What was pushed is settled; what was typed since is not.
LEMMA PushReturnsEdits ==
  ASSUME NotesInv, NotesInv', EditsInv, NEW n \in Notes, Sync(PushReturns(n))
  PROVE  EditsInv'
<1> USE DEF Sync, PushReturns
<1> DEFINE e == worker[n].entry
<1>0. /\ store \in Outbox /\ done \in [Notes -> Nat] /\ latest \in [Notes -> Nat]
      /\ worker \in [Notes -> WorkerStates] /\ e \in Entry
  BY WorkerTypes DEF NotesInv, TypeOK
<1>1. worker[n] # Idle
  BY DEF Idle
<1>2. /\ phase = "ready" /\ pass = "body" /\ store[n] # None /\ Follows(e, store[n])
      /\ Queue = store /\ Queue' = store' /\ Calls' = Calls
  BY <1>1 DEF EditsInv, Working, Queue, Restoring, Calls
<1>3. /\ store[n] \in Entry /\ latest[n] \in Nat /\ done[n] \in Nat
      /\ latest[n] > done[n] /\ store[n].edit = latest[n]
  BY <1>0, <1>2 DEF EditsInv, Unsettled, Outbox
<1>4. /\ done'[n] = Later(done[n], e.edit) /\ store'[n] = PruneAndRebase(store[n], e.at, e.text)
      /\ \A m \in Notes : m # n => /\ done'[m] = done[m] /\ store'[m] = store[m]
                                   /\ worker'[m] = worker[m]
      /\ worker'[n] = Idle
  BY <1>0 DEF Settled, Outbox
<1>5. /\ done[n] <= done'[n] /\ done'[n] <= latest[n]
      /\ IF latest[n] > done'[n]
           THEN store'[n] # None /\ store'[n].edit = latest[n]
           ELSE store'[n] = None
  <2>1. e.at \in Nat /\ e.edit \in Nat /\ store[n].at \in Nat
    BY <1>0, <1>3 DEF Entry
  <2>2. CASE store[n].at <= e.at
    <3>1. e.edit = latest[n]
      BY <2>1, <2>2, <1>2, <1>3 DEF Follows
    <3>2. store'[n] = None
      BY <2>2, <1>2, <1>4 DEF PruneAndRebase
    <3> QED  BY <3>1, <3>2, <1>3, <1>4 DEF Later
  <2>3. CASE ~(store[n].at <= e.at)
    <3>1. e.edit < latest[n]
      BY <2>1, <2>3, <1>2, <1>3 DEF Follows
    <3>2. store'[n] = [store[n] EXCEPT !.base = e.text]
      BY <2>3, <1>2, <1>4 DEF PruneAndRebase
    <3>3. store'[n] # None /\ store'[n].edit = latest[n]
      <4>1. store'[n] \in Entry
        BY <3>2, <1>0, <1>3 DEF Entry
      <4> QED  BY <3>2, <4>1, <1>3, NotesOutboxAssumption DEF Entry
    <3> QED  BY <3>1, <3>3, <2>1, <1>3, <1>4 DEF Later
  <2> QED  BY <2>2, <2>3
<1>6. \A m \in Notes : done[m] <= done'[m]
  BY <1>0, <1>4, <1>5
<1>7. Stored' /\ SavedIsKept' /\ SavingIsKept' /\ OnePass'
  BY <1>2, <1>6, SettlingKeeps
<1>8. Counted' /\ Unsettled'
  BY <1>2, <1>4, <1>5 DEF EditsInv, Counted, Unsettled
<1>9. Working'
  BY <1>2, <1>4 DEF EditsInv, Working
<1>10. Untouched' /\ Quiet' /\ Mirrored'
  BY <1>2 DEF EditsInv, Untouched, Quiet, Restoring, Mirrored
<1> QED  BY <1>7, <1>8, <1>9, <1>10 DEF EditsInv

\* The note's last strike gives all of it up.
LEMMA PushRejectedEdits ==
  ASSUME NotesInv, NotesInv', EditsInv, NEW n \in Notes, Sync(PushRejected(n))
  PROVE  EditsInv'
<1> USE DEF Sync, PushRejected
<1>0. /\ store \in Outbox /\ done \in [Notes -> Nat] /\ latest \in [Notes -> Nat]
      /\ worker \in [Notes -> WorkerStates]
      /\ \A m \in Notes : done[m] <= latest[m]
  BY DEF NotesInv, TypeOK, EditsInv, Counted
<1>1. worker[n] # Idle
  BY DEF Idle
<1>2. /\ phase = "ready" /\ pass = "body"
      /\ Queue = store /\ Queue' = store' /\ Calls' = Calls
  BY <1>1 DEF EditsInv, Working, Queue, Restoring, Calls
<1>3. worker'[n] = Idle /\ \A m \in Notes : m # n => worker'[m] = worker[m]
  BY <1>0
<1>4. \/ UNCHANGED <<store, done>>
      \/ /\ done'[n] = latest[n] /\ store'[n] = None
         /\ \A m \in Notes : m # n => done'[m] = done[m] /\ store'[m] = store[m]
  BY <1>0 DEF Settled, Later, Outbox
<1>5. \A m \in Notes : done[m] <= done'[m] /\ done'[m] <= latest[m]
  BY <1>0, <1>4
<1>6. Stored' /\ SavedIsKept' /\ SavingIsKept' /\ OnePass'
  BY <1>2, <1>5, SettlingKeeps
<1>7. Counted' /\ Unsettled'
  BY <1>0, <1>2, <1>4, <1>5 DEF EditsInv, Counted, Unsettled
<1>8. Working'
  BY <1>2, <1>3, <1>4 DEF EditsInv, Working
<1>9. Untouched' /\ Quiet' /\ Mirrored'
  BY <1>2 DEF EditsInv, Untouched, Quiet, Restoring, Mirrored
<1> QED  BY <1>6, <1>7, <1>8, <1>9 DEF EditsInv

\* The timers.
LEMMA TimersEdits ==
  ASSUME NotesInv, NotesInv', EditsInv, Sync(DebounceFires) \/ Sync(RetryFires)
  PROVE  EditsInv'
<1> USE DEF Sync, DebounceFires, RetryFires, ExecuteNow
<1>1. Quiet'
  BY DEF EditsInv, Quiet, Restoring
<1> QED  BY <1>1, EditsFrame
-----------------------------------------------------------------------------
(* The editor's user and the answers. *)

\* A keystroke on an entry supersedes what followed it before.
LEMMA Supersedes ==
  ASSUME NEW e \in Entry, NEW f \in Entry, Follows(e, f), NEW k \in Nat \ {0}, f.edit < k,
         NEW t, NEW m \in Nat, NEW b
  PROVE  Follows(e, BuildEntry(f, k, t, m, b))
<1>1. /\ BuildEntry(f, k, t, m, b).edit = k
      /\ BuildEntry(f, k, t, m, b).at = Later(m, f.at + 1)
  BY NotesOutboxAssumption DEF BuildEntry
<1>2. e.at \in Nat /\ e.edit \in Nat /\ f.at \in Nat /\ f.edit \in Nat
  BY DEF Entry
<1> QED  BY <1>1, <1>2 DEF Follows, Later

\* A keystroke is the note's newest edit.
LEMMA TypeEdits ==
  ASSUME NotesInv, NotesInv', EditsInv, Undisturbed, NEW n \in Notes, Type(n)
  PROVE  EditsInv'
<1> USE DEF Type
<1>0. /\ store \in Outbox /\ done \in [Notes -> Nat] /\ latest \in [Notes -> Nat]
      /\ edits \in Nat /\ now \in Nat /\ cache \in [Notes -> Texts]
      /\ worker \in [Notes -> WorkerStates]
      /\ latest' = [latest EXCEPT ![n] = edits + 1] /\ edits' = edits + 1
      /\ UNCHANGED <<phase, disk, pass, worker, done, saved>>
  BY DEF NotesInv, TypeOK
<1>1. Restoring => MaxCrashes = 0
  BY DEF Undisturbed, Restoring
<1>2. Queue = store /\ Queue' = store'
  BY <1>0, <1>1 DEF Queue, Restoring
<1>3. PICK text \in Texts :
        store' = [store EXCEPT ![n] = BuildEntry(@, edits + 1, text, now + 1, cache[n])]
  OBVIOUS
<1> DEFINE built == BuildEntry(store[n], edits + 1, text, now + 1, cache[n])
<1>4. /\ store'[n] = built /\ built \in Entry /\ built # None /\ built.edit = edits + 1
      /\ \A m \in Notes : m # n => store'[m] = store[m]
  <2>1. store[n] \in Entry \cup {None} /\ edits + 1 \in Nat \ {0} /\ now + 1 \in Nat
        /\ cache[n] \in Texts \cup {NoBase}
    BY <1>0 DEF Outbox
  <2>2. built \in Entry
    BY <2>1, BuiltEntry
  <2>3. built.edit = edits + 1
    BY DEF BuildEntry
  <2> QED  BY <2>2, <2>3, <1>0, <1>3, NotesOutboxAssumption DEF Outbox
<1>5. \A m \in Notes : latest[m] <= latest'[m] /\ latest'[m] <= edits + 1
                       /\ done[m] <= latest[m] /\ saved[m] <= latest[m]
                       /\ (m # n => latest'[m] = latest[m])
  BY <1>0 DEF EditsInv, Counted
<1>6. latest'[n] = edits + 1 /\ done[n] <= edits /\ saved[n] \in Nat
  BY <1>0 DEF EditsInv, Counted, NotesInv, TypeOK
<1> HIDE DEF built
<1>7. Counted'
  BY <1>0, <1>5, <1>6 DEF Counted, NotesInv, TypeOK
<1>8. Unsettled'
  BY <1>0, <1>2, <1>4, <1>5, <1>6 DEF EditsInv, Unsettled
<1>9. Working'
  <2>1. ASSUME worker[n] # Idle
        PROVE  Follows(worker[n].entry, store'[n])
    <3>1. /\ store[n] # None /\ store[n] \in Entry /\ worker[n].entry \in Entry
          /\ Follows(worker[n].entry, store[n])
      BY <1>0, <2>1 DEF EditsInv, Working, Outbox, WorkerStates, Idle
    <3>2. store[n].edit < edits + 1
      BY <3>1, <1>0, <1>2 DEF EditsInv, Unsettled, Counted
    <3>3. Follows(worker[n].entry, built)
      BY <3>1, <3>2, <1>0, Supersedes DEF built
    <3> QED  BY <3>3, <1>4
  <2> QED  BY <2>1, <1>0, <1>4 DEF EditsInv, Working
<1> DEFINE then == [type |-> "typed", note |-> n, edit |-> edits + 1]
<1>10. then \in Then /\ Flush(store', then) /\ then.edit <= latest'[then.note]
       /\ then.type # "pass"
  BY <1>0, <1>6 DEF Then
<1> HIDE DEF then
<1>11. edits <= edits' /\ \A m \in Notes : done[m] <= done'[m] /\ latest[m] <= latest'[m]
  BY <1>0, <1>5
<1> HIDE DEF Type
<1> QED  BY <1>0, <1>1, <1>7, <1>8, <1>9, <1>10, <1>11, EditsFlush

\* An answer gives a note's edits up.
LEMMA DiscardEdits ==
  ASSUME NotesInv, NotesInv', EditsInv, NEW n \in Notes, Discard(n),
         Restoring => MaxCrashes = 0,
         IsSettled(n) \/ store[n] = None,
         UNCHANGED <<phase, disk, pass, worker, latest, saved, edits>>
  PROVE  EditsInv'
<1> USE DEF Discard
<1>0. /\ store \in Outbox /\ done \in [Notes -> Nat] /\ latest \in [Notes -> Nat]
      /\ edits \in Nat
      /\ \A m \in Notes : done[m] <= latest[m]
  BY DEF NotesInv, TypeOK, EditsInv, Counted
<1>1. /\ done'[n] = latest[n] /\ store'[n] = None
      /\ \A m \in Notes : m # n => done'[m] = done[m] /\ store'[m] = store[m]
  BY <1>0 DEF Settled, Later, Outbox
<1>2. \A m \in Notes : done[m] <= done'[m] /\ done'[m] <= latest[m]
  BY <1>0, <1>1
<1>3. Queue = store /\ Queue' = store'
  BY DEF Queue, Restoring
<1>4. Counted' /\ Unsettled'
  BY <1>0, <1>1, <1>2, <1>3 DEF EditsInv, Counted, Unsettled
<1>5. Working'
  <2>1. worker[n] = Idle
    BY DEF IsSettled, EditsInv, Working
  <2> QED  BY <2>1, <1>1 DEF EditsInv, Working
<1> DEFINE then == [type |-> "discarded", note |-> n]
<1>6. then \in Then /\ ~Saves(then) /\ then.type # "pass" /\ Flush(store', then)
  BY DEF Then, Saves
<1> HIDE DEF then
<1>7. edits <= edits' /\ \A m \in Notes : latest[m] <= latest'[m]
  BY <1>0
<1> HIDE DEF Discard
<1> QED  BY <1>2, <1>4, <1>5, <1>6, <1>7, EditsFlush

\* An answer under way while the row is being read asks nothing.
LEMMA AnswersLater ==
  ASSUME EditsInv, NEW n \in Notes, task[n] \notin {"idle", "settling", "reading"}
  PROVE  Restoring => MaxCrashes = 0
BY DEF EditsInv, Quiet

\* The first steps of an answer.
LEMMA AnswerRemoteContentEdits ==
  ASSUME NotesInv, NotesInv', EditsInv, NEW n \in Notes, NEW content,
         AnswerRemoteContent(n, content),
         Restoring /\ MaxCrashes # 0 => content # Unreadable,
         \A m \in Notes : inbox'[m] \in {inbox[m], None},
         UNCHANGED <<phase, disk, pass, worker, latest, saved, edits>>
  PROVE  EditsInv'
<1>0. task \in [Notes -> Tasks]
  BY DEF NotesInv, TypeOK
<1>1. CASE /\ task' = [task EXCEPT ![n] = "idle"]
           /\ UNCHANGED <<store, gated, writes, done>>
  <2>1. Quiet'
    BY <1>0, <1>1, NotesSyncAssumption DEF EditsInv, Quiet, Restoring
  <2> QED  BY <1>1, <2>1, EditsFrame
<1>2. CASE store[n] = None /\ content = Unreadable /\ Discard(n)
  BY <1>2, DiscardEdits
<1>3. CASE store[n] # None /\ UNCHANGED <<store, gated, writes, done>>
  <2>1. Quiet'
    <3>1. Restoring => MaxCrashes = 0
      BY <1>3 DEF EditsInv, Untouched, EmptyOutbox
    <3> QED  BY <3>1 DEF Quiet, Restoring
  <2> QED  BY <1>3, <2>1, EditsFrame
<1> QED  BY <1>1, <1>2, <1>3 DEF AnswerRemoteContent, EndTask

\* The queue of events, and the owed read, come to a content.
LEMMA AnswerEventEdits ==
  ASSUME NotesInv, NotesInv', EditsInv, NEW n \in Notes, AnswerEvent(n) \/ RereadFinds(n)
  PROVE  EditsInv'
<1>0. inbox \in [Notes -> Texts \cup {None, Unreadable}] /\ cloud \in [Notes -> Contents]
  BY DEF NotesInv, TypeOK
<1>1. CASE AnswerEvent(n)
  BY <1>0, <1>1, AnswerRemoteContentEdits DEF AnswerEvent, EditsInv, Quiet
<1>2. CASE RereadFinds(n)
  <2>1. cloud[n] # Unreadable
    BY <1>0, <1>2, NotesSyncAssumption DEF RereadFinds, Contents
  <2> QED  BY <2>1, <1>2, AnswerRemoteContentEdits DEF RereadFinds
<1> QED  BY <1>1, <1>2

\* Load theirs.
LEMMA LoadTheirsEdits ==
  ASSUME NotesInv, NotesInv', EditsInv, NEW n \in Notes, LoadTheirs(n)
  PROVE  EditsInv'
<1>1. Restoring => MaxCrashes = 0
  BY AnswersLater DEF LoadTheirs
<1> QED  BY <1>1, DiscardEdits DEF LoadTheirs

\* What is kept gets a base.
LEMMA TheirBaseTypes ==
  ASSUME NotesInv, NEW n \in Notes, KeepMine(n)
  PROVE  TheirBase(n) \in Texts \cup {NoBase}
BY DEF KeepMine, TheirBase, NotesInv, TypeOK, ControlInv, AsksAboutSomething

\* Keep mine leaves the newest edit the newest, or is one.
LEMMA KeepMineEdits ==
  ASSUME NotesInv, NotesInv', EditsInv, NEW n \in Notes, KeepMine(n)
  PROVE  EditsInv'
<1>0. /\ store \in Outbox /\ store' \in Outbox /\ done \in [Notes -> Nat]
      /\ latest \in [Notes -> Nat]
      /\ edits \in Nat /\ worker \in [Notes -> WorkerStates] /\ worker[n] = Idle
      /\ Flush(store', [type |-> "kept", note |-> n, edit |-> store'[n].edit])
      /\ UNCHANGED <<phase, disk, pass, worker, done, saved>>
  BY DEF NotesInv, TypeOK, KeepMine, IsSettled
<1>1. Restoring => MaxCrashes = 0
  BY AnswersLater DEF KeepMine
<1>2. Queue = store /\ Queue' = store'
  BY <1>0, <1>1 DEF Queue, Restoring
<1>3. /\ edits <= edits' /\ done[n] <= edits
      /\ \A m \in Notes : latest[m] <= latest'[m] /\ latest'[m] <= edits'
                          /\ (m # n => latest'[m] = latest[m] /\ store'[m] = store[m])
      /\ latest'[n] > done[n] /\ store'[n] # None /\ store'[n].edit = latest'[n]
  <2>0. /\ \A m \in Notes : latest[m] <= edits /\ done[m] <= latest[m] /\ edits <= edits + 1
                            /\ latest[m] \in Nat /\ done[m] \in Nat
        /\ store[n] # None => latest[n] > done[n] /\ store[n].edit = latest[n]
    BY <1>0, <1>2 DEF EditsInv, Counted, Unsettled
  <2>1. CASE /\ store[n] # None
             /\ store' = [store EXCEPT ![n].base = TheirBase(n)]
             /\ UNCHANGED <<now, edits, latest>>
    <3>1. store'[n] = [store[n] EXCEPT !.base = TheirBase(n)] /\ store[n] \in Entry
          /\ \A m \in Notes : m # n => store'[m] = store[m]
      BY <2>1, <1>0 DEF Outbox
    <3>2. store'[n].edit = store[n].edit /\ store'[n] # None
      <4>1. store'[n].edit = store[n].edit /\ store'[n] = [at |-> store[n].at,
              edit |-> store[n].edit, text |-> store[n].text, base |-> TheirBase(n)]
        BY <3>1 DEF Entry
      <4>2. TheirBase(n) \in Texts \cup {NoBase}
        BY TheirBaseTypes
      <4>3. store'[n] \in Entry
        BY <4>1, <4>2, <3>1 DEF Entry
      <4> QED  BY <4>1, <4>3, NotesOutboxAssumption
    <3>3. latest' = latest /\ edits' = edits /\ latest[n] > done[n]
          /\ store'[n].edit = latest[n]
      BY <2>0, <2>1, <3>2
    <3>4. \A m \in Notes : m # n => store'[m] = store[m]
      BY <3>1
    <3>5. done[n] <= edits /\ store'[n] # None
      BY <1>0, <2>0, <3>2
    <3> QED  BY <1>0, <2>0, <3>3, <3>4, <3>5
  <2>2. CASE /\ store[n] = None
             /\ store' = [store EXCEPT ![n] =
                            BuildEntry(None, edits + 1, cache[n], now + 1, TheirBase(n))]
             /\ edits' = edits + 1
             /\ latest' = [latest EXCEPT ![n] = edits + 1]
    <3>1. store'[n] = [at |-> now + 1, edit |-> edits + 1, text |-> cache[n],
                       base |-> TheirBase(n)]
      BY <2>2, <1>0 DEF BuildEntry, Outbox
    <3>2. store'[n].edit = edits + 1 /\ store'[n] # None
      <4>1. /\ cache[n] \in Texts /\ now + 1 \in Nat /\ edits + 1 \in Nat \ {0}
            /\ TheirBase(n) \in Texts \cup {NoBase}
        <5>1. cache \in [Notes -> Texts] /\ now \in Nat
          BY DEF NotesInv, TypeOK
        <5> QED  BY <1>0, <5>1, TheirBaseTypes
      <4>2. store'[n] \in Entry
        BY <3>1, <4>1 DEF Entry
      <4> QED  BY <3>1, <4>2, NotesOutboxAssumption
    <3> QED  BY <2>0, <2>2, <3>2, <1>0 DEF Outbox
  <2> QED  BY <2>1, <2>2 DEF KeepMine
<1>4. edits' \in Nat /\ latest' \in [Notes -> Nat] /\ saved \in [Notes -> Nat]
  BY DEF NotesInv, TypeOK
<1>5. Counted'
  BY <1>0, <1>3, <1>4 DEF EditsInv, Counted
<1>6. Unsettled'
  BY <1>0, <1>2, <1>3 DEF EditsInv, Unsettled
<1>7. Working'
  BY <1>0, <1>3 DEF EditsInv, Working
<1> DEFINE then == [type |-> "kept", note |-> n, edit |-> store'[n].edit]
<1>8. then \in Then /\ Flush(store', then) /\ then.edit <= latest'[then.note]
      /\ then.type # "pass"
  BY <1>0, <1>3, <1>4 DEF Then
<1> HIDE DEF then
<1> QED  BY <1>0, <1>1, <1>3, <1>5, <1>6, <1>7, <1>8, EditsFlush

\* What else an answer does leaves the queue alone.
LEMMA AnswerStepsEdits ==
  ASSUME NotesInv, NotesInv', EditsInv, NEW n \in Notes, AnswerSteps(n)
  PROVE  EditsInv'
<1>0. task \in [Notes -> Tasks]
  BY DEF NotesInv, TypeOK
<1>1. CASE PromptOpens(n) \/ PromptAnswered(n) \/ KeepNothing(n) \/ CopyFails(n) \/ LoadReturns(n)
  <2>1. Restoring => MaxCrashes = 0
    BY <1>1, AnswersLater DEF PromptOpens, PromptAnswered, KeepNothing, CopyFails, LoadReturns
  <2>2. UNCHANGED outboxVars /\ UNCHANGED <<worker, ghostVars, edits>>
    BY <1>1 DEF PromptOpens, PromptAnswered, KeepNothing, CopyFails, LoadReturns
  <2>3. Quiet'
    BY <2>1, <2>2 DEF Quiet, Restoring
  <2> QED  BY <2>2, <2>3, EditsFrame
<1>2. CASE RereadBegins(n) \/ RereadReads(n) \/ RereadEnds(n)
  <2>1. UNCHANGED outboxVars /\ UNCHANGED <<worker, ghostVars, edits, inbox>>
    BY <1>2 DEF RereadBegins, RereadReads, RereadEnds
  <2>2. \A m \in Notes : task'[m] \in {task[m], "idle", "settling", "reading"}
    BY <1>0, <1>2 DEF RereadBegins, RereadReads, RereadEnds, EndTask, GoesTo
  <2>3. Quiet'
    BY <2>1, <2>2 DEF EditsInv, Quiet, Restoring
  <2> QED  BY <2>1, <2>3, EditsFrame
<1> QED  BY <1>1, <1>2, AnswerEventEdits, LoadTheirsEdits, KeepMineEdits DEF AnswerSteps
-----------------------------------------------------------------------------
(* SQLite, the world and the process. *)

\* What is left of the flushes, and the first of them.
LEMMA Shifted ==
  ASSUME NEW S, NEW s \in Seq(S), s # <<>>
  PROVE  /\ Len(s) \in Nat \ {0} /\ Len(Tail(s)) = Len(s) - 1
         /\ Head(s) = s[1] /\ s[1] \in S
         /\ \A i \in 1..Len(Tail(s)) : Tail(s)[i] = s[i + 1] /\ i + 1 \in 1..Len(s)
         /\ Tail(s) = <<>> <=> Len(s) = 1
<1>1. /\ Len(s) \in Nat \ {0} /\ Len(Tail(s)) = Len(s) - 1 /\ Tail(s) \in Seq(S)
      /\ Head(s) = s[1] /\ s[1] \in S
      /\ \A i \in 1..Len(Tail(s)) : Tail(s)[i] = s[i + 1]
  OBVIOUS
<1> DEFINE r == Tail(s)
<1>2. r \in Seq(S) => (r = <<>> <=> Len(r) = 0)
  <2> HIDE DEF r
  <2> QED  OBVIOUS
<1> HIDE DEF r
<1>3. \A i \in 1..Len(r) : i + 1 \in 1..Len(s)
  BY <1>1 DEF r
<1> QED  BY <1>1, <1>2, <1>3 DEF r

\* The oldest flush is written, or is not.
LEMMA FlushReturnsEdits ==
  ASSUME NotesInv, NotesInv', EditsInv, FlushReturns
  PROVE  EditsInv'
<1> DEFINE then == Head(writes).then
<1>0. /\ writes \in Seq(Call) /\ saved \in [Notes -> Nat] /\ disk \in Outbox
      /\ latest \in [Notes -> Nat] /\ done \in [Notes -> Nat]
      /\ saved' \in [Notes -> Nat]
  BY CallTypes DEF NotesInv, TypeOK
<1>1. PICK ok \in BOOLEAN :
        /\ "diskFails" \notin Faults => ok
        /\ WriteOldest(ok)
        /\ saved' = IF Saves(then) /\ ok
                      THEN [saved EXCEPT ![then.note] = Later(@, then.edit)] ELSE saved
        /\ IF then.type = "pass" THEN pass' = "none" /\ task' = task ELSE pass' = pass
  <2>1. PICK ok \in IF "diskFails" \in Faults THEN BOOLEAN ELSE {TRUE} :
          /\ WriteOldest(ok)
          /\ \/ /\ then.type = "typed" /\ UNCHANGED pass
                /\ saved' = [saved EXCEPT ![then.note] = IF ok THEN Later(@, then.edit) ELSE @]
             \/ /\ then.type = "kept" /\ UNCHANGED pass
                /\ saved' = [saved EXCEPT ![then.note] = IF ok THEN Later(@, then.edit) ELSE @]
             \/ then.type = "discarded" /\ UNCHANGED <<pass, saved>>
             \/ then.type = "pass" /\ pass' = "none" /\ UNCHANGED <<saved, task>>
    BY DEF FlushReturns
  <2>2. ok \in BOOLEAN /\ ("diskFails" \notin Faults => ok)
    OBVIOUS
  <2>3. then.type \in {"typed", "kept"} => then.note \in Notes
    <3>1. Head(writes) \in Call
      BY <2>1, <1>0, Shifted DEF WriteOldest
    <3>2. then \in Then
      BY <3>1 DEF Call
    <3> HIDE DEF then
    <3> QED  BY <3>2 DEF Then
  <2> HIDE DEF then
  <2>4. \/ then.type \in {"typed", "kept"} /\ UNCHANGED pass
           /\ saved' = [saved EXCEPT ![then.note] = IF ok THEN Later(@, then.edit) ELSE @]
        \/ then.type = "discarded" /\ UNCHANGED <<pass, saved>>
        \/ then.type = "pass" /\ pass' = "none" /\ UNCHANGED <<saved, task>>
    BY <2>1
  <2>5. saved' = IF Saves(then) /\ ok
                   THEN [saved EXCEPT ![then.note] = Later(@, then.edit)] ELSE saved
    BY <2>2, <2>3, <2>4, <1>0 DEF Saves
  <2>6. IF then.type = "pass" THEN pass' = "none" /\ task' = task ELSE pass' = pass
    BY <2>4
  <2> QED  BY <2>1, <2>2, <2>5, <2>6
<1>2. /\ writes # <<>> /\ phase = "ready" /\ phase' = "ready"
      /\ disk' = (IF ok THEN Head(writes).queue ELSE disk)
      /\ writes' = Tail(writes)
      /\ UNCHANGED <<store, worker, latest, done, edits>>
  BY <1>1 DEF FlushReturns, WriteOldest, NotesInv, ControlInv, CallsInv
<1>3. Calls = writes /\ Calls' = Tail(writes) /\ Queue' = Queue
  BY <1>2 DEF Calls, Queue, Restoring
<1>4. /\ Len(writes) \in Nat \ {0} /\ Len(Calls') = Len(writes) - 1
      /\ 1 \in 1..Len(writes) /\ writes[1] \in Call
      /\ then = writes[1].then /\ Head(writes).queue = writes[1].queue
      /\ \A i \in 1..Len(Calls') : Calls'[i] = writes[i + 1] /\ i + 1 \in 1..Len(writes)
      /\ Calls' = <<>> <=> Len(writes) = 1
  <2>1. /\ Len(writes) \in Nat \ {0} /\ Len(Tail(writes)) = Len(writes) - 1
        /\ Head(writes) = writes[1] /\ writes[1] \in Call
        /\ \A i \in 1..Len(Tail(writes)) :
             Tail(writes)[i] = writes[i + 1] /\ i + 1 \in 1..Len(writes)
        /\ Tail(writes) = <<>> <=> Len(writes) = 1
    BY <1>0, <1>2, Shifted
  <2>2. 1 \in 1..Len(writes)
    BY <2>1
  <2> QED  BY <1>3, <2>1, <2>2
<1>5. then \in Then
  BY <1>4 DEF Call
<1> HIDE DEF then
<1>6. Saves(then) => then.note \in Notes /\ then.edit \in Nat
  BY <1>5 DEF Then, Saves
<1>7. Saves(then) =>
        /\ then.edit <= latest[then.note]
        /\ then.edit > done[then.note] =>
             \A j \in 1..Len(writes) : Has(writes[j].queue, then.note, then.edit)
  BY <1>3, <1>4 DEF EditsInv, SavingIsKept
<1>8. disk' \in {disk, writes[1].queue}
  BY <1>2, <1>4
<1>9. Untouched' /\ Quiet' /\ Unsettled'
  BY <1>2, <1>3 DEF EditsInv, Untouched, Quiet, Restoring, Unsettled
<1>10. Counted'
  BY <1>0, <1>1, <1>2, <1>6, <1>7 DEF EditsInv, Counted, Later
<1>11. Stored'
  BY <1>2, <1>3, <1>4, <1>8 DEF EditsInv, Stored
<1>12. SavedIsKept'
  <2> SUFFICES ASSUME NEW n \in Notes, saved'[n] > done[n]
               PROVE  /\ Has(disk', n, saved'[n])
                      /\ \A i \in 1..Len(Calls') : Has(Calls'[i].queue, n, saved'[n])
    BY <1>2 DEF SavedIsKept
  <2>1. CASE saved'[n] = saved[n]
    <3>1. Has(disk, n, saved[n]) /\ \A i \in 1..Len(writes) : Has(writes[i].queue, n, saved[n])
      BY <2>1, <1>3 DEF EditsInv, SavedIsKept
    <3> QED  BY <2>1, <3>1, <1>4, <1>8
  <2>2. CASE saved'[n] # saved[n]
    <3>1. Saves(then) /\ ok /\ n = then.note /\ saved'[n] = then.edit
      BY <2>2, <1>0, <1>1, <1>6 DEF Later
    <3>2. \A j \in 1..Len(writes) : Has(writes[j].queue, n, saved'[n])
      BY <3>1, <1>7
    <3>3. disk' = writes[1].queue
      BY <3>1, <1>2, <1>4
    <3> QED  BY <3>2, <3>3, <1>4
  <2> QED  BY <2>1, <2>2
<1>13. SavingIsKept'
  <2> SUFFICES ASSUME NEW i \in 1..Len(Calls'), Saves(Calls'[i].then)
               PROVE  /\ Calls'[i].then.edit <= latest[Calls'[i].then.note]
                      /\ Calls'[i].then.edit > done[Calls'[i].then.note] =>
                           \A j \in i..Len(Calls') :
                             Has(Calls'[j].queue, Calls'[i].then.note, Calls'[i].then.edit)
    BY <1>2 DEF SavingIsKept
  <2>1. i + 1 \in 1..Len(writes) /\ Calls'[i] = writes[i + 1]
    BY <1>4
  <2>2. \A j \in i..Len(Calls') : j + 1 \in (i + 1)..Len(writes) /\ Calls'[j] = writes[j + 1]
    BY <1>4
  <2> QED  BY <2>1, <2>2, <1>3 DEF EditsInv, SavingIsKept
<1>14. OnePass'
  <2>1. CASE then.type = "pass"
    <3>1. \A i \in 1..Len(Calls') : Calls'[i].then.type # "pass"
      <4> SUFFICES ASSUME NEW i \in 1..Len(Calls'), Calls'[i].then.type = "pass"
                   PROVE  FALSE
        OBVIOUS
      <4>1. i + 1 = 1
        BY <2>1, <1>3, <1>4 DEF EditsInv, OnePass
      <4> QED  BY <4>1
    <3> QED  BY <3>1 DEF OnePass
  <2>2. CASE then.type # "pass"
    <3> SUFFICES ASSUME NEW i \in 1..Len(Calls'), Calls'[i].then.type = "pass"
                 PROVE  /\ pass' = "flushing"
                        /\ \A j \in 1..Len(Calls') : Calls'[j].then.type = "pass" => j = i
      BY DEF OnePass
    <3>1. i + 1 \in 1..Len(writes) /\ writes[i + 1].then.type = "pass" /\ i \in Nat
      BY <1>4
    <3>2. /\ pass = "flushing"
          /\ \A j \in 1..Len(writes) : writes[j].then.type = "pass" => j = i + 1
      BY <3>1, <1>3 DEF EditsInv, OnePass
    <3>3. \A j \in 1..Len(Calls') : Calls'[j].then.type = "pass" => j + 1 = i + 1
      BY <3>2, <1>4
    <3> QED  BY <2>2, <3>1, <3>2, <3>3, <1>1
  <2> QED  BY <2>1, <2>2
<1>15. pass' = pass \/ (pass = "flushing" /\ pass' = "none")
  BY <1>1, <1>3, <1>4 DEF EditsInv, OnePass
<1>16. Working'
  BY <1>2, <1>15 DEF EditsInv, Working
<1>17. Mirrored'
  <2> SUFFICES ASSUME MaxCrashes = 0, "diskFails" \notin Faults, pass' # "body"
               PROVE  store = Newest'
    BY <1>2 DEF Mirrored
  <2>1. store = writes[Len(writes)].queue /\ disk' = writes[1].queue
    BY <1>1, <1>2, <1>3, <1>4, <1>15 DEF EditsInv, Mirrored, Newest
  <2>2. CASE Len(writes) = 1
    BY <2>1, <2>2, <1>4 DEF Newest
  <2>3. CASE Len(writes) # 1
    <3>1. Calls' # <<>> /\ Len(Calls') \in 1..Len(Calls') /\ Len(Calls') + 1 = Len(writes)
      BY <2>3, <1>4
    <3> QED  BY <2>1, <3>1, <1>4 DEF Newest
  <2> QED  BY <2>2, <2>3
<1> QED  BY <1>9, <1>10, <1>11, <1>12, <1>13, <1>14, <1>16, <1>17 DEF EditsInv

\* A restart finds the row.
LEMMA CrashEdits ==
  ASSUME NotesInv, NotesInv', EditsInv, Crash
  PROVE  EditsInv'
<1> USE DEF Crash, SyncCrashes, CrashOutbox
<1>0. /\ disk \in Outbox /\ done \in [Notes -> Nat] /\ latest \in [Notes -> Nat]
      /\ edits \in Nat /\ crashes \in Nat /\ disk' = disk /\ edits' = edits
  BY DEF NotesInv, TypeOK
<1>1. MaxCrashes # 0
  BY <1>0
<1>2. Calls' = <<>> /\ Queue' = disk
  BY <1>0, <1>1 DEF Calls, Queue, Restoring
<1>3. Untouched' /\ Quiet'
  BY <1>1, NotesSyncAssumption DEF Untouched, Quiet
<1>4. ASSUME NEW n \in Notes
      PROVE  /\ done'[n] <= latest'[n] /\ latest'[n] <= edits /\ saved'[n] <= latest'[n]
             /\ IF latest'[n] > done'[n] THEN disk[n] # None /\ disk[n].edit = latest'[n]
                                         ELSE disk[n] = None
             /\ disk[n] # None => saved'[n] = disk[n].edit
             /\ disk[n] = None => saved'[n] = 0
             /\ disk[n] # None => disk[n].edit \in Nat
             /\ done'[n] \in Nat
  <2>1. disk[n] # None => disk[n].edit \in Nat \ {0} /\ disk[n].edit <= edits
    BY <1>0 DEF EditsInv, Stored, Made, Outbox, Entry
  <2>2. done[n] \in Nat /\ done[n] <= edits
    BY <1>0 DEF EditsInv, Counted
  <2>3. /\ latest'[n] = (IF disk[n] = None THEN done[n] ELSE disk[n].edit)
        /\ done'[n] = (IF disk[n] = None \/ done[n] < disk[n].edit
                         THEN done[n] ELSE disk[n].edit - 1)
        /\ saved'[n] = (IF disk[n] = None THEN 0 ELSE disk[n].edit)
    OBVIOUS
  <2>4. CASE disk[n] = None
    BY <2>2, <2>3, <2>4
  <2>5. CASE disk[n] # None
    BY <2>1, <2>2, <2>3, <2>5
  <2> QED  BY <2>4, <2>5
<1>5. Counted' /\ Unsettled'
  BY <1>0, <1>2, <1>4 DEF Counted, Unsettled
<1>6. Stored'
  BY <1>0, <1>2 DEF EditsInv, Stored
<1>7. SavedIsKept'
  BY <1>0, <1>2, <1>4 DEF SavedIsKept, Has
<1>8. SavingIsKept' /\ OnePass' /\ Working' /\ Mirrored'
  BY <1>1, <1>2 DEF SavingIsKept, OnePass, Working, Mirrored
<1> QED  BY <1>3, <1>5, <1>6, <1>7, <1>8 DEF EditsInv

\* An edit made elsewhere.
LEMMA RemoteEditEdits ==
  ASSUME NotesInv, NotesInv', EditsInv, Undisturbed, NEW n \in Notes, RemoteEdit(n)
  PROVE  EditsInv'
<1>0. inbox \in [Notes -> Texts \cup {None, Unreadable}]
  BY DEF NotesInv, TypeOK
<1>1. MaxCrashes # 0 => \A m \in Notes : inbox'[m] = inbox[m] \/ inbox'[m] \in Texts
  BY <1>0 DEF RemoteEdit, Undisturbed
<1>2. Quiet'
  BY <1>1, NotesSyncAssumption DEF RemoteEdit, EditsInv, Quiet, Restoring
<1> QED  BY <1>2, EditsFrame DEF RemoteEdit

\* The socket comes back under the workers.
LEMMA SocketReconnectsEdits ==
  ASSUME NotesInv, NotesInv', EditsInv, SocketReconnects
  PROVE  EditsInv'
<1> USE DEF SocketReconnects
<1>1. Quiet'
  BY DEF EditsInv, Quiet, Restoring
<1>2. ASSUME NEW n \in Notes
      PROVE  worker'[n] = Idle \/ (worker[n] # Idle /\ worker'[n].entry = worker[n].entry)
  <2>1. CASE worker[n].stage \in {"peeking", "peeked"}
    <3>1. worker'[n] = [worker[n] EXCEPT !.since = FALSE] /\ worker[n] # Idle
      BY <2>1 DEF Idle
    <3>2. \/ worker[n] \in [stage : {"peeking"}, entry : Entry, since : BOOLEAN]
          \/ worker[n] \in [stage : {"peeked"}, entry : Entry, since : BOOLEAN,
                            seen : Texts \cup {Unknown, Unreadable}]
      <4>1. worker[n] \in WorkerStates
        BY DEF NotesInv, TypeOK
      <4> QED  BY <2>1, <4>1 DEF WorkerStates, Idle
    <3> QED  BY <3>1, <3>2
  <2>2. CASE worker[n].stage \notin {"peeking", "peeked"}
    BY <2>2
  <2> QED  BY <2>1, <2>2
<1> QED  BY <1>1, <1>2, EditsWorkers

\* The rest of the world leaves the queue alone.
LEMMA EnvironmentEdits ==
  ASSUME NotesInv, NotesInv', EditsInv, Undisturbed, Environment
  PROVE  EditsInv'
<1>1. CASE \E n \in Notes : Open(n) \/ Close(n) \/ QueryReads(n) \/ QueryReturns(n)
  <2>1. UNCHANGED outboxVars /\ UNCHANGED <<worker, ghostVars, edits, task>>
    BY <1>1 DEF Open, Close, QueryReads, QueryReturns
  <2>2. \A m \in Notes : inbox'[m] \in {inbox[m], None}
    BY <1>1 DEF Open, Close, QueryReads, QueryReturns, NotesInv, TypeOK
  <2>3. Quiet'
    BY <2>1, <2>2, NotesSyncAssumption DEF EditsInv, Quiet, Restoring
  <2> QED  BY <2>1, <2>3, EditsFrame
<1>2. CASE SocketDrops \/ Backgrounds \/ Foregrounds \/ NetworkGoes \/ NetworkComes \/ ClockSteps
  <2>1. UNCHANGED <<phase, store, disk, gated, writes, pass, worker, ghostVars, edits, task, inbox>>
    BY <1>2 DEF SocketDrops, Backgrounds, Foregrounds, NetworkGoes, NetworkComes, ClockSteps,
                AppStateChanges, ExecuteNow, GoesOffline, GoesOnline
  <2>2. Quiet'
    BY <2>1 DEF EditsInv, Quiet, Restoring
  <2> QED  BY <2>1, <2>2, EditsFrame
<1> QED  BY <1>1, <1>2, TypeEdits, RemoteEditEdits, SocketReconnectsEdits, CrashEdits
         DEF Environment

\* At first there is nothing.
LEMMA InitEdits == Init => EditsInv
<1> SUFFICES ASSUME Init
             PROVE  EditsInv
  OBVIOUS
<1> USE DEF Init, SyncInit, OutboxInit
<1>1. /\ store = EmptyOutbox /\ disk = EmptyOutbox /\ Calls = <<>> /\ Queue = EmptyOutbox
  BY NotesSyncAssumption DEF Calls, Queue
<1>2. Untouched /\ Quiet
  BY <1>1, NotesSyncAssumption DEF Untouched, Quiet
<1>3. Counted /\ Unsettled
  BY <1>1 DEF Counted, Unsettled, EmptyOutbox
<1>4. Stored /\ SavedIsKept
  BY <1>1 DEF Stored, Made, SavedIsKept, EmptyOutbox
<1>5. Working /\ SavingIsKept /\ OnePass
  BY <1>1 DEF Working, SavingIsKept, OnePass
<1>6. Mirrored
  BY <1>1 DEF Mirrored, Newest
<1> QED  BY <1>2, <1>3, <1>4, <1>5, <1>6 DEF EditsInv

\* Every step keeps the edits where they are counted.
LEMMA NextEdits == Undisturbed /\ NotesInv /\ NotesInv' /\ EditsInv /\ [Next]_vars => EditsInv'
<1> SUFFICES ASSUME Undisturbed, NotesInv, NotesInv', EditsInv, [Next]_vars
             PROVE  EditsInv'
  OBVIOUS
<1>1. CASE UNCHANGED vars
  <2>1. Quiet'
    BY <1>1 DEF vars, EditsInv, Quiet, Restoring
  <2> QED  BY <1>1, <2>1, EditsFrame DEF vars
<1>2. CASE Restores \/ Reconciles \/ Passes \/ Timers
  BY <1>2, SyncHostMountsEdits, RestoreReadsEdits, RestoreReconcilesEdits, ReconcileFailsEdits,
     PassFindsNothingEdits, PassBeginsEdits, PassFlushesEdits, TimersEdits
  DEF Restores, Reconciles, Passes, Timers
<1>3. CASE \E n \in Notes : Works(n) \/ Lands(n) \/ PushGoesWrong(n)
  BY <1>3, PeekAnsweredEdits, PeekHandledEdits, PushLandsEdits, PushReturnsEdits,
     PushRejectedEdits
  DEF Works, PushGoesWrong
<1> QED  BY <1>1, <1>2, <1>3, FlushReturnsEdits, AnswerStepsEdits, EnvironmentEdits DEF Next
-----------------------------------------------------------------------------
\* Where there is no restart, or nothing is typed nor given up before the
\* restore has read the row, every edit is where it is counted.
THEOREM NotesEdits ==
  ASSUME Undisturbed
  PROVE  Spec => []EditsInv
<1>1. NotesInv /\ NotesInv' /\ EditsInv /\ [Next]_vars => EditsInv'
  BY NextEdits
<1> QED  BY <1>1, InitEdits, NotesInvariant, PTL DEF Spec

\* Once the restore is over the queue holds the newest unsettled keystroke of
\* each note that has one and nothing else: no edit is lost before it is
\* pushed or given up, and none comes back after.
THEOREM NotesQueue ==
  ASSUME Undisturbed
  PROVE  Spec => []QueueIsUnsettledEdits
<1>1. EditsInv => QueueIsUnsettledEdits
  BY DEF EditsInv, Unsettled, Queue, Restoring, QueueIsUnsettledEdits
<1> QED  BY <1>1, NotesEdits, PTL

\* A keystroke the editor was told is saved survives on the disk until it is
\* settled, whatever flushes of passes and of other notes come after it.
THEOREM NotesSaved ==
  ASSUME Undisturbed
  PROVE  Spec => []SavedSurvives
<1>1. EditsInv => SavedSurvives
  BY DEF EditsInv, SavedIsKept, Has, SavedSurvives
<1> QED  BY <1>1, NotesEdits, PTL

\* In one life of the process, with a disk that writes what it is given, the
\* row mirrors the queue whenever nothing is under way.
THEOREM NotesMirror ==
  ASSUME MaxCrashes = 0, "diskFails" \notin Faults
  PROVE  Spec => []MirrorAtRest
<1>1. Undisturbed
  BY DEF Undisturbed
<1>2. EditsInv => MirrorAtRest
  BY DEF EditsInv, Mirrored, Newest, Calls, MirrorAtRest
<1> QED  BY <1>1, <1>2, NotesEdits, PTL
-----------------------------------------------------------------------------
(***************************************************************************)
(* A device that edits alone (SoloNeverConflicts).  As long as its pushes  *)
(* are acknowledged, in one life of the process, what it last knew of a    *)
(* note is what the cloud has, but for the time between a push's landing   *)
(* and its acknowledgement; and every unsynced edit is based on that.      *)
(***************************************************************************)

Acknowledged ==
  /\ MaxCrashes = 0
  /\ "lostReply" \notin Faults /\ "lateFetch" \notin Faults /\ "unreadable" \notin Faults

Alone(n) ==
  /\ cloud[n] # Deleted /\ inbox[n] = None /\ fetching[n] = None
  /\ task[n] \in {"idle", "settling", "reading"}
  /\ task[n] # "idle" => n \in held
  /\ IF worker[n].stage = "landed"
       THEN cloud[n] = worker[n].entry.text
       ELSE cache[n] = cloud[n] /\ (store[n] # None => store[n].base = cloud[n])
  /\ worker[n].stage = "peeked" => worker[n].seen \in {Unknown, cloud[n]}
  /\ worker[n].stage \in {"pushing", "landed"} => ~worker[n].over

SoloInv == remotes = 0 => \A n \in Notes : Alone(n)

\* What the lemmas below rest on.
Context == Acknowledged /\ NotesInv /\ NotesInv' /\ EditsInv

\* A worker is on an entry of the queue.
LEMMA WorkersHaveEntries ==
  ASSUME NotesInv, EditsInv, NEW n \in Notes, worker[n].stage # "idle"
  PROVE  /\ store[n] # None /\ worker[n] # Idle /\ phase = "ready" /\ pass = "body"
         /\ worker \in [Notes -> WorkerStates]
BY DEF EditsInv, Working, Idle, NotesInv, TypeOK

\* A reconnect tells the workers that their peek is older, no more.
LEMMA WorkersGoOn ==
  ASSUME NotesInv, SocketReconnects, NEW n \in Notes
  PROVE  /\ worker'[n].stage = worker[n].stage
         /\ worker[n].stage \in {"peeking", "peeked"} => worker'[n].entry = worker[n].entry
         /\ worker[n].stage = "peeked" => worker'[n].seen = worker[n].seen
         /\ worker[n].stage \notin {"peeking", "peeked"} => worker'[n] = worker[n]
<1>0. worker \in [Notes -> WorkerStates]
  BY DEF NotesInv, TypeOK
<1>1. CASE worker[n].stage \in {"peeking", "peeked"}
  <2>1. worker'[n] = [worker[n] EXCEPT !.since = FALSE]
    BY <1>1 DEF SocketReconnects
  <2>2. \/ worker[n] \in [stage : {"peeking"}, entry : Entry, since : BOOLEAN]
        \/ worker[n] \in [stage : {"peeked"}, entry : Entry, since : BOOLEAN,
                          seen : Texts \cup {Unknown, Unreadable}]
    BY <1>0, <1>1 DEF WorkerStates, Idle
  <2> QED  BY <1>1, <2>1, <2>2
<1>2. CASE worker[n].stage \notin {"peeking", "peeked"}
  BY <1>2 DEF SocketReconnects
<1> QED  BY <1>1, <1>2

\* The content of the note, what is queued and who works on it stay.
LEMMA SoloFrame ==
  ASSUME Context, SoloInv, UNCHANGED <<store, cache, cloud, worker, fetching, remotes>>,
         \A m \in Notes : /\ inbox'[m] \in {inbox[m], None}
                          /\ \/ task'[m] = "idle"
                             \/ task'[m] = task[m] /\ (m \in held => m \in held')
                             \/ task'[m] \in {"settling", "reading"} /\ m \in held'
  PROVE  SoloInv'
BY DEF SoloInv, Alone

\* The outbox's own steps.
LEMMA SyncSolo ==
  ASSUME Context, SoloInv,
         \/ Sync(SyncHostMounts) \/ Sync(RestoreReads)
         \/ Sync(PassFindsNothing) \/ Sync(PassFlushes) \/ Timers
  PROVE  SoloInv'
<1>1. UNCHANGED <<store, cache, cloud, worker, fetching, remotes, inbox, task, held>>
  <2>1. CASE Sync(RestoreReads)
    <3>1. disk = EmptyQueue
      BY <2>1, NotesSyncAssumption
      DEF Sync, RestoreReads, Hydrate, Context, Acknowledged, EditsInv, Untouched
    <3> QED  BY <2>1, <3>1 DEF Sync, RestoreReads, Hydrate
  <2>2. CASE \/ Sync(SyncHostMounts) \/ Sync(PassFindsNothing) \/ Sync(PassFlushes) \/ Timers
    BY <2>2 DEF Sync, SyncHostMounts, Start, PassFindsNothing, PassFlushes, Timers,
                DebounceFires, RetryFires
  <2> QED  BY <2>1, <2>2
<1> QED  BY <1>1, SoloFrame

\* Nothing is reconciled in the first life.
LEMMA NothingReconciled ==
  ASSUME EditsInv, MaxCrashes = 0
  PROVE  ~Reconciles
BY DEF EditsInv, Untouched, Reconciles, Sync, RestoreReconciles,
       ReconcileFails, Reconcile

\* A pass begins.
LEMMA PassBeginsSolo ==
  ASSUME Context, SoloInv, Sync(PassBegins)
  PROVE  SoloInv'
<1> USE DEF Sync, PassBegins
<1>1. \A n \in Notes : worker[n] = Idle
  BY DEF MutexFree, Context, EditsInv, Working
<1>2. ASSUME NEW n \in Notes
      PROVE  /\ worker'[n].stage \in {"idle", "peeking", "pushing"}
             /\ worker'[n].stage = "pushing" => ~worker'[n].over
             /\ worker[n].stage # "landed"
  BY <1>1 DEF Idle, Pushing, Peeking
<1> QED  BY <1>2 DEF SoloInv, Alone

\* The server's answer to a peek is what the queue is based on.
LEMMA PeekAnsweredSolo ==
  ASSUME Context, SoloInv, NEW n \in Notes, Sync(PeekAnswered(n))
  PROVE  SoloInv'
<1> USE DEF Sync, PeekAnswered
<1>1. worker[n].stage = "peeking" /\ worker \in [Notes -> WorkerStates]
  BY DEF Context, NotesInv, TypeOK
<1>2. /\ worker'[n].stage = "peeked" /\ worker'[n].seen \in {cloud[n], Unknown}
      /\ \A m \in Notes : m # n => worker'[m] = worker[m]
  BY <1>1 DEF Context, Acknowledged
<1> QED  BY <1>1, <1>2 DEF SoloInv, Alone

\* A peek finds nothing to hand over.
LEMMA PeekHandledSolo ==
  ASSUME Context, SoloInv, NEW n \in Notes, PeekHandled(n), remotes = 0
  PROVE  SoloInv'
<1> USE DEF PeekHandled, PeekReturns
<1>1. store[n] # None /\ worker \in [Notes -> WorkerStates] /\ worker[n].stage = "peeked"
  BY WorkersHaveEntries DEF Context
<1>2. ~Overwrites(n)
  BY <1>1 DEF SoloInv, Alone, Overwrites
<1>3. /\ worker'[n].stage \in {"idle", "pushing"}
      /\ worker'[n].stage = "pushing" => ~worker'[n].over
      /\ \A m \in Notes : m # n => worker'[m] = worker[m]
      /\ UNCHANGED <<store, cache, cloud, fetching, remotes, inbox, task, held>>
  BY <1>1, <1>2 DEF HandsOver, Pushing, Idle
<1> QED  BY <1>1, <1>3 DEF SoloInv, Alone

\* A push lands: until it returns the cloud has what it pushed.
LEMMA PushLandsSolo ==
  ASSUME Context, SoloInv, NEW n \in Notes, Lands(n)
  PROVE  SoloInv'
<1> USE DEF Lands, PushLands
<1>1. /\ worker[n].stage = "pushing" /\ worker \in [Notes -> WorkerStates]
      /\ cloud \in [Notes -> Contents]
      /\ worker[n].entry.text \in Texts
  BY WorkerTypes DEF Context, NotesInv, TypeOK, Entry
<1>2. worker[n] \in [stage : {"pushing", "landed"}, entry : Entry,
                     seen : Texts \cup {Unknown, Unreadable}, over : BOOLEAN]
  BY <1>1 DEF WorkerStates, Idle
<1>3. /\ worker'[n] = [worker[n] EXCEPT !.stage = "landed"]
      /\ worker'[n].stage = "landed" /\ worker'[n].entry = worker[n].entry
      /\ worker'[n].over = worker[n].over
  BY <1>1, <1>2
<1>4. /\ cloud'[n] = worker[n].entry.text
      /\ \A m \in Notes : m # n => worker'[m] = worker[m] /\ cloud'[m] = cloud[m]
  BY <1>1
<1>5. cloud'[n] # Deleted
  BY <1>1, <1>4, NotesSyncAssumption
<1> QED  BY <1>1, <1>3, <1>4, <1>5 DEF SoloInv, Alone

\* It returns: what this device knows is the cloud's content again.
LEMMA PushReturnsSolo ==
  ASSUME Context, SoloInv, NEW n \in Notes, Sync(PushReturns(n))
  PROVE  SoloInv'
<1> USE DEF Sync, PushReturns
<1>1. /\ worker[n].stage = "landed" /\ worker \in [Notes -> WorkerStates]
      /\ store \in Outbox /\ store[n] \in Entry /\ cache \in [Notes -> Texts]
  <2>1. worker[n].stage = "landed" /\ store[n] # None
    BY WorkersHaveEntries DEF Context
  <2>2. worker \in [Notes -> WorkerStates] /\ store \in Outbox /\ cache \in [Notes -> Texts]
    BY DEF Context, NotesInv, TypeOK
  <2> QED  BY <2>1, <2>2 DEF Outbox
<1>2. /\ worker'[n] = Idle /\ cache'[n] = worker[n].entry.text
      /\ store'[n] = PruneAndRebase(store[n], worker[n].entry.at, worker[n].entry.text)
      /\ \A m \in Notes : m # n => /\ worker'[m] = worker[m] /\ cache'[m] = cache[m]
                                   /\ store'[m] = store[m]
  BY <1>1 DEF Outbox
<1>3. store'[n] # None => store'[n].base = worker[n].entry.text
  BY <1>1, <1>2 DEF PruneAndRebase, Entry
<1>4. worker'[n].stage = "idle"
  BY <1>2 DEF Idle
<1> QED  BY <1>1, <1>2, <1>3, <1>4 DEF SoloInv, Alone

\* A push that goes wrong had not landed.
LEMMA PushGoesWrongSolo ==
  ASSUME Context, SoloInv, NEW n \in Notes, PushGoesWrong(n)
  PROVE  SoloInv'
<1> USE DEF PushGoesWrong, Sync, PushFails, PushRejected
<1>1. /\ worker[n].stage = "pushing" /\ worker \in [Notes -> WorkerStates]
      /\ store \in Outbox
  BY DEF Context, Acknowledged, NotesInv, TypeOK
<1>2. /\ worker'[n].stage = "idle"
      /\ \A m \in Notes : m # n => worker'[m] = worker[m]
      /\ \A m \in Notes : store'[m] \in {None, store[m]}
  BY <1>1 DEF Idle, Outbox
<1> QED  BY <1>1, <1>2 DEF SoloInv, Alone

\* A keystroke is based on what this device knows.
LEMMA TypeSolo ==
  ASSUME Context, SoloInv, NEW n \in Notes, Type(n)
  PROVE  SoloInv'
<1> USE DEF Type
<1>1. store \in Outbox /\ (worker[n].stage = "landed" => store[n] # None)
  BY WorkersHaveEntries DEF Context, NotesInv, TypeOK
<1>2. \A m \in Notes : m # n => store'[m] = store[m]
  BY <1>1 DEF Outbox
<1>3. store'[n].base = IF store[n] = None THEN cache[n] ELSE store[n].base
  BY <1>1 DEF BuildEntry, Outbox
<1> QED  BY <1>1, <1>2, <1>3 DEF SoloInv, Alone

\* The content query reads what the cloud has.
LEMMA QuerySolo ==
  ASSUME Context, SoloInv, NEW n \in Notes, remotes = 0, QueryReads(n) \/ QueryReturns(n)
  PROVE  SoloInv'
<1>1. QueryReads(n) /\ cache' = [cache EXCEPT ![n] = cloud[n]]
      /\ UNCHANGED <<store, cloud, worker, fetching, remotes, inbox, task, held>>
  BY DEF QueryReads, QueryReturns, SoloInv, Alone, Context, Acknowledged
<1>2. cache \in [Notes -> Texts]
  BY DEF Context, NotesInv, TypeOK
<1>3. \A m \in Notes : cache'[m] = IF m = n THEN cloud[m] ELSE cache[m]
  BY <1>1, <1>2
<1> QED  BY <1>1, <1>3 DEF SoloInv, Alone

\* Its editors answer nothing: the read they owe finds what is there.
LEMMA AnswerStepsSolo ==
  ASSUME Context, SoloInv, NEW n \in Notes, remotes = 0, AnswerSteps(n)
  PROVE  SoloInv'
<1>0. task \in [Notes -> Tasks] /\ held \subseteq Notes
  BY DEF Context, NotesInv, TypeOK
<1>1. ~RereadFinds(n)
  <2> SUFFICES ASSUME RereadFinds(n)
               PROVE  FALSE
    OBVIOUS
  <2>1. task[n] = "reading" /\ n \in held
    BY DEF RereadFinds, SoloInv, Alone
  <2>2. worker[n].stage # "landed"
    BY <2>1 DEF Context, NotesInv, ControlInv, AnswerIsAlone
  <2> QED  BY <2>2 DEF RereadFinds, MovedPastBase, SoloInv, Alone
<1>2. RereadBegins(n) \/ RereadReads(n) \/ RereadEnds(n)
  BY <1>1 DEF SoloInv, Alone, AnswerSteps, AnswerEvent, PromptOpens, PromptAnswered,
              KeepMine, KeepNothing, LoadTheirs, CopyFails, LoadReturns
<1>3. /\ UNCHANGED <<store, cache, cloud, worker, fetching, remotes, inbox>>
      /\ \/ task' = [task EXCEPT ![n] = "idle"] /\ held' = held \ {n}
         \/ task' = [task EXCEPT ![n] = "settling"] /\ held' = held \cup {n}
         \/ task' = [task EXCEPT ![n] = "reading"] /\ held' = held /\ n \in held
         \/ UNCHANGED <<task, held>>
  BY <1>2 DEF RereadBegins, RereadReads, RereadEnds, Release, EndTask, GoesTo, SoloInv, Alone
<1> QED  BY <1>0, <1>3, SoloFrame

\* A flush that returns moves no answer on.
LEMMA FlushReturnsSolo ==
  ASSUME Context, SoloInv, remotes = 0, FlushReturns
  PROVE  SoloInv'
<1> DEFINE then == Head(writes).then
<1>0. writes \in Seq(Call) /\ task \in [Notes -> Tasks] /\ held \subseteq Notes
  BY CallTypes DEF Context, NotesInv, TypeOK
<1>1. writes # <<>> /\ UNCHANGED <<store, cache, cloud, worker, fetching, remotes, inbox>>
  BY DEF FlushReturns, WriteOldest
<1>2. ~Awaits(then)
  <2> SUFFICES ASSUME Awaits(then)
               PROVE  FALSE
    OBVIOUS
  <2>1. then.note \in Notes /\ task[then.note] \in {"saving", "discarding"}
    BY <1>0, <1>1, TailMoves DEF Context, NotesInv, ControlInv, CallsInv
  <2> HIDE DEF then
  <2> QED  BY <2>1 DEF SoloInv, Alone
<1>3. UNCHANGED <<task, held>>
  BY <1>2 DEF FlushReturns, Awaits
<1> QED  BY <1>1, <1>3, SoloFrame

\* The rest of the world.
LEMMA EnvironmentSolo ==
  ASSUME Context, SoloInv, remotes = 0, Environment
  PROVE  SoloInv'
<1>0. inbox \in [Notes -> Texts \cup {None, Unreadable}]
  BY DEF Context, NotesInv, TypeOK
<1>1. CASE \E n \in Notes : Open(n) \/ Close(n)
  <2>1. /\ UNCHANGED <<store, cache, cloud, worker, fetching, remotes, task, held>>
        /\ \A m \in Notes : inbox'[m] \in {inbox[m], None}
    BY <1>0, <1>1 DEF Open, Close
  <2> QED  BY <2>1, SoloFrame
<1>2. CASE \E n \in Notes : RemoteEdit(n)
  BY <1>2 DEF RemoteEdit, SoloInv
<1>3. CASE SocketDrops \/ Backgrounds \/ Foregrounds \/ NetworkGoes \/ NetworkComes \/ ClockSteps
  <2>1. UNCHANGED <<store, cache, cloud, worker, fetching, remotes, task, held, inbox>>
    BY <1>3 DEF SocketDrops, Backgrounds, Foregrounds, NetworkGoes, NetworkComes, ClockSteps,
                AppStateChanges, ExecuteNow, GoesOffline, GoesOnline
  <2> QED  BY <2>1, SoloFrame
<1>4. CASE SocketReconnects
  <2>1. UNCHANGED <<store, cache, cloud, fetching, remotes, task, held, inbox>>
    BY <1>4 DEF SocketReconnects
  <2> QED  BY <1>4, <2>1, WorkersGoOn DEF SoloInv, Alone, Context
<1>5. ~Crash
  BY DEF Crash, Context, Acknowledged, NotesInv, TypeOK
<1> QED  BY <1>1, <1>2, <1>3, <1>4, <1>5, TypeSolo, QuerySolo DEF Environment

\* Every step keeps a lone device alone with its notes.
LEMMA NextSolo ==
  Acknowledged /\ NotesInv /\ NotesInv' /\ EditsInv /\ SoloInv /\ [Next]_vars => SoloInv'
<1> SUFFICES ASSUME Acknowledged, NotesInv, NotesInv', EditsInv, SoloInv, [Next]_vars
             PROVE  SoloInv'
  OBVIOUS
<1>0. Context
  BY DEF Context
<1>1. CASE UNCHANGED vars
  <2>1. UNCHANGED <<store, cache, cloud, worker, fetching, remotes, task, held, inbox>>
    BY <1>1 DEF vars
  <2> QED  BY <1>0, <2>1, SoloFrame
<1>2. CASE remotes # 0 /\ Next
  <2>1. remotes' \in {remotes, remotes + 1} /\ remotes \in Nat
    <3>0. ASSUME NEW n \in Notes, Lands(n) PROVE remotes' = remotes
      BY <3>0 DEF Lands
    <3>1. remotes' = remotes \/ \E n \in Notes : RemoteEdit(n)
      BY <1>2, <3>0 DEF Next, Restores, Reconciles, Passes, Timers, Works, PushGoesWrong,
         AnswerSteps, Environment, Sync, FlushReturns, PeekHandled, Open, Close, Type,
         QueryReads, QueryReturns, SocketDrops, SocketReconnects, Backgrounds, Foregrounds,
         NetworkGoes, NetworkComes, ClockSteps, Crash, AnswerEvent, PromptOpens,
         PromptAnswered, KeepMine, KeepNothing, LoadTheirs, CopyFails, LoadReturns,
         RereadBegins, RereadReads, RereadFinds, RereadEnds
    <3>2. remotes \in Nat
      BY DEF NotesInv, TypeOK
    <3> QED  BY <3>1, <3>2 DEF RemoteEdit
  <2> QED  BY <2>1, <1>2 DEF SoloInv
<1>3. CASE remotes = 0 /\ (Restores \/ Reconciles \/ Passes \/ Timers)
  BY <1>0, <1>3, SyncSolo, NothingReconciled, PassBeginsSolo
  DEF Restores, Passes, Context, Acknowledged
<1>4. CASE remotes = 0 /\ \E n \in Notes : Works(n) \/ Lands(n) \/ PushGoesWrong(n)
  BY <1>0, <1>4, PeekAnsweredSolo, PeekHandledSolo, PushLandsSolo, PushReturnsSolo,
     PushGoesWrongSolo
  DEF Works
<1> QED  BY <1>0, <1>1, <1>2, <1>3, <1>4, FlushReturnsSolo, AnswerStepsSolo, EnvironmentSolo
         DEF Next

\* A device that edits alone, whose pushes are acknowledged and whose process
\* lives on, is never told that it overwrote something nor asked about an edit
\* made elsewhere.
THEOREM NotesSolo ==
  ASSUME Acknowledged
  PROVE  Spec => []SoloNeverConflicts
<1>1. Init => SoloInv
  <2> SUFFICES ASSUME Init, NEW n \in Notes
               PROVE  Alone(n)
    BY DEF SoloInv
  <2>1. /\ worker[n].stage = "idle" /\ inbox[n] = None /\ fetching[n] = None
        /\ task[n] = "idle" /\ store[n] = None
    BY NotesSyncAssumption DEF Init, SyncInit, OutboxInit, Idle, EmptyOutbox
  <2>2. cache[n] = cloud[n] /\ cloud[n] # Deleted
    BY NotesSyncAssumption DEF Init, SyncInit
  <2> QED  BY <2>1, <2>2 DEF Alone
<1>2. NotesInv /\ NotesInv' /\ EditsInv /\ SoloInv /\ [Next]_vars => SoloInv'
  BY NextSolo
<1>3. SoloInv => SoloNeverConflicts
  BY DEF SoloInv, Alone, SoloNeverConflicts
<1>4. Undisturbed
  BY DEF Undisturbed, Acknowledged
<1> QED  BY <1>1, <1>2, <1>3, <1>4, NotesEdits, NotesInvariant, PTL DEF Spec
-----------------------------------------------------------------------------
(***************************************************************************)
(* What the user kept theirs over (AskedOnce).  Either the cloud has it    *)
(* still: then the edit that was kept is queued, based on it, and every    *)
(* worker of the note is on that base and saw it or nothing.  Or a push    *)
(* put something else there: then nobody can see it any more but the       *)
(* worker of that push, which announces nothing.                           *)
(***************************************************************************)

\* In one life of the process, no edit that was kept being given up.
Kept == MaxCrashes = 0 /\ "rejects" \notin Faults

\* The answer under way may show the content or act on it.
Asks == {"asking", "prompt", "keep", "theirs", "copy"}

\* Nobody is about to ask about what was kept over, or to announce it.
Unasked(n) ==
  /\ inbox[n] # kept[n]
  /\ task[n] \in Asks => theirs[n] # kept[n]
  /\ worker[n].stage = "peeked" /\ worker[n].seen = kept[n] =>
       kept[n] \in {Unknown, worker[n].entry.base}
  /\ worker[n].stage \in {"pushing", "landed"} /\ worker[n].seen = kept[n] => ~worker[n].over

\* As long as the cloud has it, it is the base of everything.
BasedOnKept(n) ==
  cloud[n] = kept[n] =>
    /\ inbox[n] = None /\ task[n] \notin Asks
    /\ store[n] # None /\ store[n].base = kept[n]
    /\ worker[n].stage # "landed"
    /\ worker[n].stage # "idle" => worker[n].entry.base = kept[n]
    /\ worker[n].stage \in {"peeked", "pushing"} =>
         worker[n].seen \in {kept[n], Unknown, Unreadable}

Once(n) == kept[n] # None => Unasked(n) /\ BasedOnKept(n)

OnceInv == \A n \in Notes : Once(n)

OnceContext == Kept /\ NotesInv /\ EditsInv /\ OnceInv

\* What the content is compared with is no content of another kind.
LEMMA KeptIsText ==
  ASSUME NotesInv, NEW n \in Notes, kept[n] # None
  PROVE  kept[n] \in Texts /\ kept[n] # Unreadable /\ kept[n] # Deleted
BY NotesSyncAssumption DEF NotesInv, TypeOK

\* The worker on the note and its content stay, nothing is newly asked, and
\* what is queued keeps its base.
LEMMA OnceFrame ==
  ASSUME NEW n \in Notes, Once(n), kept'[n] \in {kept[n], None},
         cloud'[n] = cloud[n], worker'[n] = worker[n], inbox'[n] \in {inbox[n], None},
         task'[n] \in Asks => task[n] \in Asks /\ theirs'[n] = theirs[n],
         store[n] # None => store'[n] # None /\ store'[n].base = store[n].base
  PROVE  Once(n)'
BY DEF Once, Unasked, BasedOnKept

\* The outbox's own steps.
LEMMA SyncOnce ==
  ASSUME OnceContext,
         \/ Sync(SyncHostMounts) \/ Sync(RestoreReads)
         \/ Sync(PassFindsNothing) \/ Sync(PassFlushes) \/ Timers
  PROVE  OnceInv'
<1>1. UNCHANGED <<store, cloud, worker, inbox, task, theirs, kept>>
  <2>1. CASE Sync(RestoreReads)
    <3>1. disk = EmptyQueue
      BY <2>1, NotesSyncAssumption
      DEF Sync, RestoreReads, Hydrate, OnceContext, Kept, EditsInv, Untouched
    <3> QED  BY <2>1, <3>1 DEF Sync, RestoreReads, Hydrate
  <2>2. CASE \/ Sync(SyncHostMounts) \/ Sync(PassFindsNothing) \/ Sync(PassFlushes) \/ Timers
    BY <2>2 DEF Sync, SyncHostMounts, Start, PassFindsNothing, PassFlushes, Timers,
                DebounceFires, RetryFires
  <2> QED  BY <2>1, <2>2
<1> QED  BY <1>1, OnceFrame DEF OnceContext, OnceInv

\* A pass begins on what is queued.
LEMMA PassBeginsOnce ==
  ASSUME OnceContext, Sync(PassBegins)
  PROVE  OnceInv'
<1> USE DEF Sync, PassBegins
<1> SUFFICES ASSUME NEW n \in Notes
             PROVE  Once(n)'
  BY DEF OnceInv
<1>1. worker'[n] \in {Idle, Pushing(store[n], Unknown, FALSE), Peeking(store[n])}
  OBVIOUS
<1>2. /\ worker'[n].stage \in {"idle", "peeking", "pushing"}
      /\ worker'[n].stage # "idle" => worker'[n].entry = store[n]
      /\ worker'[n].stage = "pushing" => worker'[n].seen = Unknown /\ ~worker'[n].over
  BY <1>1 DEF Idle, Pushing, Peeking
<1> QED  BY <1>2 DEF OnceContext, OnceInv, Once, Unasked, BasedOnKept

\* A peek sees what is kept over only with that as its base.
LEMMA PeekAnsweredOnce ==
  ASSUME OnceContext, NEW n \in Notes, Sync(PeekAnswered(n))
  PROVE  OnceInv'
<1> USE DEF Sync, PeekAnswered
<1> SUFFICES ASSUME NEW m \in Notes
             PROVE  Once(m)'
  BY DEF OnceInv
<1>0. worker \in [Notes -> WorkerStates] /\ Once(m)
  BY DEF OnceContext, OnceInv, NotesInv, TypeOK
<1>1. CASE m # n
  <2>1. worker'[m] = worker[m]
    BY <1>0, <1>1
  <2> QED  BY <1>0, <2>1, OnceFrame
<1>2. CASE m = n
  <2>1. /\ worker[n].stage = "peeking"
        /\ worker'[n].stage = "peeked" /\ worker'[n].entry = worker[n].entry
        /\ worker'[n].seen \in {cloud[n], Unknown, Unreadable}
    BY <1>0
  <2> QED  BY <1>0, <1>2, <2>1, KeptIsText
           DEF OnceContext, Once, Unasked, BasedOnKept
<1> QED  BY <1>1, <1>2

\* The peek is followed by no question about it.
LEMMA PeekHandledOnce ==
  ASSUME OnceContext, NEW n \in Notes, PeekHandled(n)
  PROVE  OnceInv'
<1> USE DEF PeekHandled, PeekReturns
<1> SUFFICES ASSUME NEW m \in Notes
             PROVE  Once(m)'
  BY DEF OnceInv
<1>0. /\ worker \in [Notes -> WorkerStates] /\ Once(m)
      /\ inbox \in [Notes -> Texts \cup {None, Unreadable}]
      /\ UNCHANGED <<store, cloud, task, theirs, kept>>
  BY DEF OnceContext, OnceInv, NotesInv, TypeOK
<1>1. CASE m # n
  <2>1. worker'[m] = worker[m] /\ inbox'[m] = inbox[m]
    BY <1>0, <1>1
  <2> QED  BY <1>0, <2>1, OnceFrame
<1>2. CASE m = n
  <2>1. CASE worker'[n] = Idle /\ inbox'[n] = inbox[n]
    BY <1>0, <1>2, <2>1 DEF Once, Unasked, BasedOnKept, Idle
  <2>2. CASE ~PeekIsMoot(n) /\ HandsOver(n)
    <3>1. worker'[n] = Idle /\ inbox'[n] = worker[n].seen
      BY <1>0, <2>2
    <3>2. kept[n] # None => worker[n].seen # kept[n] /\ cloud[n] # kept[n]
      BY <1>0, <1>2, <2>2 DEF Once, Unasked, BasedOnKept, HandsOver, Overwrites, PeekIsMoot
    <3> QED  BY <1>0, <1>2, <3>1, <3>2 DEF Once, Unasked, BasedOnKept, Idle
  <2>3. CASE ~PeekIsMoot(n) /\ ~HandsOver(n)
    <3>1. /\ worker'[n].stage = "pushing" /\ worker'[n].entry = store[n]
          /\ worker'[n].seen = worker[n].seen /\ worker'[n].over = Overwrites(n)
          /\ inbox'[n] = inbox[n]
      BY <1>0, <2>3 DEF Pushing
    <3>2. kept[n] # None /\ worker[n].seen = kept[n] => ~Overwrites(n)
      BY <1>0, <1>2, <2>3 DEF Once, Unasked, Overwrites, PeekIsMoot
    <3> QED  BY <1>0, <1>2, <3>1, <3>2 DEF Once, Unasked, BasedOnKept
  <2> QED  BY <1>0, <2>1, <2>2, <2>3
<1> QED  BY <1>1, <1>2

\* A push that lands puts another content into the cloud, or what was kept
\* over is a new version.
LEMMA PushLandsOnce ==
  ASSUME OnceContext, NEW n \in Notes, Lands(n)
  PROVE  OnceInv'
<1> USE DEF Lands, PushLands
<1> SUFFICES ASSUME NEW m \in Notes
             PROVE  Once(m)'
  BY DEF OnceInv
<1>0. /\ worker \in [Notes -> WorkerStates] /\ Once(m)
      /\ kept \in [Notes -> Texts \cup {None}] /\ cloud \in [Notes -> Contents]
      /\ UNCHANGED <<store, task, theirs, inbox>>
  BY DEF OnceContext, OnceInv, NotesInv, TypeOK
<1>1. CASE m # n
  <2>1. worker'[m] = worker[m] /\ cloud'[m] = cloud[m] /\ kept'[m] = kept[m]
    BY <1>0, <1>1
  <2> QED  BY <1>0, <2>1, OnceFrame
<1>2. CASE m = n
  <2>0. worker[n] \in [stage : {"pushing", "landed"}, entry : Entry,
                       seen : Texts \cup {Unknown, Unreadable}, over : BOOLEAN]
    BY <1>0 DEF WorkerStates, Idle
  <2>1. /\ worker'[n].stage = "landed" /\ worker'[n].seen = worker[n].seen
        /\ worker'[n].over = worker[n].over
    BY <1>0, <2>0
  <2>2. /\ cloud'[n] = worker[n].entry.text
        /\ kept'[n] = IF kept[n] = worker[n].entry.text THEN None ELSE kept[n]
    BY <1>0
  <2>3. kept'[n] # None => kept'[n] = kept[n] /\ cloud'[n] # kept'[n]
    BY <2>2
  <2> QED  BY <1>0, <1>2, <2>1, <2>3 DEF Once, Unasked, BasedOnKept
<1> QED  BY <1>1, <1>2

\* A push that is over, one way or the other, left something else in the cloud
\* or nothing changed.
LEMMA PushEndsOnce ==
  ASSUME OnceContext, NEW n \in Notes, Sync(PushReturns(n)) \/ PushGoesWrong(n)
  PROVE  OnceInv'
<1> USE DEF PushGoesWrong, Sync, PushReturns, PushFails, PushRejected
<1> SUFFICES ASSUME NEW m \in Notes
             PROVE  Once(m)'
  BY DEF OnceInv
<1>0. /\ worker \in [Notes -> WorkerStates] /\ Once(m) /\ store \in Outbox
      /\ UNCHANGED <<cloud, task, theirs, inbox, kept>>
  BY DEF OnceContext, OnceInv, NotesInv, TypeOK
<1>1. CASE m # n
  <2>1. worker'[m] = worker[m] /\ store'[m] = store[m]
    BY <1>0, <1>1 DEF Outbox
  <2> QED  BY <1>0, <2>1, OnceFrame
<1>2. CASE m = n
  <2>1. worker'[n].stage = "idle"
    BY <1>0 DEF Idle
  <2>2. kept[n] # None /\ cloud[n] = kept[n] => store' = store
    <3> SUFFICES ASSUME kept[n] # None, cloud[n] = kept[n]
                 PROVE  store' = store
      OBVIOUS
    <3>1. worker[n].stage # "landed" /\ cloud[n] # Deleted
      BY <1>0, <1>2, KeptIsText DEF Once, BasedOnKept, OnceContext
    <3> QED  BY <3>1 DEF OnceContext, Kept
  <2> QED  BY <1>0, <1>2, <2>1, <2>2 DEF Once, Unasked, BasedOnKept
<1> QED  BY <1>1, <1>2

\* A keystroke keeps the base of what is queued.
LEMMA TypeOnce ==
  ASSUME OnceContext, NEW n \in Notes, Type(n)
  PROVE  OnceInv'
<1> USE DEF Type
<1> SUFFICES ASSUME NEW m \in Notes
             PROVE  Once(m)'
  BY DEF OnceInv
<1>0. /\ store \in Outbox /\ Once(m)
      /\ UNCHANGED <<cloud, worker, task, theirs, inbox, kept>>
  BY DEF OnceContext, OnceInv, NotesInv, TypeOK
<1>1. store[m] # None => store'[m] # None /\ store'[m].base = store[m].base
  <2>1. CASE m = n /\ store[n] # None
    <3>1. store[n] \in Entry
      BY <1>0, <2>1 DEF Outbox
    <3>2. PICK text \in Texts :
            store'[n] = BuildEntry(store[n], edits + 1, text, now + 1, cache[n])
      BY <1>0 DEF Outbox
    <3>3. cache[n] \in Texts /\ edits + 1 \in Nat \ {0} /\ now + 1 \in Nat
      BY DEF OnceContext, NotesInv, TypeOK
    <3>4. store'[n] \in Entry
      BY <3>1, <3>2, <3>3, BuiltEntry
    <3>5. store'[n].base = store[n].base
      BY <2>1, <3>2 DEF BuildEntry
    <3> QED  BY <2>1, <3>4, <3>5, NotesOutboxAssumption
  <2>2. CASE m # n
    BY <1>0, <2>2 DEF Outbox
  <2> QED  BY <2>1, <2>2
<1> QED  BY <1>0, <1>1, OnceFrame

\* An answer that begins is about something else.
LEMMA AnswerBeginsOnce ==
  ASSUME OnceContext, NEW n \in Notes, NEW content, AnswerRemoteContent(n, content),
         kept[n] # None => content # kept[n] /\ cloud[n] # kept[n],
         UNCHANGED <<cloud, worker, kept>>,
         inbox' \in {inbox, [inbox EXCEPT ![n] = None]}
  PROVE  OnceInv'
<1> USE DEF AnswerRemoteContent
<1> SUFFICES ASSUME NEW m \in Notes
             PROVE  Once(m)'
  BY DEF OnceInv
<1>0. /\ store \in Outbox /\ task \in [Notes -> Tasks] /\ Once(m)
      /\ theirs \in [Notes -> Texts \cup {None, Unreadable}]
      /\ inbox \in [Notes -> Texts \cup {None, Unreadable}]
  BY DEF OnceContext, OnceInv, NotesInv, TypeOK
<1>1. /\ store'[m] = store[m] \/ m = n
      /\ inbox'[m] \in {inbox[m], None}
  BY <1>0 DEF Discard, Outbox
<1>2. CASE m # n
  <2>1. task'[m] = task[m] /\ theirs'[m] = theirs[m]
    BY <1>0, <1>2 DEF EndTask, GoesTo
  <2> QED  BY <1>0, <1>1, <1>2, <2>1, OnceFrame
<1>3. CASE m = n
  <2>1. \/ task'[n] \in {"idle", "discarding"}
        \/ task'[n] = "asking" /\ theirs'[n] = content
    BY <1>0 DEF EndTask, GoesTo
  <2> QED  BY <1>0, <1>1, <1>3, <2>1 DEF Once, Unasked, BasedOnKept, Asks
<1> QED  BY <1>2, <1>3

\* The queue of events and the owed read bring nothing that was kept over.
LEMMA AnswersOnce ==
  ASSUME OnceContext, NEW n \in Notes, AnswerEvent(n) \/ RereadFinds(n)
  PROVE  OnceInv'
<1>0. Once(n) /\ inbox \in [Notes -> Texts \cup {None, Unreadable}]
  BY DEF OnceContext, OnceInv, NotesInv, TypeOK
<1>1. CASE AnswerEvent(n)
  <2>1. kept[n] # None => inbox[n] # kept[n] /\ cloud[n] # kept[n]
    BY <1>0, <1>1 DEF AnswerEvent, Once, Unasked, BasedOnKept
  <2> QED  BY <1>1, <2>1, AnswerBeginsOnce DEF AnswerEvent
<1>2. CASE RereadFinds(n)
  <2>1. kept[n] # None => cloud[n] # kept[n]
    <3> SUFFICES ASSUME kept[n] # None, cloud[n] = kept[n]
                 PROVE  FALSE
      OBVIOUS
    <3>1. store[n] # None /\ store[n].base = cloud[n] /\ cloud[n] \in Texts
      BY <1>0, KeptIsText DEF Once, BasedOnKept, OnceContext
    <3> QED  BY <1>2, <3>1, NotesOutboxAssumption DEF RereadFinds, MovedPastBase
  <2> QED  BY <1>2, <2>1, AnswerBeginsOnce DEF RereadFinds
<1> QED  BY <1>1, <1>2

\* Keep mine: from now on their version is the base.
LEMMA KeepMineOnce ==
  ASSUME OnceContext, NEW n \in Notes, KeepMine(n)
  PROVE  OnceInv'
<1> USE DEF KeepMine
<1> SUFFICES ASSUME NEW m \in Notes
             PROVE  Once(m)'
  BY DEF OnceInv
<1>0. /\ store \in Outbox /\ task \in [Notes -> Tasks] /\ Once(m)
      /\ kept \in [Notes -> Texts \cup {None}] /\ cache \in [Notes -> Texts]
      /\ theirs[n] \in Texts \cup {Unreadable} /\ edits \in Nat /\ now \in Nat
      /\ UNCHANGED <<cloud, worker, inbox, theirs>>
  BY DEF OnceContext, OnceInv, NotesInv, TypeOK, ControlInv, AsksAboutSomething
<1>1. CASE m # n
  <2>1. store'[m] = store[m] /\ task'[m] = task[m] /\ kept'[m] = kept[m]
    BY <1>0, <1>1 DEF Outbox, GoesTo
  <2> QED  BY <1>0, <2>1, OnceFrame
<1>2. CASE m = n
  <2>1. task'[n] = "saving" /\ worker[n].stage = "idle"
    BY <1>0 DEF GoesTo, IsSettled, Idle
  <2>2. kept'[n] # None =>
          kept'[n] = theirs[n] /\ TheirBase(n) = theirs[n] /\ inbox[n] = None
    BY <1>0 DEF TheirBase
  <2>3. store'[n] # None /\ store'[n].base = TheirBase(n)
    <3>1. TheirBase(n) \in Texts \cup {NoBase}
      BY <1>0 DEF TheirBase
    <3>2. CASE store[n] # None
      <4>1. store[n] \in Entry /\ store'[n] = [store[n] EXCEPT !.base = TheirBase(n)]
        BY <1>0, <3>2 DEF Outbox
      <4>2. store'[n] \in Entry /\ store'[n].base = TheirBase(n)
        BY <3>1, <4>1 DEF Entry
      <4> QED  BY <4>2, NotesOutboxAssumption
    <3>3. CASE store[n] = None
      <4>1. store'[n] = BuildEntry(None, edits + 1, cache[n], now + 1, TheirBase(n))
        BY <1>0, <3>3 DEF Outbox
      <4>2. cache[n] \in Texts /\ edits + 1 \in Nat \ {0} /\ now + 1 \in Nat
        BY <1>0
      <4>3. store'[n] \in Entry
        BY <3>1, <4>1, <4>2, BuiltEntry
      <4>4. store'[n].base = TheirBase(n)
        BY <4>1 DEF BuildEntry
      <4> QED  BY <4>3, <4>4, NotesOutboxAssumption
    <3> QED  BY <3>2, <3>3
  <2> QED  BY <1>0, <1>2, <2>1, <2>2, <2>3, KeptIsText
           DEF Once, Unasked, BasedOnKept, Asks
<1> QED  BY <1>1, <1>2

\* The other steps of an answer: what discards was not asked about what is
\* kept over.
LEMMA AnswerGoesOnOnce ==
  ASSUME OnceContext, NEW n \in Notes,
         \/ PromptOpens(n) \/ PromptAnswered(n) \/ KeepNothing(n) \/ LoadTheirs(n)
         \/ CopyFails(n) \/ LoadReturns(n) \/ RereadBegins(n) \/ RereadReads(n) \/ RereadEnds(n)
  PROVE  OnceInv'
<1> SUFFICES ASSUME NEW m \in Notes
             PROVE  Once(m)'
  BY DEF OnceInv
<1>0. /\ store \in Outbox /\ task \in [Notes -> Tasks] /\ Once(m)
  BY DEF OnceContext, OnceInv, NotesInv, TypeOK
<1>1. CASE LoadTheirs(n)
  <2>1. /\ UNCHANGED <<cloud, worker, inbox, theirs, kept>>
        /\ task[n] \in Asks /\ task'[n] = "discarding"
        /\ m # n => store'[m] = store[m] /\ task'[m] = task[m]
    BY <1>0, <1>1 DEF LoadTheirs, Discard, GoesTo, Outbox, Asks
  <2>2. CASE m # n
    BY <1>0, <2>1, <2>2, OnceFrame
  <2>3. CASE m = n
    BY <1>0, <2>1, <2>3 DEF Once, Unasked, BasedOnKept, Asks
  <2> QED  BY <2>2, <2>3
<1>2. CASE ~LoadTheirs(n)
  <2>1. UNCHANGED <<store, cloud, worker, inbox, theirs, kept>>
    BY <1>2 DEF PromptOpens, PromptAnswered, KeepNothing, CopyFails, LoadReturns,
                RereadBegins, RereadReads, RereadEnds
  <2>2. task'[m] \in Asks => task[m] \in Asks
    BY <1>0, <1>2 DEF PromptOpens, PromptAnswered, KeepNothing, CopyFails, LoadReturns,
                      RereadBegins, RereadReads, RereadEnds, EndTask, GoesTo, Asks
  <2> QED  BY <1>0, <2>1, <2>2, OnceFrame
<1> QED  BY <1>1, <1>2

\* A flush that returns asks nothing.
LEMMA FlushReturnsOnce ==
  ASSUME OnceContext, FlushReturns
  PROVE  OnceInv'
<1> SUFFICES ASSUME NEW m \in Notes
             PROVE  Once(m)'
  BY DEF OnceInv
<1>0. task \in [Notes -> Tasks] /\ Once(m)
  BY DEF OnceContext, OnceInv, NotesInv, TypeOK
<1>1. UNCHANGED <<store, cloud, worker, inbox, theirs, kept>>
  BY DEF FlushReturns
<1>2. task'[m] \in {task[m], "idle", "loading"}
  BY <1>0 DEF FlushReturns, EndTask, GoesTo
<1> QED  BY <1>0, <1>1, <1>2, OnceFrame DEF Asks

\* The rest of the world: an edit made elsewhere ends what was kept over.
LEMMA EnvironmentOnce ==
  ASSUME OnceContext, Environment
  PROVE  OnceInv'
<1> SUFFICES ASSUME NEW m \in Notes
             PROVE  Once(m)'
  BY DEF OnceInv
<1>0. /\ inbox \in [Notes -> Texts \cup {None, Unreadable}] /\ Once(m)
      /\ kept \in [Notes -> Texts \cup {None}] /\ cloud \in [Notes -> Contents]
  BY DEF OnceContext, OnceInv, NotesInv, TypeOK
<1>1. CASE \E n \in Notes : Open(n) \/ Close(n) \/ QueryReads(n) \/ QueryReturns(n)
  <2>1. UNCHANGED <<store, cloud, worker, task, theirs, kept>> /\ inbox'[m] \in {inbox[m], None}
    BY <1>0, <1>1 DEF Open, Close, QueryReads, QueryReturns
  <2> QED  BY <1>0, <2>1, OnceFrame
<1>2. ASSUME NEW n \in Notes, RemoteEdit(n)
      PROVE  Once(m)'
  <2>1. CASE m = n
    BY <1>0, <1>2, <2>1 DEF RemoteEdit, Once
  <2>2. CASE m # n
    <3>1. /\ UNCHANGED <<store, worker, task, theirs>>
          /\ inbox'[m] = inbox[m] /\ cloud'[m] = cloud[m] /\ kept'[m] = kept[m]
      BY <1>0, <1>2, <2>2 DEF RemoteEdit
    <3> QED  BY <1>0, <3>1, OnceFrame
  <2> QED  BY <2>1, <2>2
<1>3. CASE SocketDrops \/ Backgrounds \/ Foregrounds \/ NetworkGoes \/ NetworkComes \/ ClockSteps
  <2>1. UNCHANGED <<store, cloud, worker, task, theirs, inbox, kept>>
    BY <1>3 DEF SocketDrops, Backgrounds, Foregrounds, NetworkGoes, NetworkComes, ClockSteps,
                AppStateChanges, ExecuteNow, GoesOffline, GoesOnline
  <2> QED  BY <1>0, <2>1, OnceFrame
<1>4. CASE SocketReconnects
  <2>1. UNCHANGED <<store, cloud, task, theirs, inbox, kept>>
    BY <1>4 DEF SocketReconnects
  <2>2. /\ worker'[m].stage = worker[m].stage
        /\ worker[m].stage \in {"peeking", "peeked"} => worker'[m].entry = worker[m].entry
        /\ worker[m].stage = "peeked" => worker'[m].seen = worker[m].seen
        /\ worker[m].stage \notin {"peeking", "peeked"} => worker'[m] = worker[m]
    BY <1>4, WorkersGoOn DEF OnceContext
  <2> QED  BY <1>0, <2>1, <2>2 DEF Once, Unasked, BasedOnKept
<1>5. ~Crash
  BY DEF Crash, OnceContext, Kept, NotesInv, TypeOK
<1> QED  BY <1>1, <1>2, <1>3, <1>4, <1>5, TypeOnce DEF Environment, OnceInv

\* Every step keeps what was kept over unasked.
LEMMA NextOnce ==
  Kept /\ NotesInv /\ EditsInv /\ OnceInv /\ [Next]_vars => OnceInv'
<1> SUFFICES ASSUME OnceContext, [Next]_vars
             PROVE  OnceInv'
  BY DEF OnceContext
<1>1. CASE UNCHANGED vars
  <2>1. UNCHANGED <<store, cloud, worker, task, theirs, inbox, kept>>
    BY <1>1 DEF vars
  <2> QED  BY <2>1, OnceFrame DEF OnceContext, OnceInv
<1>2. CASE Restores \/ Reconciles \/ Passes \/ Timers
  BY <1>2, SyncOnce, NothingReconciled, PassBeginsOnce DEF Restores, Passes, OnceContext, Kept
<1>3. CASE \E n \in Notes : Works(n) \/ Lands(n) \/ PushGoesWrong(n)
  BY <1>3, PeekAnsweredOnce, PeekHandledOnce, PushLandsOnce, PushEndsOnce DEF Works
<1>4. CASE \E n \in Notes : AnswerSteps(n)
  BY <1>4, AnswersOnce, KeepMineOnce, AnswerGoesOnOnce DEF AnswerSteps
<1> QED  BY <1>1, <1>2, <1>3, <1>4, FlushReturnsOnce, EnvironmentOnce DEF Next

\* In one life of the process, unless the server rejects what was kept: once
\* the user kept theirs over a version, and none edited the note elsewhere since
\* it was shown, that version neither raises the overwrite warning nor is asked
\* about again, whatever else goes wrong.
THEOREM NotesAskedOnce ==
  ASSUME Kept
  PROVE  Spec => []AskedOnce
<1>1. Init => OnceInv
  BY DEF Init, OnceInv, Once
<1>2. NotesInv /\ EditsInv /\ OnceInv /\ [Next]_vars => OnceInv'
  BY NextOnce
<1>3. OnceInv => AskedOnce
  BY DEF OnceInv, Once, Unasked, AskedOnce, Asks
<1>4. Undisturbed
  BY DEF Undisturbed, Kept
<1> QED  BY <1>1, <1>2, <1>3, <1>4, NotesEdits, NotesInvariant, PTL DEF Spec
=============================================================================
