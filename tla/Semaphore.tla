----------------------------- MODULE Semaphore -----------------------------
(***************************************************************************)
(* packages/filen-shared/src/semaphore.ts, class Semaphore: a counter and  *)
(* a FIFO of waiters kept as an array with a head index, compacted when    *)
(* the consumed prefix grows.  Every mutex of the applications is one.     *)
(*                                                                         *)
(* JavaScript runs one callback at a time: acquire() and release() are one *)
(* action each, and what happens between them in other callbacks is an     *)
(* interleaving.  A resolved acquire() continues in a later microtask, so  *)
(* a caller is "granted" before it is "holding".                           *)
(***************************************************************************)
EXTENDS Naturals, Sequences, FiniteSets

CONSTANTS Callers,    \* the asynchronous functions that share the semaphore
          MaxCount,   \* the constructor's max
          CompactAt,  \* the consumed prefix a compaction waits for (4096)
          Freed       \* the array's `undefined` slots

ASSUME SemaphoreAssumption ==
  /\ IsFiniteSet(Callers)
  /\ MaxCount \in Nat \ {0}
  /\ CompactAt \in Nat
  /\ Freed \notin Callers

VARIABLES counter,     \* permits given out
          waiting,     \* the array: consumed slots first, then the waiters
          waitingHead, \* index of the first waiter (from 0)
          pc           \* where each caller is

vars == <<counter, waiting, waitingHead, pc>>

States == {"idle", "waiting", "granted", "holding"}

Init ==
  /\ counter = 0
  /\ waiting = <<>>
  /\ waitingHead = 0
  /\ pc = [c \in Callers |-> "idle"]

\* A slip: an off-by-one in the comparison with the maximum.
AcquireOneMore(c) ==
  /\ pc[c] = "idle"
  /\ counter <= MaxCount
  /\ counter' = counter + 1
  /\ pc' = [pc EXCEPT ![c] = "granted"]
  /\ UNCHANGED <<waiting, waitingHead>>

\* A slip: acquire() does not count the permit it hands out.
AcquireUncounted(c) ==
  /\ pc[c] = "idle"
  /\ counter < MaxCount
  /\ pc' = [pc EXCEPT ![c] = "granted"]
  /\ UNCHANGED <<counter, waiting, waitingHead>>

\* acquire() with a permit free.
AcquireFree(c) ==
  /\ pc[c] = "idle"
  /\ counter < MaxCount
  /\ counter' = counter + 1
  /\ pc' = [pc EXCEPT ![c] = "granted"]
  /\ UNCHANGED <<waiting, waitingHead>>

\* A slip: the newest waiter is put first.
AcquireJumps(c) ==
  /\ pc[c] = "idle"
  /\ counter >= MaxCount
  /\ waiting' = SubSeq(waiting, 1, waitingHead) \o <<c>>
                \o SubSeq(waiting, waitingHead + 1, Len(waiting))
  /\ pc' = [pc EXCEPT ![c] = "waiting"]
  /\ UNCHANGED <<counter, waitingHead>>

\* acquire() with none free: the promise's resolve goes to the array's end.
AcquireQueue(c) ==
  /\ pc[c] = "idle"
  /\ counter >= MaxCount
  /\ waiting' = Append(waiting, c)
  /\ pc' = [pc EXCEPT ![c] = "waiting"]
  /\ UNCHANGED <<counter, waitingHead>>

\* The continuation after `await acquire()` runs.
Resume(c) ==
  /\ pc[c] = "granted"
  /\ pc' = [pc EXCEPT ![c] = "holding"]
  /\ UNCHANGED <<counter, waiting, waitingHead>>

\* A slip: the loop hands out one permit too few.
GrantsNone(free) == 0

\* How often the loop of processQueue() turns with `free` the counter after
\* the decrement: until the array ends or the permits are out.
Grants(free) ==
  LET left == Len(waiting) - waitingHead
      room == MaxCount - free
  IN IF left < room THEN left ELSE room

\* A slip: the cut starts one slot late and loses a waiter.
CompactedShort(w, h) ==
  IF h >= Len(w) THEN [array |-> <<>>, head |-> 0]
  ELSE IF h > CompactAt /\ h * 2 > Len(w)
    THEN [array |-> SubSeq(w, h + 2, Len(w)), head |-> 0]
    ELSE [array |-> w, head |-> h]

\* What the end of processQueue() makes of array w and head h: dropped once
\* drained, cut to its live part when most of a long array is consumed.
Compacted(w, h) ==
  IF h >= Len(w) THEN [array |-> <<>>, head |-> 0]
  ELSE IF h > CompactAt /\ h * 2 > Len(w)
    THEN [array |-> SubSeq(w, h + 1, Len(w)), head |-> 0]
    ELSE [array |-> w, head |-> h]

\* release() by a holder, and the whole of processQueue(): the decrement, the
\* waiters handed a permit (their slots freed), then the compaction.
Release(c) ==
  LET k    == Grants(counter - 1)
      head == waitingHead + k
      kept == [i \in 1..Len(waiting) |->
                 IF i \in (waitingHead + 1)..head THEN Freed ELSE waiting[i]]
      next == Compacted(kept, head)
      woken == {waiting[i] : i \in (waitingHead + 1)..head}
  IN /\ pc[c] = "holding"
     /\ counter > 0
     /\ counter' = (counter - 1) + k
     /\ waiting' = next.array
     /\ waitingHead' = next.head
     /\ pc' = [d \in Callers |-> IF d \in woken THEN "granted"
                                 ELSE IF d = c THEN "idle" ELSE pc[d]]

Next == \E c \in Callers :
          AcquireFree(c) \/ AcquireQueue(c) \/ Resume(c) \/ Release(c)

\* Microtasks always run, and withPermit() releases in a finally whatever its
\* function did; nothing makes a caller ask.
Fairness == \A c \in Callers : WF_vars(Resume(c)) /\ WF_vars(Release(c))

Spec == Init /\ [][Next]_vars /\ Fairness
-----------------------------------------------------------------------------
Holders == {c \in Callers : pc[c] \in {"granted", "holding"}}

\* The live part of the array.
Live == SubSeq(waiting, waitingHead + 1, Len(waiting))

\* Types.
TypeOK ==
  /\ counter \in 0..MaxCount
  /\ waiting \in Seq(Callers \cup {Freed})
  /\ waitingHead \in 0..Len(waiting)
  /\ pc \in [Callers -> States]

\* The counter is the number of callers a permit was given to, so it never
\* leaks a permit nor hands one out twice.
CounterExact == counter = Cardinality(Holders)

\* No lost wake-up: a caller waits only while every permit is out.
NoLostWakeup == (\E c \in Callers : pc[c] = "waiting") => counter = MaxCount

\* The indices of the array's live part.
LiveSlots == (waitingHead + 1)..Len(waiting)

\* The live part of the array is the waiting callers, each once: a compaction
\* or a freed slot never loses one or keeps one that was handed its permit,
\* and processQueue() never spends a permit on an empty slot.
QueueIsWaiters ==
  /\ \A i \in LiveSlots : waiting[i] \in Callers
  /\ \A c \in Callers : pc[c] = "waiting" <=> \E i \in LiveSlots : waiting[i] = c
  /\ \A i, j \in LiveSlots : waiting[i] = waiting[j] => i = j

\* The head-indexed array with its compaction implements the FIFO semaphore.
Fifo == INSTANCE FifoSemaphore WITH queue <- Live, owners <- Holders

ImplementsFifo == Fifo!FifoSpec

\* A caller that waits gets its permit.
EventuallyGranted == \A c \in Callers : pc[c] = "waiting" ~> pc[c] = "holding"
=============================================================================
