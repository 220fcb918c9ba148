--------------------------- MODULE FifoSemaphore ---------------------------
(***************************************************************************)
(* What packages/filen-shared/src/semaphore.ts promises its callers: at    *)
(* most MaxCount of them own a permit, and those who have to wait get one  *)
(* in the order they asked.  No array, no head index, no counter.          *)
(***************************************************************************)
EXTENDS Naturals, Sequences, FiniteSets

CONSTANTS Callers,  \* the asynchronous functions that share the semaphore
          MaxCount  \* how many permits there are

VARIABLES queue,    \* callers waiting for a permit, first come first
          owners    \* callers a permit was given to and not taken back from

fifoVars == <<queue, owners>>

Queued == {queue[i] : i \in 1..Len(queue)}

FifoInit == queue = <<>> /\ owners = {}

\* A caller asks while a permit is free: it owns one at once.
Take(c) ==
  /\ c \notin owners \cup Queued
  /\ Cardinality(owners) < MaxCount
  /\ owners' = owners \cup {c}
  /\ UNCHANGED queue

\* A caller asks while none is free: it is the last of the queue.
Enqueue(c) ==
  /\ c \notin owners \cup Queued
  /\ Cardinality(owners) >= MaxCount
  /\ queue' = Append(queue, c)
  /\ UNCHANGED owners

\* An owner gives its permit back: the head of the queue, if any, owns it.
GiveBack(c) ==
  /\ c \in owners
  /\ IF queue = <<>>
       THEN owners' = owners \ {c} /\ UNCHANGED queue
       ELSE /\ owners' = (owners \ {c}) \cup {Head(queue)}
            /\ queue' = Tail(queue)

FifoNext == \E c \in Callers : Take(c) \/ Enqueue(c) \/ GiveBack(c)

FifoSpec == FifoInit /\ [][FifoNext]_fifoVars
=============================================================================
