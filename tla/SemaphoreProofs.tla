-------------------------- MODULE SemaphoreProofs --------------------------
(***************************************************************************)
(* Proofs about Semaphore for every number of callers and permits.         *)
(*                                                                         *)
(* The counter, the array and the callers' places are only correct         *)
(* together: one release() hands out at most one permit because callers    *)
(* wait only while every permit is out, and the callers it wakes are the   *)
(* ones that wait because the live slots are exactly the waiters.  IInv is *)
(* the conjunction, and is inductive.                                      *)
(*                                                                         *)
(* Under IInv the live part of the array and the holders behave as the     *)
(* queue and the owners of FifoSemaphore, step by step.                    *)
(***************************************************************************)
EXTENDS Semaphore, SequenceTheorems, FiniteSetTheorems, TLAPS

IInv == TypeOK /\ CounterExact /\ NoLostWakeup /\ QueueIsWaiters

\* A caller that is given a permit adds one to the holders, wherever it waited.
LEMMA HolderJoins ==
  ASSUME IsFiniteSet(Callers), NEW c \in Callers, c \notin Holders
  PROVE  Cardinality(Holders \cup {c}) = Cardinality(Holders) + 1
<1>1. IsFiniteSet(Holders)
  BY FS_Subset DEF Holders
<1> QED  BY <1>1, FS_AddElement

\* A holder that gives its permit back takes one from them.
LEMMA HolderLeaves ==
  ASSUME IsFiniteSet(Callers), NEW c \in Holders
  PROVE  Cardinality(Holders \ {c}) = Cardinality(Holders) - 1
<1>1. IsFiniteSet(Holders)
  BY FS_Subset DEF Holders
<1> QED  BY <1>1, FS_RemoveElement

\* Where the slots after index h of an array of n are when they are moved after
\* index p of one of m.
LEMMA ShiftedWithin ==
  ASSUME NEW h \in Nat, NEW n \in Nat, NEW p \in Nat, NEW m \in Nat, m - p = n - h
  PROVE  \A i \in (h + 1)..n : i - h + p \in (p + 1)..m
  OBVIOUS

\* When the slots after index h of array w reappear after index p of array v,
\* every such slot of v holds what exactly one of those slots of w held.
LEMMA Shifted ==
  ASSUME NEW w, NEW h \in Nat, NEW n \in Nat, NEW v, NEW p \in Nat, NEW m \in Nat,
         m - p = n - h,
         \A i \in (h + 1)..n : v[i - h + p] = w[i]
  PROVE  \A j \in (p + 1)..m : \E i \in (h + 1)..n : j = i - h + p /\ v[j] = w[i]
<1> SUFFICES ASSUME NEW j \in (p + 1)..m
             PROVE  \E i \in (h + 1)..n : j = i - h + p /\ v[j] = w[i]
  OBVIOUS
<1>1. j + h - p \in (h + 1)..n /\ (j + h - p) - h + p = j
  OBVIOUS
<1> QED  BY <1>1

\* No permit is out before anyone asked.
LEMMA InitIInv == Init => IInv
<1> SUFFICES ASSUME Init PROVE IInv
  OBVIOUS
<1> USE DEF Init
<1>1. TypeOK
  BY SemaphoreAssumption DEF TypeOK, States
<1>2. CounterExact
  <2>1. Holders = {}
    BY DEF Holders
  <2> QED  BY <2>1, FS_EmptySet DEF CounterExact
<1>3. NoLostWakeup
  BY DEF NoLostWakeup
<1>4. QueueIsWaiters
  BY DEF QueueIsWaiters, LiveSlots
<1> QED  BY <1>1, <1>2, <1>3, <1>4 DEF IInv

\* acquire() with a permit free keeps the books.
LEMMA AcquireFreeIInv ==
  ASSUME IInv, NEW c \in Callers, AcquireFree(c)
  PROVE  IInv'
<1> USE SemaphoreAssumption DEF AcquireFree
<1>1. TypeOK'
  BY DEF IInv, TypeOK, States
<1>2. CounterExact'
  <2>1. Holders' = Holders \cup {c} /\ c \notin Holders
    BY DEF IInv, TypeOK, Holders
  <2> QED  BY <2>1, HolderJoins DEF IInv, CounterExact
<1>3. NoLostWakeup'
  BY DEF IInv, TypeOK, NoLostWakeup
<1>4. QueueIsWaiters'
  BY DEF IInv, TypeOK, QueueIsWaiters, LiveSlots
<1> QED  BY <1>1, <1>2, <1>3, <1>4 DEF IInv

\* acquire() with none free: the caller is the array's last live slot.
LEMMA AcquireQueueIInv ==
  ASSUME IInv, NEW c \in Callers, AcquireQueue(c)
  PROVE  IInv'
<1> USE SemaphoreAssumption DEF AcquireQueue
<1>0. /\ Len(waiting') = Len(waiting) + 1
      /\ waiting'[Len(waiting) + 1] = c
      /\ \A i \in 1..Len(waiting) : waiting'[i] = waiting[i]
      /\ waiting' \in Seq(Callers \cup {Freed})
      /\ Len(waiting) \in Nat
  BY DEF IInv, TypeOK
<1>1. TypeOK'
  BY <1>0 DEF IInv, TypeOK, States
<1>2. CounterExact'
  <2>1. Holders' = Holders
    BY DEF IInv, TypeOK, Holders
  <2> QED  BY <2>1 DEF IInv, CounterExact
<1>3. NoLostWakeup'
  BY DEF IInv, TypeOK, NoLostWakeup
<1>4. QueueIsWaiters'
  <2>1. LiveSlots' = LiveSlots \cup {Len(waiting) + 1}
    BY <1>0 DEF IInv, TypeOK, LiveSlots
  <2>2. \A i \in LiveSlots : i \in 1..Len(waiting) /\ waiting'[i] = waiting[i]
    BY <1>0 DEF IInv, TypeOK, LiveSlots
  <2>3. \A i \in LiveSlots : waiting[i] # c
    BY DEF IInv, QueueIsWaiters
  <2>4. \A i \in LiveSlots' : waiting'[i] \in Callers
    BY <1>0, <2>1, <2>2 DEF IInv, QueueIsWaiters
  <2>5. \A d \in Callers : pc'[d] = "waiting" <=> \E i \in LiveSlots' : waiting'[i] = d
    <3> SUFFICES ASSUME NEW d \in Callers
                 PROVE  pc'[d] = "waiting" <=> \E i \in LiveSlots' : waiting'[i] = d
      OBVIOUS
    <3>1. CASE d = c
      BY <3>1, <1>0, <2>1 DEF IInv, TypeOK
    <3>2. CASE d # c
      BY <3>2, <1>0, <2>1, <2>2 DEF IInv, TypeOK, QueueIsWaiters
    <3> QED  BY <3>1, <3>2
  <2>6. \A i, j \in LiveSlots' : waiting'[i] = waiting'[j] => i = j
    BY <1>0, <2>1, <2>2, <2>3 DEF IInv, QueueIsWaiters
  <2> QED  BY <2>4, <2>5, <2>6 DEF QueueIsWaiters
<1> QED  BY <1>1, <1>2, <1>3, <1>4 DEF IInv

\* The continuation of a granted caller changes nothing but its place.
LEMMA ResumeIInv ==
  ASSUME IInv, NEW c \in Callers, Resume(c)
  PROVE  IInv'
<1> USE SemaphoreAssumption DEF Resume
<1>1. TypeOK'
  BY DEF IInv, TypeOK, States
<1>2. CounterExact'
  <2>1. Holders' = Holders
    BY DEF IInv, TypeOK, Holders
  <2> QED  BY <2>1 DEF IInv, CounterExact
<1>3. NoLostWakeup'
  BY DEF IInv, TypeOK, NoLostWakeup
<1>4. QueueIsWaiters'
  BY DEF IInv, TypeOK, QueueIsWaiters, LiveSlots
<1> QED  BY <1>1, <1>2, <1>3, <1>4 DEF IInv

\* The index of the first waiter after a release, before the compaction.
HeadAfter == IF waitingHead < Len(waiting) THEN waitingHead + 1 ELSE waitingHead

\* Whom a release hands its permit to: one caller, or nobody.
Woken == {waiting[i] : i \in (waitingHead + 1)..HeadAfter}

\* What release() does to the array: it hands the permit to the first live
\* slot's caller, or to nobody when no slot is live, and what compaction leaves
\* has the same live slots but that one, shifted.
LEMMA ReleaseEffect ==
  ASSUME IInv, NEW c \in Callers, Release(c)
  PROVE  /\ pc[c] = "holding"
         /\ counter \in 1..MaxCount
         /\ counter' = IF waitingHead < Len(waiting) THEN counter ELSE counter - 1
         /\ waitingHead < Len(waiting) => counter = MaxCount
         /\ pc' = [d \in Callers |-> IF d \in Woken THEN "granted"
                                     ELSE IF d = c THEN "idle" ELSE pc[d]]
         /\ HeadAfter \in waitingHead..Len(waiting)
         /\ waiting' \in Seq(Callers \cup {Freed})
         /\ waitingHead' \in 0..Len(waiting')
         /\ Len(waiting') - waitingHead' = Len(waiting) - HeadAfter
         /\ \A i \in (HeadAfter + 1)..Len(waiting) :
              waiting'[i - HeadAfter + waitingHead'] = waiting[i]
         /\ Woken \subseteq Callers
         /\ \A d \in Woken : pc[d] = "waiting"
<1> USE SemaphoreAssumption
<1> DEFINE k    == Grants(counter - 1)
           head == waitingHead + k
           kept == [i \in 1..Len(waiting) |->
                      IF i \in (waitingHead + 1)..head THEN Freed ELSE waiting[i]]
           next == Compacted(kept, head)
           woken == {waiting[i] : i \in (waitingHead + 1)..head}
<1>0. /\ pc[c] = "holding"
      /\ counter' = (counter - 1) + k
      /\ waiting' = next.array
      /\ waitingHead' = next.head
      /\ pc' = [d \in Callers |-> IF d \in woken THEN "granted"
                                  ELSE IF d = c THEN "idle" ELSE pc[d]]
      /\ counter \in 1..MaxCount
      /\ Len(waiting) \in Nat
      /\ waitingHead \in 0..Len(waiting)
      /\ pc \in [Callers -> States]
  BY DEF Release, IInv, TypeOK
<1>1. LiveSlots # {} <=> waitingHead < Len(waiting)
  BY <1>0 DEF LiveSlots
<1>2. waitingHead < Len(waiting) => counter = MaxCount
  <2> SUFFICES ASSUME waitingHead < Len(waiting) PROVE counter = MaxCount
    OBVIOUS
  <2>1. waitingHead + 1 \in LiveSlots
    BY <1>0 DEF LiveSlots
  <2>2. waiting[waitingHead + 1] \in Callers /\ pc[waiting[waitingHead + 1]] = "waiting"
    BY <2>1 DEF IInv, QueueIsWaiters
  <2> QED  BY <2>2 DEF IInv, NoLostWakeup
<1>3. k = IF waitingHead < Len(waiting) THEN 1 ELSE 0
  BY <1>0, <1>2 DEF Grants
<1>4. /\ head \in waitingHead..Len(waiting)
      /\ k \in {0, 1}
      /\ counter' \in 0..MaxCount
  <2>1. CASE waitingHead < Len(waiting)
    BY <2>1, <1>0, <1>2, <1>3
  <2>2. CASE ~(waitingHead < Len(waiting))
    BY <2>2, <1>0, <1>3
  <2> QED  BY <2>1, <2>2
<1>5. /\ kept \in Seq(Callers \cup {Freed})
      /\ Len(kept) = Len(waiting)
      /\ \A i \in (head + 1)..Len(waiting) : kept[i] = waiting[i]
  <2>1. waiting \in Seq(Callers \cup {Freed})
    BY DEF IInv, TypeOK
  <2>2. kept \in [1..Len(waiting) -> Callers \cup {Freed}]
    BY <2>1, <1>0, <1>4
  <2>3. kept \in Seq(Callers \cup {Freed}) /\ Len(kept) = Len(waiting)
    BY <2>2, <1>0
  <2>4. \A i \in (head + 1)..Len(waiting) :
          i \in 1..Len(waiting) /\ i \notin (waitingHead + 1)..head
    <3> HIDE DEF head
    <3> QED  BY <1>0, <1>4
  <2> QED  BY <2>3, <2>4
<1> HIDE DEF k, head, kept, next, woken
<1>6. /\ waiting' \in Seq(Callers \cup {Freed})
      /\ waitingHead' \in 0..Len(waiting')
      /\ Len(waiting') \in Nat
      /\ Len(waiting') - waitingHead' = Len(waiting) - head
      /\ \A i \in (head + 1)..Len(waiting) : waiting'[i - head + waitingHead'] = waiting[i]
  <2>1. CASE head >= Len(kept)
    <3>1. waiting' = <<>> /\ waitingHead' = 0
      BY <2>1, <1>0 DEF Compacted, next
    <3>2. head = Len(waiting)
      BY <2>1, <1>0, <1>4, <1>5
    <3> QED  BY <3>1, <3>2, <1>0
  <2>2. CASE head < Len(kept) /\ head > CompactAt /\ head * 2 > Len(kept)
    <3>1. waiting' = SubSeq(kept, head + 1, Len(kept)) /\ waitingHead' = 0
      BY <2>2, <1>0, <1>4, <1>5 DEF Compacted, next
    <3>2. /\ waiting' \in Seq(Callers \cup {Freed})
          /\ Len(waiting') = Len(waiting) - head
          /\ \A i \in 1..(Len(waiting) - head) : waiting'[i] = kept[head + i]
      BY <3>1, <2>2, <1>0, <1>4, <1>5
    <3>3. \A i \in (head + 1)..Len(waiting) :
            i - head \in 1..(Len(waiting) - head) /\ head + (i - head) = i
      BY <1>4, <1>0
    <3>4. \A i \in (head + 1)..Len(waiting) : waiting'[i - head] = waiting[i]
      BY <3>2, <3>3, <1>5
    <3>5. \A i \in (head + 1)..Len(waiting) : i - head + waitingHead' = i - head
      BY <3>1, <1>4, <1>0
    <3>6. Len(waiting') \in Nat /\ Len(waiting') - waitingHead' = Len(waiting) - head
      BY <3>1, <3>2, <1>0, <1>4
    <3>7. waitingHead' \in 0..Len(waiting')
      <4>1. waitingHead' = 0
        BY <3>1
      <4> QED  BY <4>1, <3>6
    <3>8. \A i \in (head + 1)..Len(waiting) : waiting'[i - head + waitingHead'] = waiting[i]
      BY <3>4, <3>5
    <3> QED  BY <3>2, <3>6, <3>7, <3>8
  <2>3. CASE head < Len(kept) /\ ~(head > CompactAt /\ head * 2 > Len(kept))
    <3>1. waiting' = kept /\ waitingHead' = head
      BY <2>3, <1>0, <1>4, <1>5 DEF Compacted, next
    <3>2. \A i \in (head + 1)..Len(waiting) : i - head + waitingHead' = i
      BY <3>1, <1>0, <1>4
    <3> QED  BY <3>1, <3>2, <1>0, <1>4, <1>5
  <2> QED  BY <2>1, <2>2, <2>3, <1>0, <1>4, <1>5
<1>7. woken \subseteq Callers /\ (\A d \in woken : pc[d] = "waiting")
  <2>1. (waitingHead + 1)..head \subseteq LiveSlots
    BY <1>0, <1>4 DEF LiveSlots
  <2> QED  BY <2>1 DEF IInv, QueueIsWaiters, woken
<1>8. head = HeadAfter /\ woken = Woken
  BY <1>0, <1>3 DEF head, woken, HeadAfter, Woken
<1> QED  BY <1>0, <1>2, <1>3, <1>4, <1>6, <1>7, <1>8

\* release() keeps the books: the permit moves to the first waiter or returns
\* to the counter.
LEMMA ReleaseIInv ==
  ASSUME IInv, NEW c \in Callers, Release(c)
  PROVE  IInv'
<1> USE SemaphoreAssumption
<1> DEFINE head == HeadAfter
           woken == Woken
<1>0. /\ pc[c] = "holding"
      /\ counter \in 1..MaxCount
      /\ counter' = IF waitingHead < Len(waiting) THEN counter ELSE counter - 1
      /\ pc' = [d \in Callers |-> IF d \in woken THEN "granted"
                                  ELSE IF d = c THEN "idle" ELSE pc[d]]
      /\ Len(waiting) \in Nat
      /\ waitingHead \in 0..Len(waiting)
      /\ pc \in [Callers -> States]
  BY ReleaseEffect DEF IInv, TypeOK
<1>1. LiveSlots # {} <=> waitingHead < Len(waiting)
  BY <1>0 DEF LiveSlots
<1>2. waitingHead < Len(waiting) => counter = MaxCount
  BY ReleaseEffect
<1>3. head = IF waitingHead < Len(waiting) THEN waitingHead + 1 ELSE waitingHead
  BY DEF HeadAfter
<1>4. head \in waitingHead..Len(waiting) /\ counter' \in 0..MaxCount
  BY <1>0, ReleaseEffect
<1>5. woken = {waiting[i] : i \in (waitingHead + 1)..head}
  BY DEF Woken
<1>6. /\ waiting' \in Seq(Callers \cup {Freed})
      /\ waitingHead' \in 0..Len(waiting')
      /\ Len(waiting') \in Nat
      /\ Len(waiting') - waitingHead' = Len(waiting) - head
      /\ \A i \in (head + 1)..Len(waiting) : waiting'[i - head + waitingHead'] = waiting[i]
  BY ReleaseEffect
<1>8. woken \subseteq Callers /\ (\A d \in woken : pc[d] = "waiting")
  BY ReleaseEffect
<1> HIDE DEF head, woken
<1>7. TypeOK'
  BY <1>0, <1>4, <1>6 DEF TypeOK, States
<1>9. CounterExact'
  <2>1. c \in Holders /\ c \notin woken
    BY <1>0, <1>8 DEF Holders
  <2>2. Cardinality(Holders \ {c}) = Cardinality(Holders) - 1
    BY <2>1, HolderLeaves
  <2>3. IsFiniteSet(Holders \ {c})
    BY FS_Subset DEF Holders
  <2>4. Holders' = (Holders \ {c}) \cup woken
    BY <1>0, <1>8 DEF Holders
  <2>5. CASE waitingHead < Len(waiting)
    <3>1. woken = {waiting[waitingHead + 1]}
      BY <2>5, <1>0, <1>3, <1>5
    <3>2. waiting[waitingHead + 1] \notin Holders
      BY <3>1, <1>8 DEF Holders
    <3>3. Cardinality((Holders \ {c}) \cup {waiting[waitingHead + 1]})
            = Cardinality(Holders \ {c}) + 1
      BY <2>3, <3>2, FS_AddElement
    <3>4. Cardinality(Holders') = Cardinality(Holders)
      BY <3>1, <3>3, <2>2, <2>4, FS_CardinalityType, <1>0 DEF IInv, CounterExact
    <3> QED  BY <3>4, <2>5, <1>0, <1>3 DEF IInv, CounterExact
  <2>6. CASE ~(waitingHead < Len(waiting))
    <3>1. woken = {}
      BY <2>6, <1>0, <1>3, <1>5
    <3>2. Cardinality(Holders') = Cardinality(Holders) - 1
      BY <3>1, <2>2, <2>4
    <3> QED  BY <3>2, <2>6, <1>0, <1>3 DEF IInv, CounterExact
  <2> QED  BY <2>5, <2>6
<1>10. \A d \in Callers : pc'[d] = "waiting" <=> pc[d] = "waiting" /\ d \notin woken
  BY <1>0
<1>11. NoLostWakeup'
  <2>1. CASE waitingHead < Len(waiting)
    BY <2>1, <1>0, <1>2, <1>3 DEF NoLostWakeup
  <2>2. CASE ~(waitingHead < Len(waiting))
    <3>1. \A d \in Callers : pc[d] # "waiting"
      BY <2>2, <1>1 DEF IInv, QueueIsWaiters
    <3> QED  BY <3>1, <1>10 DEF NoLostWakeup
  <2> QED  BY <2>1, <2>2
<1>12. QueueIsWaiters'
  <2> DEFINE Rest == (head + 1)..Len(waiting)
  <2>1. Rest \subseteq LiveSlots /\ (\A i \in Rest : i \in Int)
    BY <1>0, <1>4 DEF LiveSlots
  <2>2. \A i \in Rest : i - head + waitingHead' \in LiveSlots'
                        /\ waiting'[i - head + waitingHead'] = waiting[i]
    <3>0. /\ head \in Nat /\ Len(waiting) \in Nat
          /\ waitingHead' \in Nat /\ Len(waiting') \in Nat
          /\ Len(waiting') - waitingHead' = Len(waiting) - head
      BY <1>0, <1>4, <1>6
    <3>1. \A i \in Rest : i - head + waitingHead' \in (waitingHead' + 1)..Len(waiting')
      BY <3>0, ShiftedWithin
    <3>2. \A i \in Rest : i - head + waitingHead' \in LiveSlots'
      BY <3>1 DEF LiveSlots
    <3> QED  BY <3>2, <1>6
  <2>3. \A j \in LiveSlots' : \E i \in Rest :
          j = i - head + waitingHead' /\ waiting'[j] = waiting[i]
    <3> DEFINE h == head
               n == Len(waiting)
               p == waitingHead'
               m == Len(waiting')
               v == waiting'
    <3>1. h \in Nat /\ n \in Nat /\ p \in Nat /\ m \in Nat
      BY <1>0, <1>4, <1>6
    <3>2. m - p = n - h /\ (\A i \in (h + 1)..n : v[i - h + p] = waiting[i])
      BY <1>6
    <3>3. \A j \in (p + 1)..m : \E i \in (h + 1)..n : j = i - h + p /\ v[j] = waiting[i]
      <4> HIDE DEF h, n, p, m, v
      <4> QED  BY <3>1, <3>2, Shifted
    <3> QED  BY <3>3 DEF LiveSlots
  <2>4. \A d \in woken : \A i \in Rest : waiting[i] # d
    <3>1. \A i \in (waitingHead + 1)..head : i \in LiveSlots /\ i \notin Rest
      BY <1>0, <1>4 DEF LiveSlots
    <3> QED  BY <3>1, <2>1, <1>5 DEF IInv, QueueIsWaiters
  <2>5. \A i \in LiveSlots : waiting[i] \in woken \/ i \in Rest
    BY <1>0, <1>4, <1>5 DEF LiveSlots
  <2>6. \A i \in LiveSlots' : waiting'[i] \in Callers
    BY <2>1, <2>3 DEF IInv, QueueIsWaiters
  <2>7. \A d \in Callers : pc'[d] = "waiting" <=> \E i \in Rest : waiting[i] = d
    BY <2>1, <2>4, <2>5, <1>10 DEF IInv, QueueIsWaiters
  <2>8. \A d \in Callers : pc'[d] = "waiting" <=> \E i \in LiveSlots' : waiting'[i] = d
    BY <2>2, <2>3, <2>7
  <2>9. \A i, j \in LiveSlots' : waiting'[i] = waiting'[j] => i = j
    <3> SUFFICES ASSUME NEW i \in LiveSlots', NEW j \in LiveSlots',
                        waiting'[i] = waiting'[j]
                 PROVE  i = j
      OBVIOUS
    <3>1. PICK i0 \in Rest : i = i0 - head + waitingHead' /\ waiting'[i] = waiting[i0]
      BY <2>3
    <3>2. PICK j0 \in Rest : j = j0 - head + waitingHead' /\ waiting'[j] = waiting[j0]
      BY <2>3
    <3>3. i0 = j0
      BY <3>1, <3>2, <2>1 DEF IInv, QueueIsWaiters
    <3> QED  BY <3>1, <3>2, <3>3
  <2> QED  BY <2>6, <2>8, <2>9 DEF QueueIsWaiters
<1> QED  BY <1>7, <1>9, <1>11, <1>12 DEF IInv

\* The books balance after every step.
LEMMA NextIInv == IInv /\ [Next]_vars => IInv'
<1> SUFFICES ASSUME IInv, [Next]_vars PROVE IInv'
  OBVIOUS
<1>1. CASE UNCHANGED vars
  BY <1>1 DEF vars, IInv, TypeOK, CounterExact, NoLostWakeup, QueueIsWaiters,
     Holders, LiveSlots
<1>2. ASSUME NEW c \in Callers, AcquireFree(c) PROVE IInv'
  BY <1>2, AcquireFreeIInv
<1>3. ASSUME NEW c \in Callers, AcquireQueue(c) PROVE IInv'
  BY <1>3, AcquireQueueIInv
<1>4. ASSUME NEW c \in Callers, Resume(c) PROVE IInv'
  BY <1>4, ResumeIInv
<1>5. ASSUME NEW c \in Callers, Release(c) PROVE IInv'
  BY <1>5, ReleaseIInv
<1> QED  BY <1>1, <1>2, <1>3, <1>4, <1>5 DEF Next

\* Invariance of IInv, from which the theorems below follow.
LEMMA SpecIInv == Spec => []IInv
  BY InitIInv, NextIInv, PTL DEF Spec

\* class Semaphore keeps its types: the counter within 0..max, the head within
\* the array.
THEOREM SemaphoreTypes == Spec => []TypeOK
  BY SpecIInv, PTL DEF IInv

\* A permit is never leaked nor handed out twice, however acquire(), the
\* continuations and release() interleave.
THEOREM SemaphoreCounts == Spec => []CounterExact
  BY SpecIInv, PTL DEF IInv

\* No caller is left waiting in the array while a permit is free.
THEOREM SemaphoreNoLostWakeup == Spec => []NoLostWakeup
  BY SpecIInv, PTL DEF IInv

\* The live slots are the waiting callers through every compaction.
THEOREM SemaphoreQueue == Spec => []QueueIsWaiters
  BY SpecIInv, PTL DEF IInv

\* Mutual exclusion: at most max callers are past acquire() at once.
THEOREM SemaphoreExclusion == Spec => [](Cardinality(Holders) <= MaxCount)
<1>1. IInv => Cardinality(Holders) <= MaxCount
  BY SemaphoreAssumption DEF IInv, TypeOK, CounterExact
<1> QED  BY <1>1, SpecIInv, PTL

\* The live part of the array as a sequence.
LEMMA LiveSequence ==
  ASSUME NEW S, NEW w \in Seq(S), NEW h \in 0..Len(w)
  PROVE  LET live == SubSeq(w, h + 1, Len(w))
         IN  /\ live \in Seq(S)
             /\ Len(live) = Len(w) - h
             /\ \A i \in 1..(Len(w) - h) : live[i] = w[h + i]
<1>1. Len(w) \in Nat /\ h \in Nat /\ h <= Len(w)
  OBVIOUS
<1>2. CASE h = Len(w)
  <2>1. SubSeq(w, h + 1, Len(w)) = << >>
    BY <1>1, <1>2, SubSeqEmpty
  <2> QED  BY <2>1, <1>1, <1>2
<1>3. CASE h < Len(w)
  BY <1>1, <1>3, SubSeqProperties
<1> QED  BY <1>1, <1>2, <1>3

\* Before anyone asked, nobody waits and nobody owns a permit.
LEMMA InitFifo == Init => Fifo!FifoInit
<1> SUFFICES ASSUME Init PROVE Fifo!FifoInit
  OBVIOUS
<1>1. Live = <<>>
  BY SubSeqEmpty DEF Init, Live
<1>2. Holders = {}
  BY DEF Init, Holders
<1> QED  BY <1>1, <1>2 DEF Fifo!FifoInit

\* Who is in the FIFO's queue is who waits.
LEMMA QueuedWaits ==
  ASSUME IInv, NEW c \in Callers
  PROVE  c \in Fifo!Queued <=> pc[c] = "waiting"
<1>1. /\ waiting \in Seq(Callers \cup {Freed})
      /\ waitingHead \in 0..Len(waiting)
      /\ Len(waiting) \in Nat
  BY DEF IInv, TypeOK
<1>2. /\ Len(Live) = Len(waiting) - waitingHead
      /\ \A i \in 1..(Len(waiting) - waitingHead) : Live[i] = waiting[waitingHead + i]
  BY <1>1, LiveSequence DEF Live
<1>3. c \in Fifo!Queued <=> \E i \in 1..Len(Live) : Live[i] = c
  BY DEF Fifo!Queued
<1>4. (\E i \in 1..Len(Live) : Live[i] = c) <=> \E i \in LiveSlots : waiting[i] = c
  <2>1. \A i \in 1..Len(Live) : waitingHead + i \in LiveSlots
    BY <1>1, <1>2 DEF LiveSlots
  <2>2. \A i \in LiveSlots : /\ i - waitingHead \in 1..Len(Live)
                             /\ waitingHead + (i - waitingHead) = i
    BY <1>1, <1>2 DEF LiveSlots
  <2> QED  BY <2>1, <2>2, <1>2
<1> QED  BY <1>3, <1>4 DEF IInv, QueueIsWaiters

\* The FIFO counts its owners as FiniteSets does.
LEMMA FifoCardinality == \A T : Fifo!Cardinality(T) = Cardinality(T)
  BY DEF Fifo!Cardinality, Cardinality

\* acquire() with a permit free is a Take.
LEMMA AcquireFreeTakes ==
  ASSUME IInv, NEW c \in Callers, AcquireFree(c)
  PROVE  Fifo!Take(c)
<1>1. Holders' = Holders \cup {c} /\ c \notin Holders /\ pc[c] # "waiting"
  BY DEF IInv, TypeOK, Holders, AcquireFree
<1>2. c \notin Fifo!Queued
  BY <1>1, QueuedWaits
<1>3. Fifo!Cardinality(Holders) < MaxCount
  BY FifoCardinality DEF IInv, CounterExact, AcquireFree
<1>4. Live' = Live
  BY DEF Live, AcquireFree
<1> QED  BY <1>1, <1>2, <1>3, <1>4 DEF Fifo!Take

\* acquire() with none free is an Enqueue.
LEMMA AcquireQueueEnqueues ==
  ASSUME IInv, NEW c \in Callers, AcquireQueue(c)
  PROVE  Fifo!Enqueue(c)
<1>1. Holders' = Holders /\ c \notin Holders /\ pc[c] # "waiting"
  BY DEF IInv, TypeOK, Holders, AcquireQueue
<1>2. c \notin Fifo!Queued
  BY <1>1, QueuedWaits
<1>3. Fifo!Cardinality(Holders) >= MaxCount
  BY FifoCardinality DEF IInv, CounterExact, AcquireQueue
<1>4. Live' = Append(Live, c)
  <2> DEFINE S == Callers \cup {Freed}
             n == Len(waiting) - waitingHead
  <2>1. /\ waiting \in Seq(S)
        /\ waitingHead \in 0..Len(waiting)
        /\ Len(waiting) \in Nat
    BY DEF IInv, TypeOK
  <2>2. /\ waitingHead' = waitingHead
        /\ waiting' \in Seq(S)
        /\ Len(waiting') = Len(waiting) + 1
        /\ waiting'[Len(waiting) + 1] = c
        /\ \A i \in 1..Len(waiting) : waiting'[i] = waiting[i]
    BY <2>1 DEF AcquireQueue
  <2>3. /\ Live \in Seq(S)
        /\ Len(Live) = n
        /\ \A i \in 1..n : Live[i] = waiting[waitingHead + i]
    BY <2>1, LiveSequence DEF Live
  <2>4. /\ Live' \in Seq(S)
        /\ Len(Live') = Len(waiting') - waitingHead'
        /\ \A i \in 1..(Len(waiting') - waitingHead') :
             (Live')[i] = waiting'[waitingHead' + i]
    <3>1. waitingHead' \in 0..Len(waiting')
      BY <2>1, <2>2
    <3> QED  BY <2>2, <3>1, LiveSequence DEF Live
  <2>5. n \in Nat /\ Len(waiting') - waitingHead' = n + 1
    BY <2>1, <2>2
  <2>6. /\ Append(Live, c) \in Seq(S)
        /\ Len(Append(Live, c)) = n + 1
        /\ \A i \in 1..n : Append(Live, c)[i] = Live[i]
        /\ Append(Live, c)[n + 1] = c
    BY <2>3, <2>5
  <2>7. \A i \in 1..(n + 1) : (Live')[i] = Append(Live, c)[i]
    <3> SUFFICES ASSUME NEW i \in 1..(n + 1) PROVE (Live')[i] = Append(Live, c)[i]
      OBVIOUS
    <3>1. (Live')[i] = waiting'[waitingHead + i]
      BY <2>2, <2>4, <2>5
    <3>2. CASE i = n + 1
      <4>1. waitingHead + i = Len(waiting) + 1
        BY <2>1, <3>2
      <4> QED  BY <4>1, <3>1, <3>2, <2>2, <2>6
    <3>3. CASE i # n + 1
      <4>1. i \in 1..n /\ waitingHead + i \in 1..Len(waiting)
        BY <2>1, <2>5, <3>3
      <4> QED  BY <4>1, <3>1, <2>2, <2>3, <2>6
    <3> QED  BY <3>2, <3>3
  <2> HIDE DEF n, S
  <2> QED  BY <2>4, <2>5, <2>6, <2>7, SeqEqual
<1> QED  BY <1>1, <1>2, <1>3, <1>4 DEF Fifo!Enqueue

\* release() is a GiveBack: the permit goes to the head of the queue, if any.
LEMMA ReleaseGivesBack ==
  ASSUME IInv, IInv', NEW c \in Callers, Release(c)
  PROVE  Fifo!GiveBack(c)
<1> DEFINE S == Callers \cup {Freed}
           n == Len(waiting) - waitingHead
<1>1. /\ waiting \in Seq(S) /\ waiting' \in Seq(S)
      /\ waitingHead \in 0..Len(waiting) /\ waitingHead' \in 0..Len(waiting')
      /\ Len(waiting) \in Nat /\ Len(waiting') \in Nat
      /\ pc \in [Callers -> States]
  BY DEF IInv, TypeOK
<1>2. /\ Live \in Seq(S)
      /\ Len(Live) = n
      /\ \A i \in 1..n : Live[i] = waiting[waitingHead + i]
  BY <1>1, LiveSequence DEF Live
<1>3. /\ Live' \in Seq(S)
      /\ Len(Live') = Len(waiting') - waitingHead'
      /\ \A i \in 1..(Len(waiting') - waitingHead') :
           (Live')[i] = waiting'[waitingHead' + i]
  BY <1>1, LiveSequence DEF Live
<1>4. /\ pc[c] = "holding"
      /\ \A d \in Callers : pc'[d] = IF d \in Woken THEN "granted"
                                     ELSE IF d = c THEN "idle" ELSE pc[d]
      /\ Len(waiting') - waitingHead' = Len(waiting) - HeadAfter
      /\ \A i \in (HeadAfter + 1)..Len(waiting) :
           waiting'[i - HeadAfter + waitingHead'] = waiting[i]
      /\ Woken \subseteq Callers
      /\ \A d \in Woken : pc[d] = "waiting"
  BY ReleaseEffect
<1>5. c \in Holders /\ Holders' = (Holders \ {c}) \cup Woken
  BY <1>4 DEF Holders
<1>6. CASE waitingHead = Len(waiting)
  <2>1. HeadAfter = waitingHead /\ Woken = {}
    BY <1>1, <1>6 DEF HeadAfter, Woken
  <2>2. Len(Live) = 0 /\ Len(Live') = 0
    BY <1>1, <1>2, <1>3, <1>4, <1>6, <2>1
  <2>3. Live = <<>> /\ Live' = <<>>
    BY <1>2, <1>3, <2>2, EmptySeq
  <2> QED  BY <1>5, <2>1, <2>3 DEF Fifo!GiveBack
<1>7. CASE waitingHead < Len(waiting)
  <2>1. HeadAfter = waitingHead + 1 /\ Woken = {waiting[waitingHead + 1]}
    BY <1>1, <1>7 DEF HeadAfter, Woken
  <2>2. n \in Nat \ {0} /\ Live # <<>>
    BY <1>1, <1>2, <1>7
  <2>3. Head(Live) = waiting[waitingHead + 1]
    BY <1>2, <2>2
  <2>4. Live' = Tail(Live)
    <3>1. /\ Tail(Live) \in Seq(S)
          /\ Len(Tail(Live)) = n - 1
          /\ \A i \in 1..(n - 1) : Tail(Live)[i] = Live[i + 1]
      <4> HIDE DEF n, S
      <4> QED  BY <1>2, <2>2
    <3>2. Len(Live') = n - 1
      BY <1>1, <1>3, <1>4, <2>1
    <3>3. \A i \in 1..(n - 1) : (Live')[i] = Tail(Live)[i]
      <4> SUFFICES ASSUME NEW i \in 1..(n - 1) PROVE (Live')[i] = Tail(Live)[i]
        OBVIOUS
      <4>1. (Live')[i] = waiting'[waitingHead' + i]
        BY <1>3, <3>2, <2>2
      <4>2. Tail(Live)[i] = waiting[waitingHead + (i + 1)]
        BY <1>2, <3>1, <2>2
      <4>3. /\ HeadAfter + i \in (HeadAfter + 1)..Len(waiting)
            /\ (HeadAfter + i) - HeadAfter + waitingHead' = waitingHead' + i
            /\ waitingHead + (i + 1) = HeadAfter + i
        BY <1>1, <2>1
      <4>4. waiting'[waitingHead' + i] = waiting[HeadAfter + i]
        BY <1>4, <4>3
      <4> QED  BY <4>1, <4>2, <4>3, <4>4
    <3> HIDE DEF n, S
    <3> QED  BY <1>3, <3>1, <3>2, <3>3, SeqEqual
  <2> QED  BY <1>5, <2>1, <2>2, <2>3, <2>4 DEF Fifo!GiveBack
<1> QED  BY <1>1, <1>6, <1>7

\* Every step of the array with its head index is a step of the FIFO or none.
LEMMA NextFifo ==
  IInv /\ IInv' /\ [Next]_vars => [Fifo!FifoNext]_(Fifo!fifoVars)
<1> SUFFICES ASSUME IInv, IInv', [Next]_vars
             PROVE  [Fifo!FifoNext]_(Fifo!fifoVars)
  OBVIOUS
<1>1. CASE UNCHANGED vars
  BY <1>1 DEF vars, Fifo!fifoVars, Live, Holders
<1>2. ASSUME NEW c \in Callers, AcquireFree(c) PROVE Fifo!FifoNext
  BY <1>2, AcquireFreeTakes DEF Fifo!FifoNext
<1>3. ASSUME NEW c \in Callers, AcquireQueue(c) PROVE Fifo!FifoNext
  BY <1>3, AcquireQueueEnqueues DEF Fifo!FifoNext
<1>4. ASSUME NEW c \in Callers, Resume(c) PROVE UNCHANGED Fifo!fifoVars
  <2>1. Holders' = Holders
    BY <1>4 DEF IInv, TypeOK, Holders, Resume
  <2>2. Live' = Live
    BY <1>4 DEF Live, Resume
  <2> QED  BY <2>1, <2>2 DEF Fifo!fifoVars
<1>5. ASSUME NEW c \in Callers, Release(c) PROVE Fifo!FifoNext
  BY <1>5, ReleaseGivesBack DEF Fifo!FifoNext
<1> QED  BY <1>1, <1>2, <1>3, <1>4, <1>5 DEF Next

\* The array with its head index, its freed slots and its compaction is a FIFO
\* semaphore: whoever asks while a permit is free owns one, whoever asks later
\* is served in the order of asking, and nobody else ever owns one.
THEOREM SemaphoreImplementsFifo == Spec => ImplementsFifo
<1>1. IInv /\ IInv' /\ [Next]_vars => [Fifo!FifoNext]_(Fifo!fifoVars)
  BY NextFifo
<1>2. Spec => Init /\ []IInv /\ [][Next]_vars
  BY SpecIInv, PTL DEF Spec
<1> QED  BY InitFifo, <1>1, <1>2, PTL DEF ImplementsFifo, Fifo!FifoSpec
=============================================================================
