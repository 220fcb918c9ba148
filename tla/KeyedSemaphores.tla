--------------------------- MODULE KeyedSemaphores --------------------------
(***************************************************************************)
(* packages/filen-shared/src/semaphore.ts, class KeyedSemaphores, used     *)
(* through acquire(): a mutex per key, made on first use and dropped from  *)
(* the map by the last release, so that the map stays bounded.             *)
(*                                                                         *)
(* A caller goes on with the instance it found, whatever the map holds     *)
(* later.  An instance is the line of its callers: of Semaphore(1), which  *)
(* implements FifoSemaphore, the first owns the permit and the others wait *)
(* (Semaphore's count() is 0 when the line is empty).  An instance nobody  *)
(* refers to any more is garbage, and a new one may take its name.         *)
(***************************************************************************)
EXTENDS Naturals, Sequences, FiniteSets

CONSTANTS Callers,    \* the asynchronous functions that lock keys
          Keys,
          Instances,  \* names for the semaphores alive at once
          None        \* no entry in the map, no key, no instance

ASSUME KeyedAssumption == None \notin Keys \cup Instances

VARIABLES semaphores,  \* the map: the instance of each key, or None
          line,        \* the callers of each instance, the permit's owner first
          key,         \* the key each caller asked for, or None
          instance     \* the instance it found, until its release

keyedVars == <<semaphores, line, key, instance>>

KeyedInit ==
  /\ semaphores = [k \in Keys |-> None]
  /\ line = [i \in Instances |-> <<>>]
  /\ key = [c \in Callers |-> None]
  /\ instance = [c \in Callers |-> None]

\* Names free for a `new Semaphore(1)`.
Garbage == {i \in Instances : /\ \A k \in Keys : semaphores[k] # i
                              /\ \A c \in Callers : instance[c] # i}

\* A slip: the map learns of the new instance when its permit is given back.
ForUnset(k, i) ==
  /\ IF semaphores[k] = None THEN i \in Garbage ELSE i = semaphores[k]
  /\ UNCHANGED semaphores

\* for(k): the key's instance, i, is there or is made.
For(k, i) ==
  /\ IF semaphores[k] = None THEN i \in Garbage ELSE i = semaphores[k]
  /\ semaphores' = [semaphores EXCEPT ![k] = i]

\* acquire(k), until `await semaphore.acquire()`.
Acquire(c, k) ==
  \E i \in Instances :
    /\ key[c] = None
    /\ For(k, i)
    /\ line' = [line EXCEPT ![i] = Append(@, c)]
    /\ key' = [key EXCEPT ![c] = k]
    /\ instance' = [instance EXCEPT ![c] = i]

\* The caller's acquire() has resolved.
Holds(c) == /\ instance[c] # None
            /\ line[instance[c]] # <<>> /\ Head(line[instance[c]]) = c

\* A slip: a release drops the entry whoever waits.
Drops(k, i) == semaphores[k] = i

\* A slip: an entry is never dropped.
NeverDropped(k, i) == FALSE

\* The release drops the entry when nothing holds or waits on it and it is
\* still this instance's.
Dropped(k, i) == line'[i] = <<>> /\ semaphores[k] = i

\* The release function's first call; a later one does nothing.
ReleaseKey(c) ==
  LET k == key[c]
      i == instance[c]
  IN /\ Holds(c)
     /\ line' = [line EXCEPT ![i] = Tail(@)]
     /\ semaphores' = [semaphores EXCEPT ![k] = IF Dropped(k, i) THEN None ELSE @]
     /\ key' = [key EXCEPT ![c] = None]
     /\ instance' = [instance EXCEPT ![c] = None]

KeyedNext == \E c \in Callers : ReleaseKey(c) \/ \E k \in Keys : Acquire(c, k)

\* Who holds a key gives it back; nothing makes a caller ask.
KeyedSpec == /\ KeyedInit /\ [][KeyedNext]_keyedVars
             /\ \A c \in Callers : WF_keyedVars(ReleaseKey(c))
-----------------------------------------------------------------------------
\* Types.
KeyedTypeOK ==
  /\ semaphores \in [Keys -> Instances \cup {None}]
  /\ line \in [Instances -> Seq(Callers)]
  /\ key \in [Callers -> Keys \cup {None}]
  /\ instance \in [Callers -> Instances \cup {None}]

\* One caller at a time holds a key, though its semaphore is dropped and made
\* again while others still hold on to the one they found.
OneHolderPerKey ==
  \A c, d \in Callers : Holds(c) /\ Holds(d) /\ key[c] = key[d] => c = d

\* The map stays bounded: it has the keys somebody holds or waits for, and no
\* other.
MapIsLive == \A k \in Keys : semaphores[k] # None <=> \E c \in Callers : key[c] = k
=============================================================================
