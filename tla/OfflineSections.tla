--------------------------- MODULE OfflineSections ---------------------------
(***************************************************************************)
(* packages/filen-mobile/src/features/offline/offline.ts: the locks of the *)
(* offline store together.  A store section takes clearBarrier, then its   *)
(* item's lock, then, unless it only renames or drops a directory, a       *)
(* permit of storeMutex; indexMutex is taken last, from inside, to rebuild *)
(* the index.  updateIndex() takes clearBarrier and indexMutex, clearAll() *)
(* runs exclusively.  (What reads the index outside a section waits for    *)
(* indexMutex alone, holding nothing; storeFile() reads it holding what it *)
(* rebuilds it with: neither is here.)                                     *)
(*                                                                         *)
(* run() gives back what was deferred last first, with an await between.   *)
(* storeMutex and indexMutex are lines, as Semaphore implements them.      *)
(***************************************************************************)
EXTENDS ClearBarrier, KeyedSemaphores

CONSTANTS Storers,      \* storeFile, reconcileTree, redownloadStandaloneFile, removeItem
          Movers,       \* removeStoredDirectory, updateTreeRootMeta, renameStandaloneFile
          Indexers,     \* updateIndex
          StorePermits  \* of storeMutex

ASSUME SectionsAssumption ==
  /\ Callers = Storers \cup Movers /\ Users = Callers \cup Indexers
  /\ Storers \cap Movers = {} /\ Callers \cap Indexers = {}
  /\ StorePermits \in Nat \ {0}

VARIABLES step,       \* how far each user is with its locks
          storeLine,  \* storeMutex: the first StorePermits own a permit
          indexLine   \* indexMutex: the first owns it

lineVars == <<storeLine, indexLine>>
vars     == <<barrierVars, keyedVars, step, lineVars>>

Steps == {"begin", "locking", "queued", "working", "stored", "indexing", "ending"}

Init ==
  /\ BarrierInit /\ KeyedInit
  /\ step = [c \in Users |-> "begin"]
  /\ storeLine = <<>> /\ indexLine = <<>>

Goes(c, to) == step' = [step EXCEPT ![c] = to]

First(c, queue, permits) == \E i \in 1..permits : i <= Len(queue) /\ queue[i] = c
In(c, queue) == \E i \in DOMAIN queue : queue[i] = c

\* enterStoreSection() and updateIndex(), clearBarrier.enter().
EnterBarrier(u) ==
  /\ step[u] = "begin"
  /\ Enter(u) \/ Block(u)
  /\ UNCHANGED <<keyedVars, step, lineVars>>

\* storeItemMutexes.acquire(uuid).
LockItem(u, k) ==
  /\ at[u] = "inside" /\ step[u] = "begin"
  /\ Acquire(u, k)
  /\ Goes(u, "locking")
  /\ UNCHANGED <<barrierVars, lineVars>>

\* With the item's lock, storeMutex.acquire(), unless the section needs none.
ItemLocked(u) ==
  /\ step[u] = "locking" /\ Holds(u)
  /\ IF u \in Storers THEN storeLine' = Append(storeLine, u) /\ Goes(u, "queued")
                      ELSE UNCHANGED storeLine /\ Goes(u, "working")
  /\ UNCHANGED <<barrierVars, keyedVars, indexLine>>

\* The section's body begins.
Permitted(u) ==
  /\ step[u] = "queued" /\ First(u, storeLine, StorePermits)
  /\ Goes(u, "working")
  /\ UNCHANGED <<barrierVars, keyedVars, lineVars>>

\* A slip: updateIndex() does not go through the barrier.
AdmittedAnyhow(u) == TRUE

Admitted(u) == at[u] = "inside"

\* updateIndex() calls rebuildIndex().
RebuildAlone(u) ==
  /\ Admitted(u) /\ step[u] = "begin"
  /\ indexLine' = Append(indexLine, u)
  /\ Goes(u, "indexing")
  /\ UNCHANGED <<barrierVars, keyedVars, storeLine>>

\* The body is done: with the index to rebuild, or without.
Work(u) ==
  /\ step[u] = "working"
  /\ \/ Goes(u, "ending")
     \/ u \in Storers /\ Goes(u, "stored")
  /\ UNCHANGED <<barrierVars, keyedVars, lineVars>>

\* A slip: it calls updateIndex(), which enters the barrier again.
RebuildReenters(u) ==
  /\ step[u] = "stored" /\ ~exclusive
  /\ indexLine' = Append(indexLine, u)
  /\ Goes(u, "indexing")
  /\ UNCHANGED <<barrierVars, keyedVars, storeLine>>

\* A section that stored or removed calls rebuildIndex() from inside.
Rebuild(u) ==
  /\ step[u] = "stored"
  /\ indexLine' = Append(indexLine, u)
  /\ Goes(u, "indexing")
  /\ UNCHANGED <<barrierVars, keyedVars, storeLine>>

\* withPermit() gives indexMutex back.
IndexDone(u) ==
  /\ step[u] = "indexing" /\ First(u, indexLine, 1)
  /\ indexLine' = Tail(indexLine)
  /\ Goes(u, "ending")
  /\ UNCHANGED <<barrierVars, keyedVars, storeLine>>

\* The deferred storeMutex.release().
ReleasePermit(u) ==
  /\ step[u] = "ending"
  /\ \E i \in DOMAIN storeLine :
       /\ storeLine[i] = u
       /\ storeLine' = [j \in 1..(Len(storeLine) - 1) |-> storeLine[IF j < i THEN j ELSE j + 1]]

\* A slip: what was deferred first is given back first.
ReleaseItemFirst(u) == step[u] = "ending" /\ ReleaseKey(u)

\* The deferred release of the item's lock, the permit given back.
ReleaseItem(u) == step[u] = "ending" /\ ~In(u, storeLine) /\ ReleaseKey(u)

\* The deferred clearBarrier.leave(), the last.
LeaveBarrier(u) ==
  /\ step[u] = "ending" /\ (u \in Callers => key[u] = None)
  /\ Leave(u)
  /\ Goes(u, "begin")

GiveBack(u) ==
  \/ ReleasePermit(u) /\ UNCHANGED <<barrierVars, keyedVars, step, indexLine>>
  \/ u \in Callers /\ ReleaseItem(u) /\ UNCHANGED <<barrierVars, step, lineVars>>
  \/ LeaveBarrier(u) /\ UNCHANGED <<keyedVars, lineVars>>

\* clearAll().
Clear(x) == ClearerNext(x) /\ UNCHANGED <<keyedVars, step, lineVars>>

\* All that a user does once it came.
Advance(u) ==
  \/ at[u] # "away" /\ EnterBarrier(u)
  \/ u \in Callers /\ ((\E k \in Keys : LockItem(u, k)) \/ ItemLocked(u) \/ Permitted(u) \/ Work(u) \/ Rebuild(u))
  \/ u \in Indexers /\ RebuildAlone(u)
  \/ IndexDone(u)
  \/ GiveBack(u)

Next ==
  \/ \E u \in Users : EnterBarrier(u) \/ Advance(u)
  \/ \E x \in Clearers : Clear(x)

\* What was begun goes on: callbacks run and downloads end.  Nothing makes a
\* caller come, and clears are not asked for for ever.
Fairness ==
  /\ \A u \in Users : WF_vars(Advance(u))
  /\ \A x \in Clearers : WF_vars(at[x] # "away" /\ Clear(x))
  /\ <>[][\A x \in Clearers : at[x] # "away" \/ at'[x] = "away"]_vars

Spec == Init /\ [][Next]_vars /\ Fairness
-----------------------------------------------------------------------------
\* Types.
SectionsTypes ==
  /\ BarrierTypeOK /\ KeyedTypeOK
  /\ step \in [Users -> Steps]
  /\ storeLine \in Seq(Storers) /\ indexLine \in Seq(Users)

\* What u has taken, by where it is.
Nests(u) ==
  /\ at[u] # "inside" => step[u] = "begin"
  /\ u \in Callers /\ step[u] = "begin" => key[u] = None
  /\ u \in Callers /\ step[u] \in {"working", "stored", "indexing"} => Holds(u)
  /\ In(u, storeLine) => Holds(u)
  /\ In(u, indexLine) <=> step[u] = "indexing"

\* The locks nest, whatever order they are asked for and given back in: who is
\* not inside the barrier has or awaits no other, who works or rebuilds or has
\* or awaits storeMutex owns its item, and the index's line is those that rebuild.
LocksNest == SectionsTypes /\ \A u \in Users : Nests(u)

\* A clear never meets a rebuild: none that scanned the directories before
\* writes its index after the bytes are gone.
ClearMeetsNoRebuild ==
  \A x \in Clearers : at[x] = "clearing" => \A u \in Users : step[u] # "indexing"

\* No deadlock, over clearBarrier, an item's lock, storeMutex and indexMutex:
\* every section and rebuild that began ends, whatever clears and other sections
\* are queued, and so does every clear.
SectionsServed == \A c \in BarrierCallers : at[c] # "away" ~> at[c] = "away"
=============================================================================
