----------------------------- MODULE OfflineIndex -----------------------------
(***************************************************************************)
(* packages/filen-mobile/src/features/offline/offline.ts, class Offline,   *)
(* with the pass of offlineSync.ts: what is stored offline is what has a   *)
(* meta on disk; an index of it and caches of the metas are kept in memory *)
(* and the index in a file, and a rebuild is skipped when nothing changed. *)
(*                                                                         *)
(* An item is a file or a directory tree stored at the top level; of its   *)
(* content only the meta counts.  The locks are those OfflineSections is   *)
(* about: here a job has its item to itself, rebuilds take turns and a     *)
(* clear runs with no job inside.  The code between two awaits is one      *)
(* action.  mutationCounter, indexRebuildMutationCounter, metaGenerations  *)
(* and metaEpoch are only ever compared with an earlier value of their     *)
(* own: what is kept is whether they moved since.                          *)
(***************************************************************************)
EXTENDS Naturals, FiniteSets

CONSTANTS Files,  \* the items that are files
          Trees,  \* the items that are directory trees
          None,   \* no index, no cached list
          Followed \* bound: the items whose removal by the user is followed (`removed`)

ASSUME OfflineAssumption ==
  /\ Files \cap Trees = {} /\ None \notin Files \cup Trees
  /\ \A items \in SUBSET (Files \cup Trees) : items # None

VARIABLES disk,      \* each item's directory: none, "bare" without a meta, "kept" with one
          file,      \* INDEX_FILE
          index,     \* indexCache
          fresh,     \* indexRebuildMutationCounter = mutationCounter
          metaCache, \* directoryMetaCache and standaloneMetaCache
          listCache, \* listFilesCache
          readers,   \* the listings under way: a rebuild's and a pass's
          job,       \* the store section each item is in
          byPass,    \* jobs of the sync pass: those store with skipIndexUpdate
          rebuild,   \* who holds indexMutex for a rebuild, and how far it is
          update,    \* an updateIndex() waits inside the barrier
          pass       \* the items the sync pass has to go through, None before it has listed them

\* What the code does not keep and the properties need.
VARIABLES untold,    \* items stored or deleted since the counter last moved
          removed    \* of Followed, what the user removed with removeItem() and did not store again

diskVars == <<disk, metaCache, listCache, fresh, readers, untold>>
indexVars == <<file, index, rebuild, update>>
jobVars   == <<job, byPass>>
vars      == <<diskVars, indexVars, jobVars, pass, removed>>

Items == Files \cup Trees
Kept == {u \in Items : disk[u] = "kept"}

Steps == {"idle", "checked", "downloading", "healing", "filling", "converging",
          "deduping", "stored", "removing"}

\* A listing under way: the metas yet to come, those of them that were there
\* when their read began, those whose key was invalidated since, what was
\* found, and whether the counter moved.
Listing == [todo : SUBSET Items, begun : SUBSET Items, stale : SUBSET Items,
            found : SUBSET Items, moved : BOOLEAN]

\* Types; a listing has a record while it is under way.
TypeOK ==
  /\ disk \in [Items -> {"none", "bare", "kept"}]
  /\ file \in {None} \cup SUBSET Items /\ index \in {None} \cup SUBSET Items
  /\ fresh \in BOOLEAN /\ update \in BOOLEAN
  /\ metaCache \in [Items -> {"unset", "null", "kept"}]
  /\ listCache \in {None} \cup SUBSET Items
  /\ rebuild \in [stage : {"off", "warming", "reading", "marking"}, by : {None} \cup Items,
                  seen : SUBSET Items]
  /\ pass \in {None} \cup SUBSET Items
  /\ DOMAIN readers \subseteq {"rebuild", "pass"}
  /\ "rebuild" \in DOMAIN readers <=> rebuild.stage \in {"reading", "marking"}
  /\ "pass" \in DOMAIN readers => pass = None
  /\ \A r \in DOMAIN readers : readers[r] \in Listing
  /\ job \in [Items -> Steps] /\ byPass \subseteq {u \in Items : job[u] # "idle"}
  /\ untold \subseteq Items /\ removed \subseteq Items

Off == [stage |-> "off", by |-> None, seen |-> {}]

Init ==
  /\ disk = [u \in Items |-> "none"]
  /\ file = None /\ index = None /\ rebuild = Off /\ update = FALSE
  /\ metaCache = [u \in Items |-> "unset"] /\ listCache = None
  /\ fresh = FALSE /\ readers = <<>> /\ untold = {}
  /\ job = [u \in Items |-> "idle"] /\ byPass = {}
  /\ pass = None /\ removed = {}
-----------------------------------------------------------------------------
(* The caches.                                                             *)

\* A slip: a meta read in flight is not told that its key was invalidated.
TouchedUntold(listing, us, counted) == [listing EXCEPT !.moved = @ \/ counted]

\* What a mutation does to a listing under way.
Touched(listing, us, counted) ==
  [listing EXCEPT !.stale = @ \cup (us \cap listing.todo), !.moved = @ \/ counted]

\* The disk becomes `new`, with invalidateTreeMeta() or invalidateStandaloneMeta()
\* of the items us and, if `counted`, invalidateCaches(), which moves the counter.
Mutate(new, us, counted) ==
  /\ disk' = new
  /\ metaCache' = [u \in Items |-> IF u \in us THEN "unset" ELSE metaCache[u]]
  /\ readers' = [r \in DOMAIN readers |-> Touched(readers[r], us, counted)]
  /\ fresh' = (fresh /\ ~counted)
  /\ listCache' = IF counted THEN None ELSE listCache
  /\ untold' = IF counted THEN {}
               ELSE untold \cup {u \in Items : ~(new[u] = "kept" <=> disk[u] = "kept")}

\* A listing begins: a cached meta is found at once, the others are read.
Opened(cache) ==
  LET there == {u \in Items : disk[u] # "none"}
  IN [todo  |-> {u \in there : cache[u] = "unset"},
      begun |-> {u \in Kept : cache[u] = "unset"},
      stale |-> {},
      found |-> {u \in there : cache[u] = "kept"},
      moved |-> FALSE]

Without(r) == [s \in DOMAIN readers \ {r} |-> readers[s]]

\* A read returns the meta of u as it was when it began, or as it is; it fills
\* the cache if its key was not invalidated.  Of trees, only metas are cached.
MetaReturns(r, u) ==
  /\ r \in DOMAIN readers /\ u \in readers[r].todo
  /\ \E kept \in {(u \in readers[r].begun), disk[u] = "kept"} :
       /\ readers' = [readers EXCEPT ![r].todo = @ \ {u}, ![r].begun = @ \ {u},
                        ![r].stale = @ \ {u}, ![r].found = IF kept THEN @ \cup {u} ELSE @]
       /\ metaCache' = [metaCache EXCEPT ![u] =
                          IF u \in readers[r].stale THEN @ ELSE IF kept THEN "kept"
                          ELSE IF u \in Files THEN "null" ELSE @]
  /\ UNCHANGED <<disk, listCache, fresh, untold, indexVars, jobVars, pass, removed>>

\* What listFilesCache is after listing r.
ListCacheAfter(r) == IF readers[r].moved THEN listCache ELSE readers[r].found
-----------------------------------------------------------------------------
(* The index.                                                              *)

\* updateIndex() is called: when the app mounts, and at a pass's end.
UpdateIndex ==
  /\ ~update /\ update' = TRUE
  /\ UNCHANGED <<diskVars, file, index, rebuild, jobVars, pass, removed>>

\* readIndex() with nothing in memory reads the file, under the mutex.
WarmBegins ==
  /\ rebuild = Off /\ index = None /\ file # None
  /\ rebuild' = [Off EXCEPT !.stage = "warming", !.seen = file]
  /\ UNCHANGED <<diskVars, file, index, update, jobVars, pass, removed>>

\* The text is there; a file deleted meanwhile may have come to nothing.
WarmReturns ==
  /\ rebuild.stage = "warming"
  /\ index' \in {rebuild.seen} \cup (IF file = None THEN {index} ELSE {})
  /\ rebuild' = Off
  /\ UNCHANGED <<diskVars, file, update, jobVars, pass, removed>>

\* The caller of a rebuild goes on.
CallerGoesOn(by) ==
  /\ update' = (update /\ by # None)
  /\ job' = [u \in Items |-> IF u = by THEN "idle" ELSE job[u]]
  /\ byPass' = byPass \ {by}

Callers == {u \in Items : job[u] \in {"stored", "removing"}} \cup (IF update THEN {None} ELSE {})

\* A slip: an index in memory is taken for current.
UnneededIfIndexed == index # None

\* The no-mutation skip.
Unneeded == index # None /\ fresh

RebuildSkips(by) ==
  /\ rebuild = Off /\ by \in Callers /\ Unneeded
  /\ CallerGoesOn(by)
  /\ UNCHANGED <<diskVars, file, index, rebuild, pass, removed>>

\* The caches are dropped and every meta is listed.
RebuildBegins(by) ==
  /\ rebuild = Off /\ by \in Callers /\ ~Unneeded
  /\ rebuild' = [Off EXCEPT !.stage = "reading", !.by = by]
  /\ fresh' = FALSE /\ listCache' = None /\ untold' = {}
  /\ readers' = [r \in DOMAIN readers \cup {"rebuild"} |->
                   IF r = "rebuild" THEN Opened(metaCache) ELSE Touched(readers[r], {}, TRUE)]
  /\ UNCHANGED <<disk, metaCache, file, index, update, jobVars, pass, removed>>

\* The index is swapped and the file written, if it differs from the last one.
RebuildWrites ==
  LET found == readers["rebuild"].found
      unchanged == index = found /\ file # None
  IN /\ rebuild.stage = "reading" /\ readers["rebuild"].todo = {}
     /\ rebuild' = [rebuild EXCEPT !.stage = "marking"]
     /\ file' = IF unchanged THEN file ELSE found
     /\ index' = found
     /\ listCache' = ListCacheAfter("rebuild")
     /\ UNCHANGED <<disk, metaCache, fresh, readers, untold, update, jobVars, pass, removed>>

\* The file cannot be written: a file's store takes back what it committed.
RebuildFails ==
  LET by == rebuild.by
  IN /\ rebuild.stage = "reading" /\ readers["rebuild"].todo = {}
     /\ rebuild' = Off
     /\ IF by \in Files /\ job[by] = "stored"
          THEN /\ disk' = [disk EXCEPT ![by] = "none"]
               /\ metaCache' = [metaCache EXCEPT ![by] = "unset"]
               /\ untold' = untold \cup ({by} \cap Kept)
               /\ readers' = [r \in DOMAIN readers \ {"rebuild"} |-> Touched(readers[r], {by}, FALSE)]
          ELSE readers' = Without("rebuild") /\ UNCHANGED <<disk, metaCache, untold>>
     /\ listCache' = ListCacheAfter("rebuild")
     /\ CallerGoesOn(by)
     /\ UNCHANGED <<fresh, file, index, pass, removed>>

\* A slip: the marker is the counter as it is now.
MarkedNow == TRUE

\* The marker is the counter as it was when the rebuild began.
Marked == ~readers["rebuild"].moved

RebuildEnds ==
  /\ rebuild.stage = "marking"
  /\ rebuild' = Off
  /\ fresh' = Marked
  /\ readers' = Without("rebuild")
  /\ CallerGoesOn(rebuild.by)
  /\ UNCHANGED <<disk, metaCache, listCache, untold, file, index, pass, removed>>
-----------------------------------------------------------------------------
(* The store sections.                                                     *)

Begins(u, step, p) ==
  /\ job[u] = "idle"
  /\ job' = [job EXCEPT ![u] = step]
  /\ byPass' = IF p THEN byPass \cup {u} ELSE byPass

Ends(u, step) ==
  /\ job' = [job EXCEPT ![u] = step]
  /\ byPass' = IF step = "idle" THEN byPass \ {u} ELSE byPass

\* A store goes on to the index, or leaves that to the pass's end.
Committed(u) ==
  /\ Mutate([disk EXCEPT ![u] = "kept"], {u}, TRUE)
  /\ Ends(u, IF u \in byPass THEN "idle" ELSE "stored")

\* isItemStored() answers no, from memory or for want of a file.
NotStored(u) == IF index = None THEN file = None /\ rebuild = Off ELSE u \notin index

Passing == pass # None

\* storeFile(), by the user or to adopt a new version, has its section and has
\* asked; it asks for the nested copies next.
StoreFile(u, p) ==
  /\ u \in Files /\ NotStored(u) /\ (p => Passing)
  /\ Begins(u, "checked", p)
  /\ removed' = removed \ {u}
  /\ UNCHANGED <<diskVars, indexVars, pass>>

\* What is in the way is deleted, and the download begins.
StoreClears(u) ==
  /\ job[u] = "checked"
  /\ Mutate([disk EXCEPT ![u] = "bare"], {u}, FALSE)
  /\ Ends(u, "downloading")
  /\ UNCHANGED <<indexVars, pass, removed>>

StoreCommits(u) ==
  /\ job[u] = "downloading"
  /\ Committed(u)
  /\ UNCHANGED <<indexVars, pass, removed>>

\* The download fails or is aborted.
StoreGivesUp(u) ==
  /\ job[u] = "downloading"
  /\ Mutate([disk EXCEPT ![u] = "none"], {u}, FALSE)
  /\ Ends(u, "idle")
  /\ UNCHANGED <<indexVars, pass, removed>>

EnsureDirectory(u) == disk' = [disk EXCEPT ![u] = IF @ = "none" THEN "bare" ELSE @]

\* reconcileTree(), as the user's first store of a tree.
StoreTree(u) ==
  /\ u \in Trees /\ NotStored(u)
  /\ Begins(u, IF disk[u] = "kept" THEN "converging" ELSE "filling", FALSE)
  /\ EnsureDirectory(u)
  /\ removed' = removed \ {u}
  /\ UNCHANGED <<metaCache, listCache, fresh, readers, untold, indexVars, pass>>

Reconciling(u) == job[u] \in {"filling", "converging"}

\* Crash recovery and the plan's operations move the counter before the commit.
TreeReshapes(u) ==
  /\ Reconciling(u)
  /\ Mutate(disk, {u}, TRUE)
  /\ UNCHANGED <<indexVars, jobVars, pass, removed>>

\* A fixed point; the counter moves if a download ran.
TreeIsSettled(u) ==
  /\ Reconciling(u) /\ disk[u] = "kept"
  /\ Ends(u, "idle")
  /\ UNCHANGED diskVars \/ Mutate(disk, {}, TRUE)
  /\ UNCHANGED <<indexVars, pass, removed>>

\* The meta is written; the counter will not move before the overlap dedup is done.
TreeWrites(u) ==
  /\ Reconciling(u)
  /\ Mutate([disk EXCEPT ![u] = "kept"], {u}, FALSE)
  /\ Ends(u, "deduping")
  /\ UNCHANGED <<indexVars, pass, removed>>

\* Copies of entries of u that the index knows, of themselves or from a tree.
Subsumable(u) ==
  {w \in Items \ {u} : /\ disk[w] # "none" /\ index # None
                       /\ w \in index \/ index \cap Trees # {}}

\* They are deleted, without their items' sections.
Dedups(gone, counted) ==
  Mutate([w \in Items |-> IF w \in gone THEN "none" ELSE disk[w]], gone, counted)

\* The dedup has awaited the index; the counter moves, and the store goes on.
TreeDedups(u) ==
  /\ job[u] = "deduping" /\ (index = None => file = None /\ rebuild = Off)
  /\ \E gone \in SUBSET Subsumable(u) : Dedups(gone, TRUE)
  /\ Ends(u, IF u \in byPass THEN "idle" ELSE "stored")
  /\ UNCHANGED <<indexVars, pass, removed>>

\* The index, or a deletion, throws: the counter does not move.
TreeDedupFails(u) ==
  /\ job[u] = "deduping"
  /\ \E gone \in SUBSET Subsumable(u) : Dedups(gone, FALSE)
  /\ Ends(u, "idle")
  /\ UNCHANGED <<indexVars, pass, removed>>

\* It fails or is aborted: a first store takes its directory back, unless the
\* failure is one it does not collect.
TreeGivesUp(u) ==
  /\ Reconciling(u)
  /\ Ends(u, "idle")
  /\ \/ UNCHANGED diskVars
     \/ job[u] = "filling" /\ Mutate([disk EXCEPT ![u] = "none"], {u}, TRUE)
  /\ UNCHANGED <<indexVars, pass, removed>>

\* removeItem() finds what it deletes: a file's directory, or a tree's meta.
Delete(u) ==
  /\ disk[u] = "kept" \/ (u \in Files /\ disk[u] = "bare")
  /\ Begins(u, "removing", FALSE)
  /\ Mutate([disk EXCEPT ![u] = "none"], {u}, TRUE)

RemoveItem(u) ==
  /\ Delete(u)
  /\ removed' = removed \cup ({u} \cap Followed)
  /\ UNCHANGED <<indexVars, pass>>

\* A slip: a clear does not wait for those inside the barrier.
NobodyAssumed == TRUE

NobodyInside == ~update /\ rebuild.stage \notin {"reading", "marking"}
                        /\ \A u \in Items : job[u] = "idle"

\* clearAll(), up to its updateIndex().
ClearAll ==
  /\ NobodyInside
  /\ Mutate([u \in Items |-> "none"], Items, TRUE)
  /\ file' = None /\ index' = None
  /\ update' = TRUE
  /\ UNCHANGED <<rebuild, jobVars, pass, removed>>
-----------------------------------------------------------------------------
(* The sync pass, which goes on from what it listed.                       *)

PassBegins ==
  /\ pass = None /\ "pass" \notin DOMAIN readers
  /\ IF listCache # None
       THEN pass' = listCache /\ UNCHANGED readers
       ELSE /\ pass' = None
            /\ readers' = [r \in DOMAIN readers \cup {"pass"} |->
                             IF r = "pass" THEN Opened(metaCache) ELSE readers[r]]
  /\ UNCHANGED <<disk, metaCache, listCache, fresh, untold, indexVars, jobVars, removed>>

PassListed ==
  /\ "pass" \in DOMAIN readers /\ readers["pass"].todo = {}
  /\ pass' = readers["pass"].found
  /\ listCache' = ListCacheAfter("pass")
  /\ readers' = Without("pass")
  /\ UNCHANGED <<disk, metaCache, fresh, untold, indexVars, jobVars, removed>>

\* listBrokenStandaloneUuids() and listBrokenTreeUuids().
PassListsBroken ==
  /\ Passing
  /\ pass' = pass \cup {u \in Items : disk[u] = "bare"}
  /\ UNCHANGED <<diskVars, indexVars, jobVars, removed>>

\* redownloadStandaloneFile(), or reconcileTree() of what the pass listed.
PassHeals(u) ==
  /\ Passing /\ u \in pass
  /\ pass' = pass \ {u}
  /\ Begins(u, IF u \in Files THEN "healing" ELSE "converging", TRUE)
  /\ EnsureDirectory(u)
  /\ UNCHANGED <<metaCache, listCache, fresh, readers, untold, indexVars, removed>>

HealCommits(u) ==
  /\ job[u] = "healing"
  /\ Committed(u)
  /\ UNCHANGED <<indexVars, pass, removed>>

HealGivesUp(u) ==
  /\ job[u] = "healing"
  /\ Ends(u, "idle")
  /\ UNCHANGED <<diskVars, indexVars, pass, removed>>

\* renameStandaloneFile() or updateTreeRootMeta(): where there is a directory,
\* or a tree's meta, the meta is written anew.
PassRenames(u) ==
  /\ Passing /\ u \in pass /\ job[u] = "idle"
  /\ disk[u] = "kept" \/ (u \in Files /\ disk[u] = "bare")
  /\ pass' = pass \ {u}
  /\ Mutate([disk EXCEPT ![u] = "kept"], {u}, TRUE)
  /\ UNCHANGED <<indexVars, jobVars, removed>>

\* removeItem() of what the cloud no longer has.
PassRemoves(u) ==
  /\ Passing /\ u \in pass
  /\ pass' = pass \ {u}
  /\ Delete(u)
  /\ UNCHANGED <<indexVars, removed>>

\* removeStandaloneDirectory() or removeTreeDirectory() of a broken item.
PassRemovesBroken(u) ==
  /\ Passing /\ u \in pass /\ job[u] = "idle" /\ disk[u] = "bare"
  /\ pass' = pass \ {u}
  /\ Mutate([disk EXCEPT ![u] = "none"], {u}, TRUE)
  /\ UNCHANGED <<indexVars, jobVars, removed>>

\* Nothing to do for u, or no way to tell.
PassSkips(u) ==
  /\ Passing /\ u \in pass
  /\ pass' = pass \ {u}
  /\ UNCHANGED <<diskVars, indexVars, jobVars, removed>>

\* The pass ends in an updateIndex(), unless it was aborted.
PassEnds ==
  /\ pass = {} /\ byPass = {}
  /\ pass' = None
  /\ update' \in {TRUE, update}
  /\ UNCHANGED <<diskVars, file, index, rebuild, jobVars, removed>>

\* The process ends.
Crash ==
  /\ index' = None /\ rebuild' = Off /\ update' = FALSE
  /\ metaCache' = [u \in Items |-> "unset"] /\ listCache' = None
  /\ fresh' = FALSE /\ readers' = <<>> /\ untold' = {}
  /\ job' = [u \in Items |-> "idle"] /\ byPass' = {}
  /\ pass' = None
  /\ UNCHANGED <<disk, file, removed>>

Next ==
  \/ UpdateIndex \/ WarmBegins \/ WarmReturns
  \/ \E by \in Items \cup {None} : RebuildSkips(by) \/ RebuildBegins(by)
  \/ RebuildWrites \/ RebuildFails \/ RebuildEnds
  \/ \E r \in {"rebuild", "pass"}, u \in Items : MetaReturns(r, u)
  \/ \E u \in Items : \/ \E p \in BOOLEAN : StoreFile(u, p)
                      \/ StoreClears(u) \/ StoreCommits(u) \/ StoreGivesUp(u)
                      \/ StoreTree(u) \/ TreeReshapes(u) \/ TreeIsSettled(u)
                      \/ TreeWrites(u) \/ TreeDedups(u) \/ TreeDedupFails(u) \/ TreeGivesUp(u)
                      \/ RemoveItem(u) \/ PassHeals(u) \/ HealCommits(u) \/ HealGivesUp(u)
                      \/ PassRenames(u) \/ PassRemoves(u) \/ PassRemovesBroken(u) \/ PassSkips(u)
  \/ ClearAll \/ PassBegins \/ PassListed \/ PassListsBroken \/ PassEnds \/ Crash

Spec == Init /\ [][Next]_vars
-----------------------------------------------------------------------------
\* With the counter where the last rebuild left it, the index in memory is what
\* is stored and the file holds it, so that the no-mutation skip is right.
\* Excepted is what a store wrote or deleted without moving the counter: a tree
\* between its meta and the end of its dedup, or for good if that throws
\* (offline.ts:1974-2019), and what storeFile() clears and takes back.
IndexIsStore ==
  fresh /\ index # None => index \ untold = Kept \ untold /\ file = index

\* The types hold; parsed metas and the list of files outlive mutations of other
\* items and are never older than the disk, whatever reads were in flight when
\* it changed.  The list has the exception of IndexIsStore, the metas have none.
CachesAreStore ==
  /\ TypeOK
  /\ \A u \in Items : metaCache[u] = "kept" => disk[u] = "kept"
  /\ \A u \in Items : metaCache[u] = "null" => disk[u] # "kept"
  /\ listCache # None => listCache \ untold = Kept \ untold

\* A store or a removal by the user that returns is in the index, whether it
\* rebuilt it or found the work done by another.
AnswersAreIndexed ==
  [][\A u \in Items :
       /\ job[u] = "stored" /\ job'[u] = "idle" /\ disk'[u] = "kept" /\ index' # None
            /\ rebuild.stage # "reading" => u \in index'
       /\ job[u] = "removing" /\ job'[u] = "idle" /\ index' # None
            /\ rebuild.stage # "reading" => u \notin index']_vars
-----------------------------------------------------------------------------
\* offline.ts:232-233: every disk mutation path moves the counter, so that an
\* unchanged one proves the store to be what the last rebuild saw.  No run
\* checks this: three deletions of storeFile() do not (lines 2145, 2193, 2205),
\* nor does a tree's commit whose dedup throws (1974-2017).
CounterTellsAll == fresh /\ index # None => index = Kept

\* offline.ts:2893-2895: what the user removes is not resurrected by a pass.
RemovedStaysRemoved == removed \cap Kept = {}
=============================================================================
