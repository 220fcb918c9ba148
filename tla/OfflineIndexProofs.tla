-------------------------- MODULE OfflineIndexProofs --------------------------
(***************************************************************************)
(* Theorems on OfflineIndex: for any files and trees, the caches and the   *)
(* index agree with the disk, whatever reads were under way.               *)
(***************************************************************************)
EXTENDS OfflineIndex, TLAPS

\* What CachesAreStore says beyond the types.
Cached ==
  /\ \A u \in Items : metaCache[u] = "kept" => disk[u] = "kept"
  /\ \A u \in Items : metaCache[u] = "null" => disk[u] # "kept"
  /\ listCache # None => listCache \ untold = Kept \ untold

\* A read whose key was not invalidated will find what there is now.
Reads ==
  \A r \in DOMAIN readers :
    /\ readers[r].begun \cup readers[r].stale \subseteq readers[r].todo
    /\ \A u \in readers[r].todo \ readers[r].stale : u \in readers[r].begun <=> u \in Kept

\* A listing the counter did not move under finds what there is now, whatever
\* its reads still return.
Finds ==
  \A r \in DOMAIN readers : ~readers[r].moved =>
    (readers[r].found \cup readers[r].begun) \ untold = Kept \ untold

\* The index, its file and the marker, through a rebuild and a warming.
Indexed ==
  /\ fresh => /\ index # None /\ file = index /\ index \ untold = Kept \ untold
              /\ rebuild.stage = "off"
  /\ index # None /\ file # None => file = index
  /\ rebuild.stage = "warming" => index = None /\ file \in {None, rebuild.seen}
  /\ rebuild.stage = "marking" => index = readers["rebuild"].found /\ file = index
                                  /\ readers["rebuild"].todo = {}

\* What an item's job has done stays told until the job is over; only a dedup
\* may delete what it stored.
Jobs ==
  /\ \A u \in Items : job[u] = "stored" /\ disk[u] = "kept" => u \notin untold
  /\ \A u \in Items : job[u] = "removing" => disk[u] = "none" /\ u \notin untold

\* A rebuild finds what its caller stored, if it is still there, and not what its
\* caller removed.
Answered ==
  rebuild.stage \in {"reading", "marking"} /\ rebuild.by # None =>
    /\ job[rebuild.by] \in {"stored", "removing"}
    /\ job[rebuild.by] = "stored" /\ disk[rebuild.by] = "kept" =>
         rebuild.by \in readers["rebuild"].found \cup readers["rebuild"].begun
    /\ job[rebuild.by] = "removing" =>
         rebuild.by \notin readers["rebuild"].found \cup readers["rebuild"].todo

OfflineInv == CachesAreStore /\ Reads /\ Finds /\ Indexed /\ Jobs /\ Answered
-----------------------------------------------------------------------------
\* What of the types the caches need.
CacheTypes ==
  /\ disk \in [Items -> {"none", "bare", "kept"}]
  /\ fresh \in BOOLEAN
  /\ metaCache \in [Items -> {"unset", "null", "kept"}]
  /\ listCache \in {None} \cup SUBSET Items
  /\ DOMAIN readers \subseteq {"rebuild", "pass"}
  /\ \A r \in DOMAIN readers : readers[r] \in Listing
  /\ untold \subseteq Items

\* What the caches promise, their types included.
Caches == CacheTypes /\ Cached /\ Reads /\ Finds

\* A mutation that is told of: it invalidates what it changes.
Told(new, us, counted) ==
  /\ new \in [Items -> {"none", "bare", "kept"}] /\ us \subseteq Items /\ counted \in BOOLEAN
  /\ \A u \in Items \ us : new[u] = "kept" <=> disk[u] = "kept"

\* A step that leaves the caches and what is stored alone.
Still == UNCHANGED <<metaCache, listCache, fresh, readers, untold>> /\ Kept' = Kept

LEMMA TouchedType ==
  ASSUME NEW listing \in Listing, NEW us \in SUBSET Items, NEW counted \in BOOLEAN
  PROVE  /\ Touched(listing, us, counted) \in Listing
         /\ Touched(listing, us, counted).todo = listing.todo
         /\ Touched(listing, us, counted).begun = listing.begun
         /\ Touched(listing, us, counted).stale = listing.stale \cup (us \cap listing.todo)
         /\ Touched(listing, us, counted).found = listing.found
         /\ Touched(listing, us, counted).moved = (listing.moved \/ counted)
BY DEF Touched, Listing

\* Listings are touched by a mutation, or dropped.
LEMMA TouchKeeps ==
  ASSUME Caches, NEW us \in SUBSET Items, NEW counted \in BOOLEAN,
         disk' \in [Items -> {"none", "bare", "kept"}], untold' \subseteq Items,
         \A u \in Items \ us : disk'[u] = "kept" <=> disk[u] = "kept",
         ~counted => /\ untold \subseteq untold'
                     /\ (Kept \ Kept') \cup (Kept' \ Kept) \subseteq untold',
         DOMAIN readers' \subseteq DOMAIN readers,
         \A r \in DOMAIN readers' : readers'[r] = Touched(readers[r], us, counted)
  PROVE  /\ Reads' /\ Finds' /\ \A r \in DOMAIN readers' : readers'[r] \in Listing
         /\ \A S \in SUBSET Items :
              ~counted /\ S \ untold = Kept \ untold => S \ untold' = Kept' \ untold'
<1>1. \A r \in DOMAIN readers' :
        /\ r \in DOMAIN readers /\ readers[r] \in Listing /\ readers'[r] \in Listing
        /\ readers'[r].todo = readers[r].todo /\ readers'[r].begun = readers[r].begun
        /\ readers'[r].stale = readers[r].stale \cup (us \cap readers[r].todo)
        /\ readers'[r].found = readers[r].found
        /\ readers'[r].moved = (readers[r].moved \/ counted)
  <2> SUFFICES ASSUME NEW r \in DOMAIN readers'
               PROVE  /\ r \in DOMAIN readers /\ readers[r] \in Listing /\ readers'[r] \in Listing
                      /\ readers'[r].todo = readers[r].todo /\ readers'[r].begun = readers[r].begun
                      /\ readers'[r].stale = readers[r].stale \cup (us \cap readers[r].todo)
                      /\ readers'[r].found = readers[r].found
                      /\ readers'[r].moved = (readers[r].moved \/ counted)
    OBVIOUS
  <2>1. r \in DOMAIN readers /\ readers[r] \in Listing
    BY DEF Caches, CacheTypes
  <2>2. readers'[r] = Touched(readers[r], us, counted)
    OBVIOUS
  <2>3. QED BY <2>1, <2>2, TouchedType
<1>2. \A r \in DOMAIN readers : readers[r].todo \subseteq Items
  BY DEF Caches, CacheTypes, Listing
<1>3. Reads'
  BY <1>1, <1>2 DEF Caches, Reads, Kept
<1>4. ASSUME NEW S \in SUBSET Items, ~counted, S \ untold = Kept \ untold
      PROVE  S \ untold' = Kept' \ untold'
  BY <1>4 DEF Kept
<1>5. Finds'
  <2> SUFFICES ASSUME NEW r \in DOMAIN readers', ~readers'[r].moved
               PROVE  (readers'[r].found \cup readers'[r].begun) \ untold' = Kept' \ untold'
    BY DEF Finds
  <2>1. ~counted /\ ~readers[r].moved
    BY <1>1 DEF Listing
  <2>2. readers[r].found \cup readers[r].begun \subseteq Items
    BY <1>1 DEF Listing
  <2>3. QED BY <1>1, <1>4, <2>1, <2>2 DEF Caches, Finds
<1>6. QED BY <1>1, <1>3, <1>4, <1>5

LEMMA MutateKeeps ==
  ASSUME Caches, NEW new, NEW us, NEW counted, Told(new, us, counted), Mutate(new, us, counted)
  PROVE  /\ Caches' /\ DOMAIN readers' = DOMAIN readers
         /\ \A r \in DOMAIN readers :
              /\ readers'[r].todo = readers[r].todo /\ readers'[r].begun = readers[r].begun
              /\ readers'[r].found = readers[r].found
         /\ fresh' => /\ fresh
                      /\ \A S \in SUBSET Items :
                           S \ untold = Kept \ untold => S \ untold' = Kept' \ untold'
<1>1. us \in SUBSET Items /\ counted \in BOOLEAN /\ disk' = new
  BY DEF Told, Mutate
<1>2. /\ disk' \in [Items -> {"none", "bare", "kept"}] /\ untold' \subseteq Items
      /\ \A u \in Items \ us : disk'[u] = "kept" <=> disk[u] = "kept"
  BY DEF Told, Mutate, Caches, CacheTypes, Kept
<1>3. ~counted => /\ untold \subseteq untold'
                  /\ (Kept \ Kept') \cup (Kept' \ Kept) \subseteq untold'
  BY DEF Told, Mutate, Kept
<1>4. DOMAIN readers' = DOMAIN readers
      /\ \A r \in DOMAIN readers : readers'[r] = Touched(readers[r], us, counted)
  BY DEF Mutate
<1>5. /\ Reads' /\ Finds' /\ \A r \in DOMAIN readers' : readers'[r] \in Listing
      /\ \A S \in SUBSET Items :
           ~counted /\ S \ untold = Kept \ untold => S \ untold' = Kept' \ untold'
  BY <1>1, <1>2, <1>3, <1>4, TouchKeeps
<1>6. CacheTypes'
  <2>1. fresh' \in BOOLEAN /\ listCache' \in {None} \cup SUBSET Items
    BY DEF Mutate, Caches, CacheTypes
  <2>2. metaCache' \in [Items -> {"unset", "null", "kept"}]
    BY DEF Mutate, Caches, CacheTypes
  <2>3. DOMAIN readers' \subseteq {"rebuild", "pass"}
    BY <1>4 DEF Caches, CacheTypes
  <2>4. QED BY <1>2, <1>5, <2>1, <2>2, <2>3 DEF CacheTypes
<1>7. Cached'
  <2>1. \A u \in Items : metaCache'[u] = IF u \in us THEN "unset" ELSE metaCache[u]
    BY DEF Mutate
  <2>2. listCache' # None => listCache' \ untold' = Kept' \ untold'
    <3>1. listCache' # None => ~counted /\ listCache' = listCache
      BY DEF Mutate
    <3>2. listCache # None => listCache \in SUBSET Items /\ listCache \ untold = Kept \ untold
      BY DEF Caches, CacheTypes, Cached
    <3>3. QED BY <1>5, <3>1, <3>2
  <2>3. QED BY <1>2, <2>1, <2>2 DEF Caches, Cached
<1>8. \A r \in DOMAIN readers :
        /\ readers'[r].todo = readers[r].todo /\ readers'[r].begun = readers[r].begun
        /\ readers'[r].found = readers[r].found
  <2> SUFFICES ASSUME NEW r \in DOMAIN readers
               PROVE  /\ readers'[r].todo = readers[r].todo /\ readers'[r].begun = readers[r].begun
                      /\ readers'[r].found = readers[r].found
    OBVIOUS
  <2>1. readers[r] \in Listing
    BY DEF Caches, CacheTypes
  <2>2. QED BY <1>1, <1>4, <2>1, TouchedType
<1>9. fresh' => fresh /\ ~counted
  BY DEF Mutate
<1>10. QED BY <1>4, <1>5, <1>6, <1>7, <1>8, <1>9 DEF Caches

LEMMA StillKeeps ==
  ASSUME Caches, Still, disk' \in [Items -> {"none", "bare", "kept"}]
  PROVE  Caches'
<1>1. CacheTypes'
  BY DEF Caches, CacheTypes, Still
<1>2. \A u \in Items : disk'[u] = "kept" <=> disk[u] = "kept"
  BY DEF Still, Kept
<1>3. Cached' /\ Reads' /\ Finds'
  BY <1>2 DEF Caches, Cached, Reads, Finds, Still
<1>4. QED BY <1>1, <1>3 DEF Caches

\* What a listing starts with, and what it is told of later.
LEMMA OpenedListing ==
  ASSUME Caches
  PROVE  /\ Opened(metaCache) \in Listing
         /\ Opened(metaCache).begun \subseteq Opened(metaCache).todo
         /\ Opened(metaCache).stale = {} /\ ~Opened(metaCache).moved
         /\ \A u \in Opened(metaCache).todo : u \in Opened(metaCache).begun <=> u \in Kept
         /\ Opened(metaCache).found \cup Opened(metaCache).begun = Kept
         /\ \A u \in Items : disk[u] = "none" =>
              u \notin Opened(metaCache).found \cup Opened(metaCache).todo
<1>1. Opened(metaCache) \in Listing
  BY DEF Opened, Listing, Kept
<1>2. /\ Opened(metaCache).todo = {u \in Items : disk[u] # "none" /\ metaCache[u] = "unset"}
      /\ Opened(metaCache).begun = {u \in Kept : metaCache[u] = "unset"}
      /\ Opened(metaCache).found = {u \in Items : disk[u] # "none" /\ metaCache[u] = "kept"}
      /\ Opened(metaCache).stale = {} /\ Opened(metaCache).moved = FALSE
  BY DEF Opened
<1>3. \A u \in Items : metaCache[u] = "unset" \/ metaCache[u] = "null" \/ metaCache[u] = "kept"
  BY DEF Caches, CacheTypes
<1>4. QED BY <1>1, <1>2, <1>3 DEF Caches, Cached, Kept
-----------------------------------------------------------------------------
\* The store sections: the steps an item's job takes.

JobStep(u) ==
  \/ \E p \in BOOLEAN : StoreFile(u, p)
  \/ StoreClears(u) \/ StoreCommits(u) \/ StoreGivesUp(u)
  \/ StoreTree(u) \/ TreeReshapes(u) \/ TreeIsSettled(u) \/ TreeWrites(u)
  \/ TreeDedups(u) \/ TreeDedupFails(u) \/ TreeGivesUp(u)
  \/ RemoveItem(u) \/ PassHeals(u) \/ HealCommits(u) \/ HealGivesUp(u)
  \/ PassRenames(u) \/ PassRemoves(u) \/ PassRemovesBroken(u)

\* They tell the caches, leave the index alone and do no more to another item
\* than delete it.
JobTouches(u) ==
  /\ Still \/ \E us \in SUBSET Items, counted \in BOOLEAN :
                Told(disk', us, counted) /\ Mutate(disk', us, counted)
  /\ disk' \in [Items -> {"none", "bare", "kept"}]
  /\ \A v \in Items \ {u} :
       /\ disk'[v] = "kept" => disk[v] = "kept"
       /\ disk[v] = "none" => disk'[v] = "none"
       /\ v \in untold' => v \in untold \/ (disk[v] = "kept" /\ disk'[v] # "kept")
  /\ UNCHANGED indexVars

JobMoves(u) ==
  /\ job' \in [Items -> Steps] /\ byPass' \subseteq {v \in Items : job'[v] # "idle"}
  /\ \A v \in Items \ {u} : job'[v] = job[v]
  /\ pass' \in {None} \cup SUBSET Items /\ (pass = None => pass' = None)
  /\ removed' \subseteq Items
  /\ job[u] \notin {"stored", "removing"}
  /\ job'[u] = "stored" => untold' = {}
  /\ job'[u] = "removing" => disk'[u] = "none" /\ untold' = {}

LEMMA MutatesOne ==
  ASSUME TypeOK, NEW u \in Items, NEW what \in {"none", "bare", "kept"}, NEW counted \in BOOLEAN,
         Mutate([disk EXCEPT ![u] = what], {u}, counted),
         UNCHANGED indexVars
  PROVE  /\ JobTouches(u) /\ disk'[u] = what /\ (counted => untold' = {})
         /\ \A v \in Items : disk'[v] = IF v = u THEN what ELSE disk[v]
<1>1. disk' = [disk EXCEPT ![u] = what] /\ disk \in [Items -> {"none", "bare", "kept"}]
  BY DEF Mutate, TypeOK
<1>2. /\ disk' \in [Items -> {"none", "bare", "kept"}]
      /\ \A v \in Items : disk'[v] = IF v = u THEN what ELSE disk[v]
  BY <1>1
<1>3. Told(disk', {u}, counted) /\ Mutate(disk', {u}, counted)
  BY <1>1, <1>2 DEF Told
<1>4. untold' \subseteq untold \cup {u} /\ (counted => untold' = {})
  BY <1>1, <1>2 DEF Mutate
<1>5. QED BY <1>2, <1>3, <1>4 DEF JobTouches

LEMMA EnsuredIsStill ==
  ASSUME TypeOK, NEW u \in Items, EnsureDirectory(u),
         UNCHANGED <<metaCache, listCache, fresh, readers, untold, indexVars>>
  PROVE  JobTouches(u)
<1>1. disk \in [Items -> {"none", "bare", "kept"}]
  BY DEF TypeOK
<1>2. disk' \in [Items -> {"none", "bare", "kept"}]
  BY <1>1 DEF EnsureDirectory
<1>3. \A v \in Items : disk'[v] = IF v = u /\ disk[u] = "none" THEN "bare" ELSE disk[v]
  BY <1>1 DEF EnsureDirectory
<1>4. Kept' = Kept
  BY <1>3 DEF Kept
<1>5. QED BY <1>2, <1>3, <1>4 DEF JobTouches, Still

LEMMA UntouchedIsStill ==
  ASSUME TypeOK, NEW u \in Items, UNCHANGED <<diskVars, indexVars>>
  PROVE  JobTouches(u)
<1>1. Kept' = Kept
  BY DEF Kept, diskVars
<1>2. QED BY <1>1 DEF JobTouches, Still, diskVars, TypeOK

LEMMA JobStepDoes ==
  ASSUME TypeOK, NEW u \in Items, JobStep(u)
  PROVE  JobTouches(u) /\ JobMoves(u)
<1>0. /\ job \in [Items -> Steps] /\ byPass \subseteq {v \in Items : job[v] # "idle"}
      /\ pass \in {None} \cup SUBSET Items /\ removed \subseteq Items
  BY DEF TypeOK
<1>1. ASSUME NEW p \in BOOLEAN, StoreFile(u, p)
      PROVE  JobTouches(u) /\ JobMoves(u)
  <2>1. JobTouches(u)
    BY <1>1, UntouchedIsStill DEF StoreFile
  <2>2. QED BY <1>0, <1>1, <2>1 DEF StoreFile, Begins, JobMoves, Steps
<1>2. CASE StoreClears(u)
  <2>1. JobTouches(u)
    BY <1>2, MutatesOne DEF StoreClears
  <2>2. QED BY <1>0, <1>2, <2>1 DEF StoreClears, Ends, JobMoves, Steps
<1>3. CASE StoreCommits(u) \/ HealCommits(u)
  <2>1. JobTouches(u) /\ untold' = {}
    BY <1>3, MutatesOne DEF StoreCommits, HealCommits, Committed
  <2>2. QED BY <1>0, <1>3, <2>1 DEF StoreCommits, HealCommits, Committed, Ends, JobMoves, Steps
<1>4. CASE StoreGivesUp(u)
  <2>1. JobTouches(u)
    BY <1>4, MutatesOne DEF StoreGivesUp
  <2>2. QED BY <1>0, <1>4, <2>1 DEF StoreGivesUp, Ends, JobMoves, Steps
<1>5. CASE StoreTree(u)
  <2>1. JobTouches(u)
    BY <1>5, EnsuredIsStill DEF StoreTree
  <2>2. QED BY <1>0, <1>5, <2>1 DEF StoreTree, Begins, JobMoves, Steps
<1>6. CASE TreeReshapes(u) \/ TreeIsSettled(u)
  <2>1. CASE \E us \in {{u}, {}} : Mutate(disk, us, TRUE)
    <3>1. Told(disk', {u}, TRUE) /\ Told(disk', {}, TRUE) /\ disk' = disk /\ untold' = {}
      BY <2>1 DEF Told, Mutate, TypeOK
    <3>2. JobTouches(u)
      BY <1>6, <2>1, <3>1 DEF JobTouches, TreeReshapes, TreeIsSettled, TypeOK
    <3>3. QED BY <1>0, <1>6, <3>1, <3>2
              DEF TreeReshapes, TreeIsSettled, Reconciling, Ends, JobMoves, Steps, jobVars
  <2>2. CASE TreeIsSettled(u) /\ UNCHANGED diskVars
    <3>1. JobTouches(u)
      BY <2>2, UntouchedIsStill DEF TreeIsSettled
    <3>2. QED BY <1>0, <2>2, <3>1 DEF TreeIsSettled, Reconciling, Ends, JobMoves, Steps
  <2>3. QED BY <1>6, <2>1, <2>2 DEF TreeReshapes, TreeIsSettled
<1>7. CASE TreeWrites(u)
  <2>1. JobTouches(u)
    BY <1>7, MutatesOne DEF TreeWrites
  <2>2. QED BY <1>0, <1>7, <2>1 DEF TreeWrites, Reconciling, Ends, JobMoves, Steps
<1>8. CASE TreeDedups(u) \/ TreeDedupFails(u)
  <2>1. PICK gone \in SUBSET Items, counted \in BOOLEAN :
          /\ Dedups(gone, counted) /\ job[u] = "deduping"
          /\ Ends(u, "idle") \/ (counted /\ Ends(u, "stored"))
          /\ UNCHANGED <<indexVars, pass, removed>>
    BY <1>8 DEF TreeDedups, TreeDedupFails, Subsumable
  <2>2. Mutate([w \in Items |-> IF w \in gone THEN "none" ELSE disk[w]], gone, counted)
    BY <2>1 DEF Dedups
  <2>3. /\ \A w \in Items : disk'[w] = IF w \in gone THEN "none" ELSE disk[w]
        /\ disk' \in [Items -> {"none", "bare", "kept"}]
        /\ Mutate(disk', gone, counted)
    BY <2>2 DEF Mutate, TypeOK
  <2>4. Told(disk', gone, counted)
    BY <2>3 DEF Told
  <2>5. \A w \in Items : w \in untold' => w \in untold \/ (disk[w] = "kept" /\ disk'[w] # "kept")
    BY <2>3 DEF Mutate
  <2>6. JobTouches(u) /\ (counted => untold' = {})
    BY <2>1, <2>3, <2>4, <2>5 DEF JobTouches, Mutate
  <2>7. QED BY <1>0, <2>1, <2>6 DEF Ends, JobMoves, Steps
<1>9. CASE TreeGivesUp(u)
  <2>1. CASE UNCHANGED diskVars
    <3>1. JobTouches(u)
      BY <1>9, <2>1, UntouchedIsStill DEF TreeGivesUp
    <3>2. QED BY <1>0, <1>9, <3>1 DEF TreeGivesUp, Reconciling, Ends, JobMoves, Steps
  <2>2. CASE Mutate([disk EXCEPT ![u] = "none"], {u}, TRUE)
    <3>1. JobTouches(u)
      BY <1>9, <2>2, MutatesOne DEF TreeGivesUp
    <3>2. QED BY <1>0, <1>9, <3>1 DEF TreeGivesUp, Reconciling, Ends, JobMoves, Steps
  <2>3. QED BY <1>9, <2>1, <2>2 DEF TreeGivesUp
<1>10. CASE RemoveItem(u) \/ PassRemoves(u)
  <2>1. JobTouches(u) /\ disk'[u] = "none" /\ untold' = {}
    BY <1>10, MutatesOne DEF RemoveItem, PassRemoves, Delete
  <2>2. QED BY <1>0, <1>10, <2>1 DEF RemoveItem, PassRemoves, Delete, Begins, Passing, JobMoves, Steps
<1>11. CASE PassHeals(u)
  <2>1. JobTouches(u)
    BY <1>11, EnsuredIsStill DEF PassHeals
  <2>2. QED BY <1>0, <1>11, <2>1 DEF PassHeals, Begins, Passing, JobMoves, Steps
<1>12. CASE HealGivesUp(u)
  <2>1. JobTouches(u)
    BY <1>12, UntouchedIsStill DEF HealGivesUp
  <2>2. QED BY <1>0, <1>12, <2>1 DEF HealGivesUp, Ends, JobMoves, Steps
<1>13. CASE PassRenames(u)
  <2>1. JobTouches(u)
    BY <1>13, MutatesOne DEF PassRenames
  <2>2. QED BY <1>0, <1>13, <2>1 DEF PassRenames, Passing, JobMoves, Steps, jobVars
<1>14. CASE PassRemovesBroken(u)
  <2>1. JobTouches(u)
    BY <1>14, MutatesOne DEF PassRemovesBroken
  <2>2. QED BY <1>0, <1>14, <2>1 DEF PassRemovesBroken, Passing, JobMoves, Steps, jobVars
<1>15. QED BY <1>1, <1>2, <1>3, <1>4, <1>5, <1>6, <1>7, <1>8, <1>9, <1>10, <1>11, <1>12, <1>13,
             <1>14 DEF JobStep
-----------------------------------------------------------------------------
LEMMA OfflineParts ==
  /\ OfflineInv <=> TypeOK /\ Caches /\ Indexed /\ Jobs /\ Answered
  /\ TypeOK => CacheTypes
BY DEF OfflineInv, CachesAreStore, Caches, CacheTypes, Cached, TypeOK

\* A job's step keeps the invariant.
LEMMA JobStepKeeps ==
  ASSUME OfflineInv, NEW u \in Items, JobStep(u)
  PROVE  OfflineInv'
<1>1. TypeOK /\ Caches /\ Indexed /\ Jobs /\ Answered
  BY OfflineParts
<1>2. JobTouches(u) /\ JobMoves(u)
  BY <1>1, JobStepDoes
<1>3. /\ Caches' /\ DOMAIN readers' = DOMAIN readers
      /\ \A r \in DOMAIN readers :
           /\ readers'[r].todo = readers[r].todo /\ readers'[r].begun = readers[r].begun
           /\ readers'[r].found = readers[r].found
      /\ fresh' => /\ fresh
                   /\ \A S \in SUBSET Items :
                        S \ untold = Kept \ untold => S \ untold' = Kept' \ untold'
  <2>1. CASE Still
    <3>1. Caches'
      BY <1>1, <1>2, <2>1, StillKeeps DEF JobTouches
    <3>2. QED BY <2>1, <3>1 DEF Still
  <2>2. ASSUME NEW us \in SUBSET Items, NEW counted \in BOOLEAN,
               Told(disk', us, counted), Mutate(disk', us, counted)
        PROVE  /\ Caches' /\ DOMAIN readers' = DOMAIN readers
               /\ \A r \in DOMAIN readers :
                    /\ readers'[r].todo = readers[r].todo /\ readers'[r].begun = readers[r].begun
                    /\ readers'[r].found = readers[r].found
               /\ fresh' => /\ fresh
                            /\ \A S \in SUBSET Items :
                                 S \ untold = Kept \ untold => S \ untold' = Kept' \ untold'
    BY <1>1, <2>2, MutateKeeps
  <2>3. QED BY <1>2, <2>1, <2>2 DEF JobTouches
<1>4. UNCHANGED <<file, index, rebuild, update>>
  BY <1>2 DEF JobTouches, indexVars
<1>5. TypeOK'
  <2>2. "pass" \in DOMAIN readers' => pass' = None
    BY <1>1, <1>2, <1>3 DEF JobMoves, TypeOK
  <2>3. CacheTypes'
    BY <1>3 DEF Caches
  <2>4. "rebuild" \in DOMAIN readers' <=> rebuild'.stage \in {"reading", "marking"}
    BY <1>1, <1>3, <1>4 DEF TypeOK
  <2>5. QED BY <1>1, <1>2, <1>4, <2>2, <2>3, <2>4 DEF JobMoves, TypeOK, CacheTypes
<1>6. Indexed'
  <2>1. rebuild.stage = "marking" => "rebuild" \in DOMAIN readers
    BY <1>1 DEF TypeOK
  <2>2. fresh' => index # None /\ file = index /\ index \ untold' = Kept' \ untold'
    <3>1. index # None => index \in SUBSET Items
      BY <1>1 DEF TypeOK
    <3>2. QED BY <1>1, <1>3, <3>1 DEF Indexed
  <2>3. QED BY <1>1, <1>3, <1>4, <2>1, <2>2 DEF Indexed
<1>7. Jobs'
  BY <1>1, <1>2 DEF JobTouches, JobMoves, Jobs
<1>8. Answered'
  <2> SUFFICES ASSUME rebuild.stage \in {"reading", "marking"}, rebuild.by # None
               PROVE  Answered'
    BY <1>4 DEF Answered
  <2>1. rebuild.by \in Items /\ "rebuild" \in DOMAIN readers
    BY <1>1 DEF TypeOK
  <2>2. rebuild.by # u /\ job'[rebuild.by] = job[rebuild.by]
    BY <1>1, <1>2, <2>1 DEF JobMoves, Answered
  <2>3. disk'[rebuild.by] = "kept" => disk[rebuild.by] = "kept"
    BY <1>2, <2>1, <2>2 DEF JobTouches
  <2>4. QED BY <1>1, <1>3, <1>4, <2>1, <2>2, <2>3 DEF Answered
<1>9. QED BY <1>3, <1>5, <1>6, <1>7, <1>8, OfflineParts DEF OfflineInv, CachesAreStore, Caches, Cached
-----------------------------------------------------------------------------
\* The steps of a rebuild, the listings and the index.

\* What leaves the caches, the index and the jobs alone.
Aside ==
  \/ UpdateIndex \/ PassListsBroken \/ PassEnds \/ UNCHANGED vars
  \/ \E u \in Items : PassSkips(u)

LEMMA AsideKeeps ==
  ASSUME OfflineInv, Aside
  PROVE  OfflineInv'
<1>1. TypeOK /\ Caches /\ Indexed /\ Jobs /\ Answered
  BY OfflineParts
<1>2. UNCHANGED <<diskVars, file, index, rebuild, job>> /\ byPass' = byPass /\ removed' = removed
  BY DEF Aside, UpdateIndex, PassListsBroken, PassEnds, PassSkips, vars, indexVars, jobVars
<1>3. /\ update' \in BOOLEAN /\ pass' \in {None} \cup SUBSET Items
      /\ "pass" \in DOMAIN readers => pass' = None
  BY <1>1 DEF Aside, UpdateIndex, PassListsBroken, PassEnds, PassSkips, Passing, vars, indexVars,
              jobVars, TypeOK
<1>4. TypeOK' /\ Kept' = Kept
  BY <1>1, <1>2, <1>3 DEF TypeOK, diskVars, Kept
<1>5. Caches'
  BY <1>1, <1>2, <1>4, StillKeeps DEF Still, diskVars, TypeOK
<1>6. Indexed' /\ Jobs' /\ Answered'
  BY <1>1, <1>2, <1>4 DEF Indexed, Jobs, Answered, diskVars
<1>7. QED BY <1>4, <1>5, <1>6 DEF OfflineInv, CachesAreStore, Caches, Cached

\* The caller of a rebuild has its answer.
LEMMA CallerLeaves ==
  ASSUME TypeOK, NEW by \in Items \cup {None}, CallerGoesOn(by)
  PROVE  /\ update' \in BOOLEAN /\ job' \in [Items -> Steps]
         /\ byPass' \subseteq {v \in Items : job'[v] # "idle"}
         /\ \A v \in Items : job'[v] = IF v = by THEN "idle" ELSE job[v]
BY DEF CallerGoesOn, TypeOK, Steps

LEMMA SkipKeeps ==
  ASSUME OfflineInv, NEW by \in Items \cup {None}, RebuildSkips(by)
  PROVE  OfflineInv'
<1>1. TypeOK /\ Caches /\ Indexed /\ Jobs /\ Answered
  BY OfflineParts
<1>2. /\ UNCHANGED <<diskVars, file, index, rebuild, pass, removed>>
      /\ CallerGoesOn(by) /\ rebuild = Off
  BY DEF RebuildSkips
<1>3. /\ update' \in BOOLEAN /\ job' \in [Items -> Steps]
      /\ byPass' \subseteq {v \in Items : job'[v] # "idle"}
      /\ \A v \in Items : job'[v] = IF v = by THEN "idle" ELSE job[v]
  BY <1>1, <1>2, CallerLeaves
<1>4. TypeOK' /\ Kept' = Kept
  BY <1>1, <1>2, <1>3 DEF TypeOK, diskVars, Kept
<1>5. Caches'
  BY <1>1, <1>2, <1>4, StillKeeps DEF Still, diskVars, TypeOK
<1>6. Indexed' /\ Jobs' /\ Answered'
  BY <1>1, <1>2, <1>3, <1>4 DEF Indexed, Jobs, Answered, Off, diskVars
<1>7. QED BY <1>4, <1>5, <1>6 DEF OfflineInv, CachesAreStore, Caches, Cached

LEMMA WarmKeeps ==
  ASSUME OfflineInv, WarmBegins \/ WarmReturns
  PROVE  OfflineInv'
<1>1. TypeOK /\ Caches /\ Indexed /\ Jobs /\ Answered
  BY OfflineParts
<1>2. UNCHANGED <<diskVars, file, job, byPass, pass, removed, update>>
  BY DEF WarmBegins, WarmReturns, jobVars
<1>3. /\ rebuild' \in [stage : {"off", "warming", "reading", "marking"}, by : {None} \cup Items,
                       seen : SUBSET Items]
      /\ rebuild'.stage \in {"off", "warming"} /\ rebuild.stage \in {"off", "warming"}
      /\ index' \in {None} \cup SUBSET Items
  <2>1. /\ rebuild \in [stage : {"off", "warming", "reading", "marking"}, by : {None} \cup Items,
                        seen : SUBSET Items]
        /\ index \in {None} \cup SUBSET Items /\ file \in {None} \cup SUBSET Items
    BY <1>1 DEF TypeOK
  <2>2. CASE WarmBegins
    <3>1. rebuild' = [stage |-> "warming", by |-> None, seen |-> file] /\ file \in SUBSET Items
      BY <2>1, <2>2 DEF WarmBegins, Off
    <3>2. rebuild.stage = "off" /\ index' = index
      BY <2>2 DEF WarmBegins, Off
    <3>3. QED BY <2>1, <3>1, <3>2
  <2>3. CASE WarmReturns
    <3>1. rebuild' = [stage |-> "off", by |-> None, seen |-> {}] /\ rebuild.stage = "warming"
      BY <2>3 DEF WarmReturns, Off
    <3>2. index' = rebuild.seen \/ index' = index
      BY <2>3 DEF WarmReturns
    <3>3. QED BY <2>1, <3>1, <3>2
  <2>4. QED BY <2>2, <2>3
<1>4. TypeOK' /\ Kept' = Kept
  BY <1>1, <1>2, <1>3 DEF TypeOK, diskVars, Kept
<1>5. Caches'
  BY <1>1, <1>2, <1>4, StillKeeps DEF Still, diskVars, TypeOK
<1>6. Indexed'
  <2>1. index = None /\ ~fresh
    BY <1>1 DEF WarmBegins, WarmReturns, Indexed
  <2>2. index' # None /\ file # None => file = index'
    BY <1>1, <2>1 DEF WarmBegins, WarmReturns, Indexed
  <2>3. rebuild'.stage = "warming" => index' = None /\ file = rebuild'.seen
    <3>1. CASE WarmBegins
      BY <2>1, <3>1 DEF WarmBegins, Off
    <3>2. CASE WarmReturns
      BY <3>2 DEF WarmReturns, Off
    <3>3. QED BY <3>1, <3>2
  <2>4. QED BY <1>2, <1>3, <2>1, <2>2, <2>3 DEF Indexed, diskVars
<1>7. Jobs' /\ Answered'
  BY <1>1, <1>2, <1>3, <1>4 DEF Jobs, Answered, diskVars
<1>8. QED BY <1>4, <1>5, <1>6, <1>7 DEF OfflineInv, CachesAreStore, Caches, Cached

LEMMA BeginKeeps ==
  ASSUME OfflineInv, NEW by \in Items \cup {None}, RebuildBegins(by)
  PROVE  OfflineInv'
<1>1. TypeOK /\ Caches /\ Indexed /\ Jobs /\ Answered
  BY OfflineParts
<1> DEFINE opened == Opened(metaCache)
<1>2. /\ rebuild.stage = "off" /\ rebuild' = [stage |-> "reading", by |-> by, seen |-> {}]
      /\ by \in Callers /\ fresh' = FALSE /\ listCache' = None /\ untold' = {}
      /\ UNCHANGED <<disk, metaCache, file, index, update, job, byPass, pass, removed>>
  BY DEF RebuildBegins, Off, jobVars
<1>3. /\ DOMAIN readers' = DOMAIN readers \cup {"rebuild"} /\ "rebuild" \notin DOMAIN readers
      /\ readers'["rebuild"] = opened
      /\ \A r \in DOMAIN readers : readers'[r] = Touched(readers[r], {}, TRUE)
  BY <1>1, <1>2 DEF RebuildBegins, TypeOK
<1>4. /\ opened \in Listing /\ opened.begun \subseteq opened.todo /\ opened.stale = {}
      /\ \A u \in opened.todo : u \in opened.begun <=> u \in Kept
      /\ opened.found \cup opened.begun = Kept
      /\ \A u \in Items : disk[u] = "none" => u \notin opened.found \cup opened.todo
  BY <1>1, OpenedListing
<1> HIDE DEF opened
<1>5. \A r \in DOMAIN readers :
        /\ readers'[r] \in Listing /\ readers'[r].moved
        /\ readers'[r].todo = readers[r].todo /\ readers'[r].begun = readers[r].begun
        /\ readers'[r].stale = readers[r].stale
  <2> SUFFICES ASSUME NEW r \in DOMAIN readers
               PROVE  /\ readers'[r] \in Listing /\ readers'[r].moved
                      /\ readers'[r].todo = readers[r].todo /\ readers'[r].begun = readers[r].begun
                      /\ readers'[r].stale = readers[r].stale
    OBVIOUS
  <2>1. readers[r] \in Listing /\ readers'[r] = Touched(readers[r], {}, TRUE)
    BY <1>1, <1>3 DEF TypeOK
  <2>2. QED BY <2>1 DEF Touched, Listing
<1>6. Kept' = Kept
  BY <1>2 DEF Kept
<1>7. TypeOK'
  <2>1. \A r \in DOMAIN readers' : readers'[r] \in Listing
    BY <1>3, <1>4, <1>5
  <2>2. "pass" \in DOMAIN readers' => pass' = None
    BY <1>1, <1>2, <1>3 DEF TypeOK
  <2>3. rebuild' \in [stage : {"off", "warming", "reading", "marking"}, by : {None} \cup Items,
                      seen : SUBSET Items]
    BY <1>2
  <2>4. DOMAIN readers' \subseteq {"rebuild", "pass"} /\ "rebuild" \in DOMAIN readers'
    BY <1>1, <1>3 DEF TypeOK
  <2>5. QED BY <1>1, <1>2, <2>1, <2>2, <2>3, <2>4 DEF TypeOK
<1>8. Cached'
  BY <1>1, <1>2 DEF Caches, Cached
<1>9. Reads' /\ Finds'
  <2>1. Reads'
    BY <1>1, <1>3, <1>4, <1>5, <1>6 DEF Caches, Reads
  <2>2. Finds'
    BY <1>2, <1>3, <1>4, <1>5, <1>6 DEF Finds
  <2>3. QED BY <2>1, <2>2
<1>10. Indexed'
  BY <1>1, <1>2 DEF Indexed
<1>11. Jobs'
  BY <1>1, <1>2 DEF Jobs
<1>12. Answered'
  <2> SUFFICES ASSUME by # None
               PROVE  /\ job[by] \in {"stored", "removing"}
                      /\ job[by] = "stored" /\ disk[by] = "kept" => by \in opened.found \cup opened.begun
                      /\ job[by] = "removing" => by \notin opened.found \cup opened.todo
    BY <1>2, <1>3 DEF Answered
  <2>1. by \in Items /\ job[by] \in {"stored", "removing"}
    BY <1>2 DEF Callers
  <2>2. QED BY <1>1, <1>4, <2>1 DEF Jobs, Kept
<1>13. QED BY <1>7, <1>8, <1>9, <1>10, <1>11, <1>12 DEF OfflineInv, CachesAreStore, Cached

\* A listing that is dropped, and what it leaves in listFilesCache.
LEMMA DropKeeps ==
  ASSUME Caches, NEW r, readers' = Without(r), Kept' = Kept, untold' = untold
  PROVE  Reads' /\ Finds' /\ \A s \in DOMAIN readers' : readers'[s] \in Listing
<1>1. \A s \in DOMAIN readers' : s \in DOMAIN readers /\ readers'[s] = readers[s]
  BY DEF Without
<1>2. QED BY <1>1 DEF Caches, CacheTypes, Reads, Finds

LEMMA ListedIsStore ==
  ASSUME Caches, NEW r \in DOMAIN readers, readers[r].todo = {}
  PROVE  /\ ListCacheAfter(r) \in {None} \cup SUBSET Items /\ readers[r].found \in SUBSET Items
         /\ ListCacheAfter(r) # None => ListCacheAfter(r) \ untold = Kept \ untold
         /\ ~readers[r].moved => readers[r].found \ untold = Kept \ untold
<1>1. readers[r] \in Listing
  BY DEF Caches, CacheTypes
<1>2. readers[r].begun = {}
  BY DEF Caches, Reads
<1>3. ~readers[r].moved => readers[r].found \ untold = Kept \ untold
  BY <1>2 DEF Caches, Finds
<1>4. readers[r].found \in SUBSET Items
  BY <1>1 DEF Listing
<1>5. QED BY <1>3, <1>4 DEF ListCacheAfter, Caches, CacheTypes, Cached

LEMMA WriteKeeps ==
  ASSUME OfflineInv, RebuildWrites
  PROVE  OfflineInv'
<1>1. TypeOK /\ Caches /\ Indexed /\ Jobs /\ Answered
  BY OfflineParts
<1> DEFINE found == readers["rebuild"].found
<1>2. /\ rebuild.stage = "reading" /\ readers["rebuild"].todo = {} /\ index' = found
      /\ listCache' = ListCacheAfter("rebuild")
      /\ UNCHANGED <<disk, metaCache, fresh, readers, untold, update, job, byPass, pass, removed>>
  BY DEF RebuildWrites, jobVars
<1>3. "rebuild" \in DOMAIN readers
  BY <1>1, <1>2 DEF TypeOK
<1>4. /\ listCache' \in {None} \cup SUBSET Items /\ found \in SUBSET Items
      /\ listCache' # None => listCache' \ untold = Kept \ untold
  BY <1>1, <1>2, <1>3, ListedIsStore
<1>5. Kept' = Kept /\ found # None
  BY <1>2, <1>4, OfflineAssumption DEF Kept, Items
<1>6. file' = found
  BY <1>1, <1>5 DEF RebuildWrites, Indexed
<1>7. /\ rebuild' = [stage |-> "marking", by |-> rebuild.by, seen |-> rebuild.seen]
      /\ rebuild' \in [stage : {"off", "warming", "reading", "marking"}, by : {None} \cup Items,
                       seen : SUBSET Items]
  BY <1>1 DEF RebuildWrites, TypeOK
<1>8. TypeOK'
  BY <1>1, <1>2, <1>3, <1>4, <1>6, <1>7 DEF TypeOK
<1>9. Cached' /\ Reads' /\ Finds'
  BY <1>1, <1>2, <1>4, <1>5 DEF Caches, Cached, Reads, Finds
<1>10. Indexed'
  BY <1>1, <1>2, <1>5, <1>6, <1>7 DEF Indexed
<1>11. Jobs' /\ Answered'
  BY <1>1, <1>2, <1>7 DEF Jobs, Answered
<1>12. QED BY <1>8, <1>9, <1>10, <1>11 DEF OfflineInv, CachesAreStore, Cached

LEMMA EndKeeps ==
  ASSUME OfflineInv, RebuildEnds
  PROVE  OfflineInv'
<1>1. TypeOK /\ Caches /\ Indexed /\ Jobs /\ Answered
  BY OfflineParts
<1>2. /\ rebuild.stage = "marking" /\ rebuild' = [stage |-> "off", by |-> None, seen |-> {}]
      /\ fresh' = (~readers["rebuild"].moved) /\ readers' = Without("rebuild")
      /\ CallerGoesOn(rebuild.by)
      /\ UNCHANGED <<disk, metaCache, listCache, untold, file, index, pass, removed>>
  BY DEF RebuildEnds, Off, Marked
<1>3. "rebuild" \in DOMAIN readers /\ readers["rebuild"].todo = {} /\ rebuild.by \in Items \cup {None}
      /\ readers["rebuild"].found \in SUBSET Items
  BY <1>1, <1>2 DEF TypeOK, Indexed, Listing
<1>4. /\ update' \in BOOLEAN /\ job' \in [Items -> Steps]
      /\ byPass' \subseteq {v \in Items : job'[v] # "idle"}
      /\ \A v \in Items : job'[v] = IF v = rebuild.by THEN "idle" ELSE job[v]
  BY <1>1, <1>2, <1>3, CallerLeaves
<1>5. Kept' = Kept
  BY <1>2 DEF Kept
<1>6. Reads' /\ Finds' /\ \A s \in DOMAIN readers' : readers'[s] \in Listing
  BY <1>1, <1>2, <1>5, DropKeeps
<1>7. DOMAIN readers' = DOMAIN readers \ {"rebuild"}
  BY <1>2 DEF Without
<1>8. TypeOK'
  <2>1. /\ rebuild' \in [stage : {"off", "warming", "reading", "marking"}, by : {None} \cup Items,
                         seen : SUBSET Items]
        /\ fresh' \in BOOLEAN
    BY <1>2
  <2>2. QED BY <1>1, <1>2, <1>4, <1>6, <1>7, <2>1 DEF TypeOK, Steps
<1>9. Cached'
  BY <1>1, <1>2, <1>5 DEF Caches, Cached
<1>10. Indexed'
  <2>1. fresh' => readers["rebuild"].found \ untold = Kept \ untold
    BY <1>1, <1>2, <1>3, ListedIsStore
  <2>2. index = readers["rebuild"].found /\ file = index /\ index # None
    BY <1>1, <1>2, <1>3, OfflineAssumption DEF Indexed, Items
  <2>3. QED BY <1>2, <1>5, <2>1, <2>2 DEF Indexed
<1>11. Jobs' /\ Answered'
  BY <1>1, <1>2, <1>4 DEF Jobs, Answered
<1>12. QED BY <1>6, <1>8, <1>9, <1>10, <1>11 DEF OfflineInv, CachesAreStore, Cached

\* A rebuild fails; a file's store takes back what it committed.
LEMMA FailKeeps ==
  ASSUME OfflineInv, RebuildFails
  PROVE  OfflineInv'
<1>1. TypeOK /\ Caches /\ Indexed /\ Jobs /\ Answered
  BY OfflineParts
<1> DEFINE by == rebuild.by
           undone == by \in Files /\ job[by] = "stored"
<1>2. /\ rebuild.stage = "reading" /\ readers["rebuild"].todo = {}
      /\ rebuild' = [stage |-> "off", by |-> None, seen |-> {}]
      /\ listCache' = ListCacheAfter("rebuild") /\ CallerGoesOn(by)
      /\ UNCHANGED <<fresh, file, index, pass, removed>>
  BY DEF RebuildFails, Off
<1>3. "rebuild" \in DOMAIN readers /\ by \in Items \cup {None}
  BY <1>1, <1>2 DEF TypeOK
<1>4. /\ update' \in BOOLEAN /\ job' \in [Items -> Steps]
      /\ byPass' \subseteq {v \in Items : job'[v] # "idle"}
      /\ \A v \in Items : job'[v] = IF v = by THEN "idle" ELSE job[v]
  BY <1>1, <1>2, <1>3, CallerLeaves
<1>5. undone => /\ by \in Items /\ disk' = [disk EXCEPT ![by] = "none"]
                /\ metaCache' = [metaCache EXCEPT ![by] = "unset"]
                /\ untold' = untold \cup ({by} \cap Kept)
                /\ DOMAIN readers' = DOMAIN readers \ {"rebuild"}
                /\ \A r \in DOMAIN readers' : readers'[r] = Touched(readers[r], {by}, FALSE)
  BY DEF RebuildFails, Items
<1>6. ~undone => readers' = Without("rebuild") /\ UNCHANGED <<disk, metaCache, untold>>
  BY DEF RebuildFails
<1>7. /\ listCache' \in {None} \cup SUBSET Items
      /\ listCache' # None => listCache' \ untold = Kept \ untold
  BY <1>1, <1>2, <1>3, ListedIsStore
<1>8. ~fresh
  BY <1>1, <1>2 DEF Indexed
<1> HIDE DEF by
<1>9. /\ disk' \in [Items -> {"none", "bare", "kept"}] /\ untold' \subseteq Items
      /\ metaCache' \in [Items -> {"unset", "null", "kept"}]
      /\ DOMAIN readers' = DOMAIN readers \ {"rebuild"}
      /\ \A v \in Items : v # by => disk'[v] = disk[v] /\ metaCache'[v] = metaCache[v]
      /\ Reads' /\ Finds' /\ \A r \in DOMAIN readers' : readers'[r] \in Listing
      /\ Cached' /\ untold' \subseteq untold \cup {by}
  <2>0. /\ disk \in [Items -> {"none", "bare", "kept"}] /\ untold \subseteq Items
        /\ metaCache \in [Items -> {"unset", "null", "kept"}]
    BY <1>1 DEF TypeOK
  <2>1. CASE undone
    <3>1. /\ disk' \in [Items -> {"none", "bare", "kept"}] /\ untold' \subseteq Items
          /\ metaCache' \in [Items -> {"unset", "null", "kept"}] /\ by \in Items
          /\ \A v \in Items : /\ disk'[v] = IF v = by THEN "none" ELSE disk[v]
                              /\ metaCache'[v] = IF v = by THEN "unset" ELSE metaCache[v]
      BY <1>5, <2>0, <2>1
    <3>2. {by} \in SUBSET Items /\ FALSE \in BOOLEAN
      BY <3>1
    <3>3. \A v \in Items \ {by} : disk'[v] = "kept" <=> disk[v] = "kept"
      BY <3>1
    <3>4. untold \subseteq untold' /\ (Kept \ Kept') \cup (Kept' \ Kept) \subseteq untold'
      BY <1>5, <2>1, <3>1 DEF Kept
    <3>5. /\ Reads' /\ Finds' /\ \A r \in DOMAIN readers' : readers'[r] \in Listing
          /\ \A S \in SUBSET Items : S \ untold = Kept \ untold => S \ untold' = Kept' \ untold'
      <4>1. DOMAIN readers' \subseteq DOMAIN readers
            /\ \A r \in DOMAIN readers' : readers'[r] = Touched(readers[r], {by}, FALSE)
        BY <1>5, <2>1
      <4>2. QED BY <1>1, <3>1, <3>2, <3>3, <3>4, <4>1, TouchKeeps
    <3>6. Cached'
      BY <1>1, <1>7, <3>1, <3>5 DEF Caches, Cached
    <3>7. QED BY <1>5, <2>1, <3>1, <3>5, <3>6
  <2>2. CASE ~undone
    <3>1. Kept' = Kept
      BY <1>6, <2>2 DEF Kept
    <3>2. DOMAIN readers' = DOMAIN readers \ {"rebuild"}
      BY <1>6, <2>2 DEF Without
    <3>3. Reads' /\ Finds' /\ \A r \in DOMAIN readers' : readers'[r] \in Listing
      BY <1>1, <1>6, <2>2, <3>1, DropKeeps
    <3>4. Cached'
      BY <1>1, <1>6, <1>7, <2>2, <3>1 DEF Caches, Cached
    <3>5. QED BY <1>6, <2>0, <2>2, <3>2, <3>3, <3>4
  <2>3. QED BY <2>1, <2>2
<1>10. TypeOK'
  <2>1. rebuild' \in [stage : {"off", "warming", "reading", "marking"}, by : {None} \cup Items,
                      seen : SUBSET Items]
    BY <1>2
  <2>2. QED BY <1>1, <1>2, <1>4, <1>7, <1>9, <2>1 DEF TypeOK
<1>11. Indexed'
  BY <1>1, <1>2, <1>8 DEF Indexed
<1>12. Jobs'
  BY <1>1, <1>4, <1>9 DEF Jobs
<1>13. Answered'
  BY <1>2 DEF Answered
<1>14. QED BY <1>9, <1>10, <1>11, <1>12, <1>13 DEF OfflineInv, CachesAreStore, Cached

\* A read returns: what it found is so, or its key was invalidated.
LEMMA ReadKeeps ==
  ASSUME OfflineInv, NEW r, NEW u \in Items, MetaReturns(r, u)
  PROVE  OfflineInv'
<1>1. TypeOK /\ Caches /\ Indexed /\ Jobs /\ Answered
  BY OfflineParts
<1>2. /\ r \in DOMAIN readers /\ u \in readers[r].todo
      /\ UNCHANGED <<disk, listCache, fresh, untold, file, index, rebuild, update, job, byPass, pass,
                     removed>>
  BY DEF MetaReturns, indexVars, jobVars
<1> DEFINE read == readers[r]
<1>3. PICK kept \in {(u \in read.begun), disk[u] = "kept"} :
        /\ readers' = [readers EXCEPT ![r].todo = @ \ {u}, ![r].begun = @ \ {u},
                         ![r].stale = @ \ {u}, ![r].found = IF kept THEN @ \cup {u} ELSE @]
        /\ metaCache' = [metaCache EXCEPT ![u] =
                           IF u \in read.stale THEN @ ELSE IF kept THEN "kept"
                           ELSE IF u \in Files THEN "null" ELSE @]
  BY DEF MetaReturns
<1>4. read \in Listing
  BY <1>1, <1>2 DEF TypeOK
<1>5. /\ DOMAIN readers' = DOMAIN readers
      /\ \A s \in DOMAIN readers \ {r} : readers'[s] = readers[s]
      /\ readers'[r] \in Listing
      /\ readers'[r].todo = read.todo \ {u} /\ readers'[r].begun = read.begun \ {u}
      /\ readers'[r].stale = read.stale \ {u} /\ readers'[r].moved = read.moved
      /\ readers'[r].found = IF kept THEN read.found \cup {u} ELSE read.found
  BY <1>2, <1>3, <1>4 DEF Listing
<1>6. /\ metaCache' \in [Items -> {"unset", "null", "kept"}]
      /\ \A v \in Items : v # u => metaCache'[v] = metaCache[v]
      /\ metaCache'[u] \in {metaCache[u], IF kept THEN "kept" ELSE "null"}
      /\ u \in read.stale => metaCache'[u] = metaCache[u]
  BY <1>1, <1>3 DEF TypeOK
<1>7. Kept' = Kept
  BY <1>2 DEF Kept
<1>8. u \notin read.stale => (kept <=> disk[u] = "kept")
  <2>1. u \notin read.stale => (u \in read.begun <=> disk[u] = "kept")
    BY <1>1, <1>2 DEF Caches, Reads, Kept
  <2>2. QED BY <1>3, <2>1
<1>9. TypeOK'
  <2>1. \A s \in DOMAIN readers' : readers'[s] \in Listing
    BY <1>1, <1>5 DEF TypeOK
  <2>2. QED BY <1>1, <1>2, <1>5, <1>6, <2>1 DEF TypeOK
<1>10. Cached'
  <2>1. metaCache'[u] = "kept" => disk[u] = "kept"
    BY <1>1, <1>6, <1>8 DEF Caches, Cached
  <2>2. metaCache'[u] = "null" => disk[u] # "kept"
    BY <1>1, <1>6, <1>8 DEF Caches, Cached
  <2>3. QED BY <1>1, <1>2, <1>6, <1>7, <2>1, <2>2 DEF Caches, Cached
<1>11. Reads'
  BY <1>1, <1>2, <1>5, <1>7 DEF Caches, Reads
<1>12. Finds'
  <2>1. ASSUME ~read.moved
        PROVE  (readers'[r].found \cup readers'[r].begun) \ untold = Kept \ untold
    <3>1. (read.found \cup read.begun) \ untold = Kept \ untold
      BY <1>1, <1>2, <2>1 DEF Caches, Finds
    <3>2. CASE u \in untold
      BY <1>5, <3>1, <3>2
    <3>3. CASE u \notin untold
      <4>1. kept => u \in Kept
        BY <1>3, <3>1, <3>3 DEF Kept
      <4>2. u \in read.begun => kept
        BY <1>3, <3>1, <3>3 DEF Kept
      <4>3. CASE kept
        BY <1>5, <3>1, <4>1, <4>3
      <4>4. CASE ~kept
        BY <1>5, <3>1, <4>2, <4>4
      <4>5. QED BY <4>3, <4>4
    <3>4. QED BY <3>2, <3>3
  <2>2. QED BY <1>1, <1>2, <1>5, <1>7, <2>1 DEF Caches, Finds
<1>13. Indexed'
  <2>1. rebuild.stage = "marking" => r # "rebuild" /\ "rebuild" \in DOMAIN readers
    BY <1>1, <1>2 DEF Indexed, TypeOK
  <2>2. QED BY <1>1, <1>2, <1>5, <1>7, <2>1 DEF Indexed
<1>14. Jobs'
  BY <1>1, <1>2 DEF Jobs
<1>15. Answered'
  <2> SUFFICES ASSUME rebuild.stage \in {"reading", "marking"}, rebuild.by # None
               PROVE  Answered'
    BY <1>2 DEF Answered
  <2>1. rebuild.by \in Items /\ "rebuild" \in DOMAIN readers
    BY <1>1 DEF TypeOK
  <2>2. CASE r = "rebuild"
    <3>1. job[rebuild.by] = "stored" /\ disk[rebuild.by] = "kept" =>
            rebuild.by \in readers'["rebuild"].found \cup readers'["rebuild"].begun
      <4>1. disk[rebuild.by] = "kept" /\ u = rebuild.by /\ u \in read.begun => kept
        BY <1>1, <1>3, <2>1 DEF Jobs
      <4>2. QED BY <1>1, <1>5, <2>2, <4>1 DEF Answered
    <3>2. QED BY <1>1, <1>2, <1>5, <2>2, <3>1 DEF Answered
  <2>3. CASE r # "rebuild"
    BY <1>1, <1>2, <1>5, <2>1, <2>3 DEF Answered
  <2>4. QED BY <2>2, <2>3
<1>16. QED BY <1>9, <1>10, <1>11, <1>12, <1>13, <1>14, <1>15 DEF OfflineInv, CachesAreStore, Cached

LEMMA PassBeginKeeps ==
  ASSUME OfflineInv, PassBegins
  PROVE  OfflineInv'
<1>1. TypeOK /\ Caches /\ Indexed /\ Jobs /\ Answered
  BY OfflineParts
<1>2. /\ "pass" \notin DOMAIN readers /\ pass = None
      /\ UNCHANGED <<disk, metaCache, listCache, fresh, untold, file, index, rebuild, update, job, byPass,
                     removed>>
  BY DEF PassBegins, indexVars, jobVars
<1>3. Kept' = Kept
  BY <1>2 DEF Kept
<1>4. CASE listCache # None
  <2>1. pass' = listCache /\ readers' = readers
    BY <1>4 DEF PassBegins
  <2>2. TypeOK'
    BY <1>1, <1>2, <1>4, <2>1 DEF TypeOK
  <2>3. Cached' /\ Reads' /\ Finds'
    BY <1>1, <1>2, <1>3, <2>1 DEF Caches, Cached, Reads, Finds
  <2>4. Indexed' /\ Jobs' /\ Answered'
    BY <1>1, <1>2, <1>3, <2>1 DEF Indexed, Jobs, Answered
  <2>5. QED BY <2>2, <2>3, <2>4 DEF OfflineInv, CachesAreStore, Cached
<1>5. CASE listCache = None
  <2> DEFINE opened == Opened(metaCache)
  <2>1. /\ pass' = None /\ DOMAIN readers' = DOMAIN readers \cup {"pass"} /\ readers'["pass"] = opened
        /\ \A r \in DOMAIN readers : readers'[r] = readers[r]
    BY <1>2, <1>5 DEF PassBegins
  <2>2. /\ opened \in Listing /\ opened.begun \subseteq opened.todo /\ opened.stale = {}
        /\ \A u \in opened.todo : u \in opened.begun <=> u \in Kept
        /\ opened.found \cup opened.begun = Kept
    BY <1>1, OpenedListing
  <2> HIDE DEF opened
  <2>3. TypeOK'
    <3>1. \A r \in DOMAIN readers' : readers'[r] \in Listing
      BY <1>1, <2>1, <2>2 DEF TypeOK
    <3>2. QED BY <1>1, <1>2, <2>1, <3>1 DEF TypeOK
  <2>4. Cached' /\ Reads' /\ Finds'
    <3>1. Cached'
      BY <1>1, <1>2, <1>3 DEF Caches, Cached
    <3>2. Reads'
      BY <1>1, <1>2, <1>3, <2>1, <2>2 DEF Caches, Reads
    <3>3. Finds'
      BY <1>1, <1>2, <1>3, <2>1, <2>2 DEF Caches, Finds
    <3>4. QED BY <3>1, <3>2, <3>3
  <2>5. Indexed' /\ Jobs' /\ Answered'
    <3>1. rebuild.stage \in {"reading", "marking"} => "rebuild" \in DOMAIN readers
      BY <1>1 DEF TypeOK
    <3>2. QED BY <1>1, <1>2, <1>3, <2>1, <3>1 DEF Indexed, Jobs, Answered
  <2>6. QED BY <2>3, <2>4, <2>5 DEF OfflineInv, CachesAreStore, Cached
<1>6. QED BY <1>4, <1>5

LEMMA PassListedKeeps ==
  ASSUME OfflineInv, PassListed
  PROVE  OfflineInv'
<1>1. TypeOK /\ Caches /\ Indexed /\ Jobs /\ Answered
  BY OfflineParts
<1>2. /\ "pass" \in DOMAIN readers /\ readers["pass"].todo = {} /\ pass' = readers["pass"].found
      /\ listCache' = ListCacheAfter("pass") /\ readers' = Without("pass")
      /\ UNCHANGED <<disk, metaCache, fresh, untold, file, index, rebuild, update, job, byPass, removed>>
  BY DEF PassListed, indexVars, jobVars
<1>3. /\ listCache' \in {None} \cup SUBSET Items /\ pass' \in SUBSET Items
      /\ listCache' # None => listCache' \ untold = Kept \ untold
  BY <1>1, <1>2, ListedIsStore
<1>4. /\ DOMAIN readers' = DOMAIN readers \ {"pass"}
      /\ \A r \in DOMAIN readers' : readers'[r] = readers[r]
  BY <1>2 DEF Without
<1>5. Kept' = Kept
  BY <1>2 DEF Kept
<1>6. Reads' /\ Finds' /\ \A s \in DOMAIN readers' : readers'[s] \in Listing
  BY <1>1, <1>2, <1>5, DropKeeps
<1>7. TypeOK'
  BY <1>1, <1>2, <1>3, <1>4, <1>6 DEF TypeOK
<1>8. Cached'
  BY <1>1, <1>2, <1>3, <1>5 DEF Caches, Cached
<1>9. Indexed' /\ Jobs' /\ Answered'
  <2>1. rebuild.stage \in {"reading", "marking"} => "rebuild" \in DOMAIN readers'
    BY <1>1, <1>4 DEF TypeOK
  <2>2. QED BY <1>1, <1>2, <1>4, <1>5, <2>1 DEF Indexed, Jobs, Answered
<1>10. QED BY <1>6, <1>7, <1>8, <1>9 DEF OfflineInv, CachesAreStore, Cached

LEMMA ClearKeeps ==
  ASSUME OfflineInv, ClearAll
  PROVE  OfflineInv'
<1>1. TypeOK /\ Caches /\ Indexed /\ Jobs /\ Answered
  BY OfflineParts
<1>2. /\ Mutate([u \in Items |-> "none"], Items, TRUE) /\ NobodyInside
      /\ file' = None /\ index' = None /\ update' = TRUE
      /\ UNCHANGED <<rebuild, job, byPass, pass, removed>>
  BY DEF ClearAll, jobVars
<1>3. Told([u \in Items |-> "none"], Items, TRUE)
  BY DEF Told
<1>4. Caches' /\ DOMAIN readers' = DOMAIN readers
  BY <1>1, <1>2, <1>3, MutateKeeps
<1>5. fresh' = FALSE /\ \A u \in Items : job[u] = "idle"
  BY <1>2 DEF Mutate, NobodyInside
<1>6. rebuild.stage \notin {"reading", "marking"}
  BY <1>2 DEF NobodyInside
<1>7. TypeOK'
  <2>1. CacheTypes'
    BY <1>4 DEF Caches
  <2>2. QED BY <1>1, <1>2, <1>4, <1>5, <2>1 DEF TypeOK, CacheTypes
<1>8. Indexed' /\ Jobs' /\ Answered'
  BY <1>1, <1>2, <1>5, <1>6 DEF Indexed, Jobs, Answered
<1>9. QED BY <1>4, <1>7, <1>8 DEF OfflineInv, CachesAreStore, Caches, Cached

LEMMA CrashKeeps ==
  ASSUME OfflineInv, Crash
  PROVE  OfflineInv'
<1>1. TypeOK /\ Indexed
  BY OfflineParts
<1>2. /\ index' = None /\ rebuild' = [stage |-> "off", by |-> None, seen |-> {}] /\ update' = FALSE
      /\ metaCache' = [u \in Items |-> "unset"] /\ listCache' = None
      /\ fresh' = FALSE /\ readers' = <<>> /\ untold' = {}
      /\ job' = [u \in Items |-> "idle"] /\ byPass' = {} /\ pass' = None
      /\ UNCHANGED <<disk, file, removed>>
  BY DEF Crash, Off
<1>3. DOMAIN readers' = {}
  BY <1>2
<1>4. TypeOK'
  <2>1. rebuild' \in [stage : {"off", "warming", "reading", "marking"}, by : {None} \cup Items,
                      seen : SUBSET Items]
    BY <1>2
  <2>2. job' \in [Items -> Steps] /\ update' \in BOOLEAN /\ fresh' \in BOOLEAN
    BY <1>2 DEF Steps
  <2>3. metaCache' \in [Items -> {"unset", "null", "kept"}]
    BY <1>2
  <2>4. QED BY <1>1, <1>2, <1>3, <2>1, <2>2, <2>3 DEF TypeOK
<1>5. Cached' /\ Reads' /\ Finds'
  BY <1>2, <1>3 DEF Cached, Reads, Finds
<1>6. Indexed' /\ Jobs' /\ Answered'
  BY <1>2, <1>3 DEF Indexed, Jobs, Answered
<1>7. QED BY <1>4, <1>5, <1>6 DEF OfflineInv, CachesAreStore, Cached
-----------------------------------------------------------------------------
LEMMA OfflineInit == Init => OfflineInv
<1> SUFFICES ASSUME Init
             PROVE  OfflineInv
  OBVIOUS
<1>1. DOMAIN readers = {} /\ rebuild = [stage |-> "off", by |-> None, seen |-> {}]
  BY DEF Init, Off
<1>2. TypeOK
  <2>1. rebuild \in [stage : {"off", "warming", "reading", "marking"}, by : {None} \cup Items,
                     seen : SUBSET Items]
    BY <1>1
  <2>2. job \in [Items -> Steps] /\ update \in BOOLEAN /\ fresh \in BOOLEAN
    BY DEF Init, Steps
  <2>3. QED BY <1>1, <2>1, <2>2 DEF Init, TypeOK
<1>3. Cached /\ Reads /\ Finds /\ Indexed /\ Jobs /\ Answered
  BY <1>1 DEF Init, Cached, Reads, Finds, Indexed, Jobs, Answered
<1>4. QED BY <1>2, <1>3 DEF OfflineInv, CachesAreStore, Cached

\* The steps there are.
LEMMA OfflineSteps ==
  ASSUME [Next]_vars
  PROVE  \/ Aside \/ WarmBegins \/ WarmReturns \/ RebuildWrites \/ RebuildFails \/ RebuildEnds
         \/ \E by \in Items \cup {None} : RebuildSkips(by) \/ RebuildBegins(by)
         \/ \E r \in {"rebuild", "pass"}, u \in Items : MetaReturns(r, u)
         \/ \E u \in Items : JobStep(u)
         \/ PassBegins \/ PassListed \/ ClearAll \/ Crash
BY DEF Next, Aside, JobStep

\* The inductive invariant holds in every state.
THEOREM OfflineInvariant == Spec => []OfflineInv
<1>1. ASSUME OfflineInv, [Next]_vars
      PROVE  OfflineInv'
  <2>1. CASE Aside \/ WarmBegins \/ WarmReturns
    BY <1>1, <2>1, AsideKeeps, WarmKeeps
  <2>2. CASE RebuildWrites \/ RebuildFails \/ RebuildEnds
    BY <1>1, <2>2, WriteKeeps, FailKeeps, EndKeeps
  <2>3. ASSUME NEW by \in Items \cup {None}, RebuildSkips(by) \/ RebuildBegins(by)
        PROVE  OfflineInv'
    BY <1>1, <2>3, SkipKeeps, BeginKeeps
  <2>4. CASE \E r \in {"rebuild", "pass"}, u \in Items : MetaReturns(r, u)
    BY <1>1, <2>4, ReadKeeps
  <2>5. CASE \E u \in Items : JobStep(u)
    BY <1>1, <2>5, JobStepKeeps
  <2>6. CASE PassBegins \/ PassListed \/ ClearAll \/ Crash
    BY <1>1, <2>6, PassBeginKeeps, PassListedKeeps, ClearKeeps, CrashKeeps
  <2>7. QED BY <1>1, <2>1, <2>2, <2>3, <2>4, <2>5, <2>6, OfflineSteps
<1>2. QED BY <1>1, OfflineInit, PTL DEF Spec

\* A read in flight, a rebuild or a listing never puts into a cache what is
\* not on the disk, nor takes out of it what a mutation put there.
THEOREM OfflineCaches == Spec => []CachesAreStore
BY OfflineInvariant, PTL DEF OfflineInv

\* The no-mutation skip is right: with the marker fresh, the index and its file
\* are what is stored, but for what a store deleted without telling.
THEOREM OfflineIndexed == Spec => []IndexIsStore
<1>1. OfflineInv => IndexIsStore
  BY DEF OfflineInv, Indexed, IndexIsStore
<1>2. QED BY <1>1, OfflineInvariant, PTL

\* Who stores or removes an item and is answered finds it in the index, or
\* not, whoever rebuilt it.
THEOREM OfflineAnswers == Spec => AnswersAreIndexed
<1> DEFINE Answers(u) ==
      /\ job[u] = "stored" /\ job'[u] = "idle" /\ disk'[u] = "kept" /\ index' # None
           /\ rebuild.stage # "reading" => u \in index'
      /\ job[u] = "removing" /\ job'[u] = "idle" /\ index' # None
           /\ rebuild.stage # "reading" => u \notin index'
<1>1. ASSUME OfflineInv, [Next]_vars, NEW u \in Items
      PROVE  Answers(u)
  <2>0. TypeOK /\ Caches /\ Indexed /\ Jobs /\ Answered
    BY <1>1, OfflineParts
  <2>1. CASE Aside \/ WarmBegins \/ WarmReturns \/ RebuildWrites \/ PassBegins \/ PassListed
    <3>1. job' = job
      BY <2>1 DEF Aside, UpdateIndex, PassListsBroken, PassEnds, PassSkips, vars, jobVars, WarmBegins,
                  WarmReturns, RebuildWrites, PassBegins, PassListed
    <3>2. QED BY <3>1
  <2>2. CASE RebuildFails
    BY <2>2 DEF RebuildFails
  <2>3. CASE Crash \/ ClearAll
    BY <2>3 DEF Crash, ClearAll
  <2>4. ASSUME NEW r, NEW v \in Items, MetaReturns(r, v)
        PROVE  Answers(u)
    BY <2>4 DEF MetaReturns, jobVars
  <2>5. ASSUME NEW v \in Items, JobStep(v)
        PROVE  Answers(u)
    BY <2>0, <2>5, JobStepDoes DEF JobMoves
  <2>6. ASSUME NEW by \in Items \cup {None}, RebuildBegins(by)
        PROVE  Answers(u)
    BY <2>6 DEF RebuildBegins, jobVars
  <2>7. ASSUME NEW by \in Items \cup {None}, RebuildSkips(by)
        PROVE  Answers(u)
    <3>1. index' = index /\ fresh /\ index \ untold = Kept \ untold
      BY <2>0, <2>7 DEF RebuildSkips, Unneeded, Indexed
    <3>2. job[u] = "stored" /\ disk'[u] = "kept" => u \in Kept \ untold
      BY <2>0, <2>7 DEF Jobs, Kept, RebuildSkips, diskVars
    <3>3. job[u] = "removing" => u \notin Kept /\ u \notin untold
      BY <2>0 DEF Jobs, Kept
    <3>4. QED BY <3>1, <3>2, <3>3
  <2>8. CASE RebuildEnds
    <3>1. /\ rebuild.stage = "marking" /\ index' = index /\ index = readers["rebuild"].found
          /\ readers["rebuild"].todo = {} /\ CallerGoesOn(rebuild.by)
      BY <2>0, <2>8 DEF RebuildEnds, Indexed
    <3>2. rebuild.by \in Items \cup {None} /\ "rebuild" \in DOMAIN readers
      BY <2>0, <3>1 DEF TypeOK
    <3>3. \A v \in Items : job'[v] = IF v = rebuild.by THEN "idle" ELSE job[v]
      BY <2>0, <3>1, <3>2, CallerLeaves
    <3>4. readers["rebuild"].begun = {}
      BY <2>0, <3>1, <3>2 DEF Caches, Reads
    <3>5. CASE u = rebuild.by
      <4>1. rebuild.by # None
        BY <3>5, OfflineAssumption DEF Items
      <4>2. disk' = disk
        BY <2>8 DEF RebuildEnds
      <4>3. QED BY <2>0, <3>1, <3>4, <3>5, <4>1, <4>2 DEF Answered
    <3>6. CASE u # rebuild.by
      BY <3>3, <3>6
    <3>7. QED BY <3>5, <3>6
  <2>9. QED BY <1>1, <2>1, <2>2, <2>3, <2>4, <2>5, <2>6, <2>7, <2>8, OfflineSteps
<1>2. OfflineInv /\ [Next]_vars => [\A u \in Items : Answers(u)]_vars
  BY <1>1
<1>3. QED BY <1>2, OfflineInvariant, PTL DEF Spec, AnswersAreIndexed
=============================================================================
