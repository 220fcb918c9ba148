------------------------ MODULE OfflineSectionsProofs ------------------------
(***************************************************************************)
(* Proofs about OfflineSections for every number of sections, rebuilds,    *)
(* clears, items and permits.                                              *)
(*                                                                         *)
(* Every step of the store is a step of the barrier or none, and a step of *)
(* the items' locks or none, so that what was proved of the two holds of   *)
(* them in the store; LocksNest adds where each user is with its locks,    *)
(* and a rebuild is inside the barrier because its step is.                *)
(***************************************************************************)
EXTENDS OfflineSections, FiniteSetTheorems, TLAPS

-----------------------------------------------------------------------------
(***************************************************************************)
(* Proofs about KeyedSemaphores for every number of callers and keys.      *)
(*                                                                         *)
(* The dropping of entries is safe because whoever holds or waits for a    *)
(* key does so on the instance the map has for it (InMap): an entry goes   *)
(* only when its line is empty, and the lines are exactly the callers      *)
(* (InLine), so no one is left on an instance the map has forgotten.       *)
(***************************************************************************)

InMap ==
  \A c \in Callers : /\ key[c] # None <=> instance[c] # None
                     /\ key[c] # None => semaphores[key[c]] = instance[c]

OneKeyEach ==
  \A k, l \in Keys : semaphores[k] # None /\ semaphores[k] = semaphores[l] => k = l

InLine ==
  \A i \in Instances, c \in Callers :
    instance[c] = i <=> \E n \in 1..Len(line[i]) : line[i][n] = c

OnceInLine ==
  \A i \in Instances : \A m, n \in 1..Len(line[i]) : line[i][m] = line[i][n] => m = n

KeyedInv == KeyedTypeOK /\ InMap /\ OneKeyEach /\ InLine /\ OnceInLine /\ MapIsLive

\* What a line is once one more caller has joined it.
LEMMA Joined ==
  ASSUME NEW S, NEW s \in Seq(S), NEW c \in S, NEW t, t = Append(s, c)
  PROVE  /\ t \in Seq(S) /\ Len(t) = Len(s) + 1 /\ Len(s) \in Nat
         /\ \A n \in 1..Len(s) : t[n] = s[n]
         /\ t[Len(s) + 1] = c
  OBVIOUS

\* What a line is once its first caller has left it.
LEMMA Left ==
  ASSUME NEW S, NEW s \in Seq(S), s # <<>>, NEW t, t = Tail(s)
  PROVE  /\ t \in Seq(S) /\ Len(t) = Len(s) - 1 /\ Len(s) \in Nat \ {0}
         /\ \A n \in 1..Len(t) : t[n] = s[n + 1]
         /\ Head(s) = s[1]
  OBVIOUS

\* At first nobody asks.
LEMMA InitKeyed == KeyedInit => KeyedInv
<1> SUFFICES ASSUME KeyedInit PROVE KeyedInv
  OBVIOUS
<1> USE KeyedAssumption DEF KeyedInit
<1>1. KeyedTypeOK
  BY DEF KeyedTypeOK
<1>2. InMap /\ OneKeyEach /\ MapIsLive
  BY DEF InMap, OneKeyEach, MapIsLive
<1>3. InLine /\ OnceInLine
  BY DEF InLine, OnceInLine
<1> QED  BY <1>1, <1>2, <1>3 DEF KeyedInv

\* acquire(): the caller joins the line of the instance the map has for its
\* key, an old one or one nobody knew.
LEMMA AcquireKeeps ==
  ASSUME KeyedInv, NEW c \in Callers, NEW k \in Keys, Acquire(c, k)
  PROVE  KeyedInv'
<1> USE KeyedAssumption
<1>0. PICK i \in Instances :
        /\ key[c] = None
        /\ For(k, i)
        /\ line' = [line EXCEPT ![i] = Append(@, c)]
        /\ key' = [key EXCEPT ![c] = k]
        /\ instance' = [instance EXCEPT ![c] = i]
  BY DEF Acquire
<1>a. instance[c] = None /\ semaphores' = [semaphores EXCEPT ![k] = i]
  BY <1>0 DEF KeyedInv, KeyedTypeOK, InMap, For
<1>t. KeyedTypeOK
  BY DEF KeyedInv
<1>b. \/ semaphores[k] = i
      \/ /\ semaphores[k] = None
         /\ \A l \in Keys : semaphores[l] # i
         /\ \A d \in Callers : instance[d] # i
  BY <1>0, <1>t DEF For, Garbage, KeyedTypeOK
<1>c. /\ line' \in [Instances -> Seq(Callers)]
      /\ Len(line'[i]) = Len(line[i]) + 1 /\ Len(line[i]) \in Nat
      /\ \A n \in 1..Len(line[i]) : line'[i][n] = line[i][n]
      /\ line'[i][Len(line[i]) + 1] = c
      /\ \A j \in Instances \ {i} : line'[j] = line[j]
  <2>1. line[i] \in Seq(Callers) /\ line'[i] = Append(line[i], c)
    BY <1>0, <1>t DEF KeyedTypeOK
  <2>2. \A j \in Instances \ {i} : line'[j] = line[j]
    BY <1>0, <1>t DEF KeyedTypeOK
  <2>3. line'[i] \in Seq(Callers)
    BY <2>1, Joined
  <2>4. line' \in [Instances -> Seq(Callers)]
    BY <2>3, <1>0, <1>t DEF KeyedTypeOK
  <2> QED  BY <2>1, <2>2, <2>4, Joined
<1>1. KeyedTypeOK'
  BY <1>0, <1>a, <1>c, <1>t DEF KeyedTypeOK
<1>d. \A d \in Callers \ {c} : key'[d] = key[d] /\ instance'[d] = instance[d]
  BY <1>0, <1>t DEF KeyedTypeOK
<1>e. key'[c] = k /\ instance'[c] = i /\ semaphores'[k] = i
  BY <1>0, <1>a, <1>t DEF KeyedTypeOK
<1>f. \A l \in Keys \ {k} : semaphores'[l] = semaphores[l]
  BY <1>a, <1>t DEF KeyedTypeOK
<1>g. \A d \in Callers \ {c} : key[d] = k => semaphores[k] = i
  <2> SUFFICES ASSUME NEW d \in Callers \ {c}, key[d] = k PROVE semaphores[k] = i
    OBVIOUS
  <2>1. semaphores[k] # None
    BY <1>t DEF KeyedInv, InMap, KeyedTypeOK
  <2> QED  BY <2>1, <1>b
<1>2. InMap'
  BY <1>d, <1>e, <1>f, <1>g, <1>t DEF KeyedInv, InMap, KeyedTypeOK
<1>3. OneKeyEach'
  BY <1>b, <1>e, <1>f DEF KeyedInv, OneKeyEach
<1>4. InLine'
  <2> SUFFICES ASSUME NEW j \in Instances, NEW d \in Callers
               PROVE  instance'[d] = j <=> \E n \in 1..Len(line'[j]) : line'[j][n] = d
    BY DEF InLine
  <2>0. instance[d] = j <=> \E n \in 1..Len(line[j]) : line[j][n] = d
    BY DEF KeyedInv, InLine
  <2>1. CASE j # i
    BY <2>0, <2>1, <1>a, <1>c, <1>d, <1>e
  <2>2. CASE j = i /\ d # c
    <3>1. instance'[d] = instance[d]
      BY <2>2, <1>d
    <3>2. \A n \in 1..Len(line[i]) : n \in 1..Len(line'[i])
      BY <1>c
    <3>3. \A n \in 1..Len(line'[i]) : n \in 1..Len(line[i]) \/ n = Len(line[i]) + 1
      BY <1>c
    <3>4. \A n \in 1..Len(line'[i]) : line'[i][n] = d => n \in 1..Len(line[i])
      BY <3>3, <2>2, <1>c
    <3> QED  BY <2>0, <2>2, <3>1, <3>2, <3>4, <1>c
  <2>3. CASE j = i /\ d = c
    <3>1. Len(line[i]) + 1 \in 1..Len(line'[i])
      BY <1>c
    <3> QED  BY <2>3, <3>1, <1>c, <1>e
  <2> QED  BY <2>1, <2>2, <2>3
<1>5. OnceInLine'
  <2> SUFFICES ASSUME NEW j \in Instances, NEW m \in 1..Len(line'[j]),
                      NEW n \in 1..Len(line'[j]), line'[j][m] = line'[j][n]
               PROVE  m = n
    BY DEF OnceInLine
  <2>0. \A p, q \in 1..Len(line[j]) : line[j][p] = line[j][q] => p = q
    BY DEF KeyedInv, OnceInLine
  <2>1. CASE j # i
    BY <2>0, <2>1, <1>c
  <2>2. CASE j = i
    <3>1. \A p \in 1..Len(line[i]) : line[i][p] # c
      BY <1>a DEF KeyedInv, InLine
    <3> QED  BY <2>0, <2>2, <3>1, <1>c
  <2> QED  BY <2>1, <2>2
<1>6. MapIsLive'
  <2> SUFFICES ASSUME NEW l \in Keys
               PROVE  semaphores'[l] # None <=> \E d \in Callers : key'[d] = l
    BY DEF MapIsLive
  <2>0. semaphores[l] # None <=> \E d \in Callers : key[d] = l
    BY DEF KeyedInv, MapIsLive
  <2>1. CASE l = k
    BY <2>1, <1>e
  <2>2. CASE l # k
    BY <2>0, <2>2, <1>0, <1>d, <1>e, <1>f
  <2> QED  BY <2>1, <2>2
<1> QED  BY <1>1, <1>2, <1>3, <1>4, <1>5, <1>6 DEF KeyedInv

\* The release: the first of the line leaves it, and the entry goes when the
\* line is empty.
LEMMA ReleaseKeeps ==
  ASSUME KeyedInv, NEW c \in Callers, ReleaseKey(c)
  PROVE  KeyedInv'
<1> USE KeyedAssumption
<1> DEFINE k == key[c]
           i == instance[c]
<1>t. KeyedTypeOK
  BY DEF KeyedInv
<1>0. /\ i \in Instances /\ k \in Keys /\ semaphores[k] = i
      /\ line[i] # <<>> /\ Head(line[i]) = c
      /\ line' = [line EXCEPT ![i] = Tail(@)]
      /\ semaphores' = [semaphores EXCEPT ![k] = IF line'[i] = <<>> THEN None ELSE @]
      /\ key' = [key EXCEPT ![c] = None]
      /\ instance' = [instance EXCEPT ![c] = None]
  <2>1. i \in Instances /\ k \in Keys /\ semaphores[k] = i
    BY <1>t DEF KeyedInv, InMap, KeyedTypeOK, ReleaseKey, Holds
  <2> QED  BY <2>1 DEF ReleaseKey, Holds, Dropped
<1> HIDE DEF k, i
<1>c. /\ line' \in [Instances -> Seq(Callers)]
      /\ Len(line'[i]) = Len(line[i]) - 1 /\ Len(line[i]) \in Nat \ {0}
      /\ \A n \in 1..Len(line'[i]) : line'[i][n] = line[i][n + 1]
      /\ line[i][1] = c
      /\ \A j \in Instances \ {i} : line'[j] = line[j]
  <2>1. line[i] \in Seq(Callers) /\ line'[i] = Tail(line[i])
    BY <1>0, <1>t DEF KeyedTypeOK
  <2>2. \A j \in Instances \ {i} : line'[j] = line[j]
    BY <1>0, <1>t DEF KeyedTypeOK
  <2>3. line'[i] \in Seq(Callers)
    BY <2>1, <1>0, Left
  <2>4. line' \in [Instances -> Seq(Callers)]
    BY <2>3, <1>0, <1>t DEF KeyedTypeOK
  <2> QED  BY <2>1, <2>2, <2>4, <1>0, Left
<1>d. \A d \in Callers \ {c} : key'[d] = key[d] /\ instance'[d] = instance[d]
  BY <1>0, <1>t DEF KeyedTypeOK
<1>e. key'[c] = None /\ instance'[c] = None /\ key[c] = k /\ instance[c] = i
  BY <1>0, <1>t DEF KeyedTypeOK, k, i
<1>f. /\ \A l \in Keys \ {k} : semaphores'[l] = semaphores[l]
      /\ semaphores'[k] = IF line'[i] = <<>> THEN None ELSE i
  BY <1>0, <1>t DEF KeyedTypeOK
<1>1. KeyedTypeOK'
  BY <1>0, <1>c, <1>t DEF KeyedTypeOK
<1>g. \A d \in Callers : instance[d] = i => key[d] = k
  BY <1>0, <1>t DEF KeyedInv, InMap, OneKeyEach, KeyedTypeOK
<1>h. \A d \in Callers \ {c} : instance[d] = i => line'[i] # <<>>
  <2> SUFFICES ASSUME NEW d \in Callers \ {c}, instance[d] = i, line'[i] = <<>>
               PROVE  FALSE
    OBVIOUS
  <2>1. PICK n \in 1..Len(line[i]) : line[i][n] = d
    BY <1>0 DEF KeyedInv, InLine
  <2>2. Len(line[i]) = 1
    BY <1>c
  <2> QED  BY <2>1, <2>2, <1>c
<1>j. \A d \in Callers \ {c} : key[d] = k => instance[d] = i
  BY <1>0 DEF KeyedInv, InMap
<1>2. InMap'
  <2> SUFFICES ASSUME NEW d \in Callers
               PROVE  /\ key'[d] # None <=> instance'[d] # None
                      /\ key'[d] # None => semaphores'[key'[d]] = instance'[d]
    BY DEF InMap
  <2>0. /\ key[d] # None <=> instance[d] # None
        /\ key[d] # None => semaphores[key[d]] = instance[d] /\ key[d] \in Keys
    BY <1>t DEF KeyedInv, InMap, KeyedTypeOK
  <2>1. CASE d = c
    BY <2>1, <1>e
  <2>2. CASE d # c /\ key[d] # k
    BY <2>0, <2>2, <1>d, <1>f
  <2>3. CASE d # c /\ key[d] = k
    <3>1. instance[d] = i /\ line'[i] # <<>>
      BY <2>3, <1>h, <1>j
    <3>2. semaphores'[k] = i
      BY <3>1, <1>f
    <3> QED  BY <2>0, <2>3, <3>1, <3>2, <1>d
  <2> QED  BY <2>1, <2>2, <2>3
<1>3. OneKeyEach'
  BY <1>f, <1>0 DEF KeyedInv, OneKeyEach
<1>o. \A p, q \in 1..Len(line[i]) : line[i][p] = line[i][q] => p = q
  BY <1>0 DEF KeyedInv, OnceInLine
<1>4. InLine'
  <2> SUFFICES ASSUME NEW j \in Instances, NEW d \in Callers
               PROVE  instance'[d] = j <=> \E n \in 1..Len(line'[j]) : line'[j][n] = d
    BY DEF InLine
  <2>0. instance[d] = j <=> \E n \in 1..Len(line[j]) : line[j][n] = d
    BY DEF KeyedInv, InLine
  <2>1. CASE j # i
    BY <2>0, <2>1, <1>c, <1>d, <1>e
  <2>2. CASE j = i /\ d # c
    <3>1. \A n \in 1..Len(line[i]) : line[i][n] = d => n - 1 \in 1..Len(line'[i])
      BY <2>2, <1>c
    <3>2. \A n \in 1..Len(line[i]) : line[i][n] = d => line'[i][n - 1] = d
      BY <3>1, <1>c
    <3>3. \A n \in 1..Len(line'[i]) : n + 1 \in 1..Len(line[i])
      BY <1>c
    <3>4. \A n \in 1..Len(line'[i]) : line'[i][n] = line[i][n + 1]
      BY <1>c
    <3>5. (\E n \in 1..Len(line[i]) : line[i][n] = d)
            <=> \E n \in 1..Len(line'[i]) : line'[i][n] = d
      BY <3>1, <3>2, <3>3, <3>4
    <3> QED  BY <2>0, <2>2, <3>5, <1>d
  <2>3. CASE j = i /\ d = c
    <3>1. \A n \in 1..Len(line'[i]) : n + 1 \in 1..Len(line[i]) /\ n + 1 # 1
      BY <1>c
    <3>2. 1 \in 1..Len(line[i]) /\ line[i][1] = c
      BY <1>c
    <3>4. \A n \in 1..Len(line'[i]) : line'[i][n] = line[i][n + 1]
      BY <1>c
    <3>3. \A n \in 1..Len(line'[i]) : line'[i][n] # c
      BY <3>1, <3>2, <3>4, <1>o
    <3> QED  BY <2>3, <3>3, <1>e
  <2> QED  BY <2>1, <2>2, <2>3
<1>5. OnceInLine'
  <2> SUFFICES ASSUME NEW j \in Instances, NEW m \in 1..Len(line'[j]),
                      NEW n \in 1..Len(line'[j]), line'[j][m] = line'[j][n]
               PROVE  m = n
    BY DEF OnceInLine
  <2>1. CASE j # i
    BY <2>1, <1>c DEF KeyedInv, OnceInLine
  <2>2. CASE j = i
    <3>1. m + 1 \in 1..Len(line[i]) /\ n + 1 \in 1..Len(line[i])
      BY <2>2, <1>c
    <3>2. line[i][m + 1] = line[i][n + 1]
      BY <2>2, <1>c
    <3>3. m + 1 = n + 1
      BY <3>1, <3>2, <1>o
    <3> QED  BY <3>3, <2>2, <1>c
  <2> QED  BY <2>1, <2>2
<1>6. MapIsLive'
  <2> SUFFICES ASSUME NEW l \in Keys
               PROVE  semaphores'[l] # None <=> \E d \in Callers : key'[d] = l
    BY DEF MapIsLive
  <2>0. semaphores[l] # None <=> \E d \in Callers : key[d] = l
    BY DEF KeyedInv, MapIsLive
  <2>1. CASE l # k
    BY <2>0, <2>1, <1>d, <1>e, <1>f
  <2>2. CASE l = k /\ line'[i] = <<>>
    <3>1. \A d \in Callers \ {c} : key[d] # k
      BY <2>2, <1>h, <1>j
    <3> QED  BY <2>2, <3>1, <1>d, <1>e, <1>f
  <2>3. CASE l = k /\ line'[i] # <<>>
    <3>1. 1 \in 1..Len(line'[i]) /\ line'[i][1] \in Callers
      BY <2>3, <1>0, <1>c
    <3>2. instance'[line'[i][1]] = i
      BY <3>1, <1>4, <1>0 DEF InLine
    <3>3. line'[i][1] \in Callers \ {c}
      BY <3>1, <3>2, <1>e, <1>0
    <3>4. key'[line'[i][1]] = k
      BY <3>2, <3>3, <1>d, <1>g
    <3>5. semaphores'[k] = i /\ i # None
      BY <2>3, <1>f, <1>0
    <3> QED  BY <2>3, <3>3, <3>4, <3>5
  <2> QED  BY <2>1, <2>2, <2>3
<1> QED  BY <1>1, <1>2, <1>3, <1>4, <1>5, <1>6 DEF KeyedInv

\* Every step keeps KeyedInv.
LEMMA KeyedStep ==
  ASSUME KeyedInv, [KeyedNext]_keyedVars
  PROVE  KeyedInv'
<1>1. ASSUME NEW c \in Callers, NEW k \in Keys, Acquire(c, k) PROVE KeyedInv'
  BY <1>1, AcquireKeeps
<1>2. ASSUME NEW c \in Callers, ReleaseKey(c) PROVE KeyedInv'
  BY <1>2, ReleaseKeeps
<1>3. CASE UNCHANGED keyedVars
  BY <1>3 DEF keyedVars, KeyedInv, KeyedTypeOK, InMap, OneKeyEach, InLine, OnceInLine,
     MapIsLive
<1> QED  BY <1>1, <1>2, <1>3 DEF KeyedNext

\* What KeyedInv says of who holds a key and of the map.
LEMMA KeyedGives == KeyedInv => OneHolderPerKey /\ MapIsLive
<1>1. KeyedInv => OneHolderPerKey
  BY KeyedAssumption DEF KeyedInv, OneHolderPerKey, Holds, InMap, KeyedTypeOK
<1> QED  BY <1>1 DEF KeyedInv

\* KeyedInv holds throughout.
THEOREM KeyedInvariant == KeyedSpec => []KeyedInv
  BY InitKeyed, KeyedStep, PTL DEF KeyedSpec

\* Whatever the map drops and makes again, one caller at a time holds a key.
THEOREM KeyedExclusion == KeyedSpec => []OneHolderPerKey
  BY KeyedGives, KeyedInvariant, PTL

\* The map has the keys that are held or waited for and no other.
THEOREM KeyedMapIsLive == KeyedSpec => []MapIsLive
  BY KeyedGives, KeyedInvariant, PTL
-----------------------------------------------------------------------------
(***************************************************************************)
(* Proofs about ClearBarrier for every number of callers and of clears.    *)
(*                                                                         *)
(* That a clear is alone needs the count to be exact and the flag to stand *)
(* for one clear; that nobody is forgotten needs the promise `drained` not *)
(* to have resolved while anyone is inside.  BarrierInv says all of it.    *)
(***************************************************************************)

CountExact == inflight = Cardinality(Inside)

FlagExact ==
  /\ exclusive <=> Claiming # {}
  /\ \A c, d \in Claiming : c = d

ClearedWhenEmpty == \A c \in Clearers : at[c] = "clearing" => inflight = 0

PromiseExact ==
  /\ inflight > 0 => ~drained
  /\ inflight = 0 => drained

WaitersHaveClear == \A c \in BarrierCallers : at[c] = "blocked" => exclusive

BarrierInv == BarrierTypeOK /\ CountExact /\ FlagExact /\ ClearedWhenEmpty
              /\ PromiseExact /\ WaitersHaveClear

\* Users and clearers are callers, and different ones.
LEMMA Roles == /\ IsFiniteSet(Users) /\ Users \subseteq BarrierCallers /\ Clearers \subseteq BarrierCallers
               /\ \A u \in Users, c \in Clearers : u # c
  BY ClearBarrierAssumption DEF BarrierCallers

\* Those inside are finitely many: the count is a number, 0 when nobody is.
LEMMA InsideCount ==
  /\ IsFiniteSet(Inside) /\ Cardinality(Inside) \in Nat
  /\ Cardinality(Inside) = 0 <=> Inside = {}
<1>1. IsFiniteSet(Inside)
  BY Roles, FS_Subset DEF Inside
<1> QED  BY <1>1, FS_EmptySet, FS_CardinalityType

\* At first nobody is there.
LEMMA InitBarrier == BarrierInit => BarrierInv
<1> SUFFICES ASSUME BarrierInit PROVE BarrierInv
  OBVIOUS
<1>1. Inside = {} /\ Claiming = {}
  BY Roles DEF BarrierInit, Inside, Claiming
<1>2. CountExact
  BY <1>1, FS_EmptySet DEF BarrierInit, CountExact
<1>3. BarrierTypeOK
  BY Roles DEF BarrierInit, BarrierTypeOK, Places
<1>4. FlagExact
  BY <1>1 DEF BarrierInit, FlagExact
<1>5. ClearedWhenEmpty /\ PromiseExact /\ WaitersHaveClear
  BY Roles DEF BarrierInit, ClearedWhenEmpty, PromiseExact, WaitersHaveClear
<1> QED  BY <1>2, <1>3, <1>4, <1>5 DEF BarrierInv

\* enter() with no clear about: one more inside, and no clear to disturb.
LEMMA EnterKeeps ==
  ASSUME BarrierInv, NEW c \in Users, Enter(c)
  PROVE  BarrierInv'
<1> USE DEF BarrierInv, Enter, Moves
<1>0. c \in BarrierCallers /\ c \notin Clearers /\ c \notin Inside
  BY Roles DEF Inside
<1>1. BarrierTypeOK'
  BY <1>0, Roles DEF BarrierTypeOK, Places
<1>2. Inside' = Inside \cup {c}
  BY <1>0, Roles DEF BarrierTypeOK, Inside
<1>3. CountExact'
  BY <1>0, <1>2, InsideCount, FS_AddElement DEF CountExact
<1>4. Claiming' = Claiming
  BY <1>0, Roles DEF BarrierTypeOK, Claiming
<1>5. FlagExact'
  BY <1>4 DEF FlagExact
<1>6. ClearedWhenEmpty'
  <2>1. Claiming' = {}
    BY <1>4 DEF FlagExact
  <2> QED  BY <2>1 DEF Claiming, ClearedWhenEmpty
<1>7. PromiseExact'
  BY DEF PromiseExact, BarrierTypeOK
<1>8. WaitersHaveClear'
  BY <1>0, Roles DEF WaitersHaveClear, BarrierTypeOK
<1> QED  BY <1>1, <1>3, <1>5, <1>6, <1>7, <1>8

\* Waiting behind a clear disturbs nothing.
LEMMA BlockKeeps ==
  ASSUME BarrierInv, NEW c \in BarrierCallers, Block(c)
  PROVE  BarrierInv'
<1> USE DEF BarrierInv, Block, Moves
<1>1. Inside' = Inside /\ Claiming' = Claiming
  BY Roles DEF BarrierTypeOK, Inside, Claiming
<1>2. BarrierTypeOK'
  BY Roles DEF BarrierTypeOK, Places
<1>3. CountExact' /\ FlagExact' /\ PromiseExact'
  BY <1>1 DEF CountExact, FlagExact, PromiseExact
<1>4. ClearedWhenEmpty' /\ WaitersHaveClear'
  BY Roles DEF ClearedWhenEmpty, WaitersHaveClear, BarrierTypeOK
<1> QED  BY <1>2, <1>3, <1>4

\* leave(): one fewer inside, and the last one resolves the promise.
LEMMA LeaveKeeps ==
  ASSUME BarrierInv, NEW c \in Users, Leave(c)
  PROVE  BarrierInv'
<1> USE DEF BarrierInv, Leave, Moves
<1>0. c \in BarrierCallers /\ c \notin Clearers /\ c \in Inside
  BY Roles DEF Inside
<1>1. BarrierTypeOK'
  BY <1>0, Roles DEF BarrierTypeOK, Places
<1>2. Inside' = Inside \ {c}
  BY <1>0, Roles DEF BarrierTypeOK, Inside
<1>3. CountExact'
  BY <1>0, <1>2, InsideCount, FS_RemoveElement DEF CountExact
<1>4. Claiming' = Claiming
  BY <1>0, Roles DEF BarrierTypeOK, Claiming
<1>5. FlagExact'
  BY <1>4 DEF FlagExact
<1>6. ClearedWhenEmpty'
  BY <1>0, Roles DEF ClearedWhenEmpty, BarrierTypeOK
<1>7. PromiseExact'
  <2>1. ~drained /\ inflight \in Nat /\ inflight' \in Nat
    BY <1>1 DEF PromiseExact, BarrierTypeOK
  <2>2. drained' <=> inflight' = 0
    BY <2>1
  <2>3. inflight' > 0 => inflight' # 0
    BY <2>1
  <2> QED  BY <2>2, <2>3 DEF PromiseExact
<1>8. WaitersHaveClear'
  BY <1>0, Roles DEF WaitersHaveClear, BarrierTypeOK
<1> QED  BY <1>1, <1>3, <1>5, <1>6, <1>7, <1>8

\* runExclusive() with no other clear about is the one the flag stands for.
LEMMA RunExclusiveKeeps ==
  ASSUME BarrierInv, NEW c \in Clearers, RunExclusive(c)
  PROVE  BarrierInv'
<1> USE DEF BarrierInv, RunExclusive, Moves
<1>0. c \in BarrierCallers /\ c \notin Users
  BY Roles
<1>1. BarrierTypeOK'
  BY <1>0, Roles DEF BarrierTypeOK, Places
<1>2. Inside' = Inside
  BY <1>0, Roles DEF BarrierTypeOK, Inside
<1>3. CountExact' /\ PromiseExact'
  BY <1>2 DEF CountExact, PromiseExact
<1>4. Claiming = {} /\ Claiming' = {c}
  BY <1>0, Roles DEF BarrierTypeOK, Claiming, FlagExact
<1>5. FlagExact'
  BY <1>4 DEF FlagExact
<1>6. ClearedWhenEmpty'
  BY <1>4, <1>0, Roles DEF ClearedWhenEmpty, BarrierTypeOK, Claiming
<1>7. WaitersHaveClear'
  BY DEF WaitersHaveClear
<1> QED  BY <1>1, <1>3, <1>5, <1>6, <1>7

\* The promise resolved: nobody is inside.
LEMMA DrainedKeeps ==
  ASSUME BarrierInv, NEW c \in Clearers, Drained(c)
  PROVE  BarrierInv'
<1> USE DEF BarrierInv, Drained, Moves
<1>0. c \in BarrierCallers /\ c \notin Users
  BY Roles
<1>1. BarrierTypeOK'
  BY <1>0, Roles DEF BarrierTypeOK, Places
<1>2. Inside' = Inside /\ Claiming' = Claiming
  BY <1>0, Roles DEF BarrierTypeOK, Inside, Claiming
<1>3. CountExact' /\ PromiseExact' /\ FlagExact'
  BY <1>2 DEF CountExact, PromiseExact, FlagExact
<1>4. inflight' = 0
  BY DEF PromiseExact, BarrierTypeOK
<1>5. ClearedWhenEmpty' /\ WaitersHaveClear'
  BY <1>4, <1>0, Roles DEF ClearedWhenEmpty, WaitersHaveClear, BarrierTypeOK
<1> QED  BY <1>1, <1>3, <1>5

\* The clear is over: no other one was claimed, and all who waited wake.
LEMMA EndExclusiveKeeps ==
  ASSUME BarrierInv, NEW c \in Clearers, EndExclusive(c)
  PROVE  BarrierInv'
<1> USE DEF BarrierInv, EndExclusive
<1>0. c \in BarrierCallers /\ c \notin Users
  BY Roles
<1>1. BarrierTypeOK'
  BY <1>0, Roles DEF BarrierTypeOK, Places
<1>2. Inside' = Inside
  BY <1>0, Roles DEF BarrierTypeOK, Inside
<1>3. CountExact' /\ PromiseExact'
  BY <1>2 DEF CountExact, PromiseExact
<1>4. Claiming' = {}
  BY <1>0, Roles DEF BarrierTypeOK, Claiming, FlagExact
<1>5. FlagExact'
  BY <1>4 DEF FlagExact
<1>6. ClearedWhenEmpty'
  BY <1>4 DEF ClearedWhenEmpty, Claiming
<1>7. WaitersHaveClear'
  BY DEF WaitersHaveClear
<1> QED  BY <1>1, <1>3, <1>5, <1>6, <1>7

\* Every step keeps BarrierInv.
LEMMA BarrierStep ==
  ASSUME BarrierInv, [BarrierNext]_barrierVars
  PROVE  BarrierInv'
<1>1. ASSUME NEW c \in Users, UserNext(c) PROVE BarrierInv'
  BY <1>1, EnterKeeps, BlockKeeps, LeaveKeeps, Roles DEF UserNext
<1>2. ASSUME NEW c \in Clearers, ClearerNext(c) PROVE BarrierInv'
  BY <1>2, RunExclusiveKeeps, BlockKeeps, DrainedKeeps, EndExclusiveKeeps, Roles
     DEF ClearerNext
<1>3. CASE UNCHANGED barrierVars
  BY <1>3 DEF barrierVars, BarrierInv, BarrierTypeOK, CountExact, FlagExact, Inside,
     Claiming, ClearedWhenEmpty, PromiseExact, WaitersHaveClear
<1> QED  BY <1>1, <1>2, <1>3 DEF BarrierNext

\* What BarrierInv says of a clear and of who waits.
LEMMA BarrierGives == BarrierInv => ClearIsAlone /\ NobodyForgotten
<1>1. BarrierInv => ClearIsAlone
  BY InsideCount DEF BarrierInv, ClearIsAlone, ClearedWhenEmpty, CountExact, FlagExact,
     Claiming
<1>2. BarrierInv => NobodyForgotten
  BY InsideCount DEF BarrierInv, NobodyForgotten, WaitersHaveClear, FlagExact,
     PromiseExact, CountExact
<1> QED  BY <1>1, <1>2

\* BarrierInv holds throughout.
THEOREM BarrierInvariant == BarrierSpec => []BarrierInv
  BY InitBarrier, BarrierStep, PTL DEF BarrierSpec

\* Types.
THEOREM BarrierTypes == BarrierSpec => []BarrierTypeOK
<1>1. BarrierInv => BarrierTypeOK
  BY DEF BarrierInv
<1> QED  BY <1>1, BarrierInvariant, PTL

\* While a clear deletes and recreates the directories nobody is inside them
\* and no other clear runs or waits to.
THEOREM BarrierExclusion == BarrierSpec => []ClearIsAlone
  BY BarrierGives, BarrierInvariant, PTL

\* No wake-up is lost: who waits has a clear that wakes them, and a clear that
\* waits has someone inside who resolves it, or is resolved.
THEOREM BarrierNobodyForgotten == BarrierSpec => []NobodyForgotten
  BY BarrierGives, BarrierInvariant, PTL
-----------------------------------------------------------------------------
(***************************************************************************)
(* The sections: barrier and locks in the store.                           *)
(***************************************************************************)

\* Nobody is twice in the index's line.
OnceInIndexLine ==
  \A i, j \in 1..Len(indexLine) : indexLine[i] = indexLine[j] => i = j

\* What LocksNest and OnceInIndexLine say beyond the barrier and the items' locks.
Placed ==
  /\ step \in [Users -> Steps]
  /\ storeLine \in Seq(Storers) /\ indexLine \in Seq(Users)
  /\ OnceInIndexLine
  /\ \A u \in Users : Nests(u)

SectionsInv == BarrierInv /\ KeyedInv /\ Placed

\* Sections and rebuilds are users of the barrier; sections lock items.
LEMMA Actors ==
  /\ Callers \subseteq Users /\ Storers \subseteq Callers
  /\ \A u \in Indexers : u \in Users /\ u \notin Callers
  BY SectionsAssumption

\* A step of the store is one of the barrier, or leaves it alone.
LEMMA StepIsBarrierStep == [Next]_vars => [BarrierNext]_barrierVars
<1> SUFFICES ASSUME [Next]_vars PROVE [BarrierNext]_barrierVars
  OBVIOUS
<1>1. ASSUME NEW u \in Users, EnterBarrier(u) PROVE BarrierNext
  BY <1>1 DEF EnterBarrier, BarrierNext, UserNext
<1>2. ASSUME NEW u \in Users, GiveBack(u) PROVE [BarrierNext]_barrierVars
  BY <1>2 DEF GiveBack, LeaveBarrier, BarrierNext, UserNext
<1>3. ASSUME NEW u \in Users, Advance(u) PROVE [BarrierNext]_barrierVars
  BY <1>1, <1>2, <1>3 DEF Advance, LockItem, ItemLocked, Permitted, Work, Rebuild,
     RebuildAlone, IndexDone
<1>4. ASSUME NEW x \in Clearers, Clear(x) PROVE BarrierNext
  BY <1>4 DEF Clear, BarrierNext
<1>5. CASE UNCHANGED vars
  BY <1>5 DEF vars
<1> QED  BY <1>1, <1>3, <1>4, <1>5 DEF Next

\* A step of the store is one of the items' locks, or leaves them alone.
LEMMA StepIsKeyedStep == [Next]_vars => [KeyedNext]_keyedVars
<1> SUFFICES ASSUME [Next]_vars PROVE [KeyedNext]_keyedVars
  OBVIOUS
<1>1. ASSUME NEW u \in Users, EnterBarrier(u) PROVE UNCHANGED keyedVars
  BY <1>1 DEF EnterBarrier
<1>2. ASSUME NEW u \in Users, GiveBack(u) PROVE [KeyedNext]_keyedVars
  BY <1>2 DEF GiveBack, ReleaseItem, KeyedNext
<1>3. ASSUME NEW u \in Callers, NEW k \in Keys, LockItem(u, k) PROVE KeyedNext
  BY <1>3 DEF LockItem, KeyedNext
<1>4. ASSUME NEW u \in Users, Advance(u) PROVE [KeyedNext]_keyedVars
  BY <1>1, <1>2, <1>3, <1>4 DEF Advance, ItemLocked, Permitted, Work, Rebuild,
     RebuildAlone, IndexDone
<1>5. ASSUME NEW x \in Clearers, Clear(x) PROVE UNCHANGED keyedVars
  BY <1>5 DEF Clear
<1>6. CASE UNCHANGED vars
  BY <1>6 DEF vars
<1> QED  BY <1>1, <1>4, <1>5, <1>6 DEF Next

\* Who is in a line once u has joined it.
LEMMA InAppended ==
  ASSUME NEW S, NEW s \in Seq(S), NEW u \in S, NEW t, t = Append(s, u), NEW d
  PROVE  t \in Seq(S) /\ (In(d, t) <=> In(d, s) \/ d = u)
  BY DEF In

\* Who is in a line once its first has left, if nobody is in it twice.
LEMMA InTail ==
  ASSUME NEW S, NEW s \in Seq(S), s # <<>>, NEW t, t = Tail(s), NEW d,
         \A i, j \in 1..Len(s) : s[i] = s[j] => i = j
  PROVE  t \in Seq(S) /\ (In(d, t) <=> In(d, s) /\ d # s[1])
<1>1. t \in Seq(S) /\ Len(t) = Len(s) - 1 /\ \A i \in 1..Len(t) : t[i] = s[i + 1]
  OBVIOUS
<1>2. ASSUME In(d, t) PROVE In(d, s) /\ d # s[1]
  <2>1. PICK i \in 1..Len(t) : t[i] = d
    BY <1>1, <1>2 DEF In
  <2>2. i + 1 \in 1..Len(s) /\ s[i + 1] = d /\ i + 1 # 1
    BY <1>1, <2>1
  <2> QED  BY <2>2 DEF In
<1>3. ASSUME In(d, s), d # s[1] PROVE In(d, t)
  <2>1. PICK i \in 1..Len(s) : s[i] = d
    BY <1>3 DEF In
  <2>2. i - 1 \in 1..Len(t) /\ t[i - 1] = d
    BY <1>1, <1>3, <2>1
  <2>3. DOMAIN t = 1..Len(t)
    BY <1>1
  <2> QED  BY <2>2, <2>3 DEF In
<1> QED  BY <1>1, <1>2, <1>3

\* Who is in a line once one has left it from anywhere.
LEMMA InRemoved ==
  ASSUME NEW S, NEW s \in Seq(S), NEW i \in DOMAIN s, NEW d, NEW t,
         t = [j \in 1..(Len(s) - 1) |-> s[IF j < i THEN j ELSE j + 1]]
  PROVE  t \in Seq(S) /\ (In(d, t) => In(d, s))
<1>1. \A j \in 1..(Len(s) - 1) : (IF j < i THEN j ELSE j + 1) \in 1..Len(s)
  OBVIOUS
<1>2. Len(s) - 1 \in Nat /\ t \in [1..(Len(s) - 1) -> S]
  BY <1>1
<1>3. t \in Seq(S)
  BY <1>2
<1>4. In(d, t) => In(d, s)
  BY <1>1 DEF In
<1> QED  BY <1>3, <1>4

\* Who holds an item keeps it until its own release.
LEMMA HoldsKept ==
  ASSUME KeyedInv, [KeyedNext]_keyedVars, NEW u \in Callers, Holds(u), ~ReleaseKey(u)
  PROVE  Holds(u)'
<1> USE KeyedAssumption DEF KeyedInv, KeyedTypeOK
<1>1. ASSUME NEW c \in Callers, NEW k \in Keys, Acquire(c, k) PROVE Holds(u)'
  <2>1. c # u
    BY <1>1 DEF Acquire, Holds, InMap
  <2>2. PICK i \in Instances : /\ line' = [line EXCEPT ![i] = Append(@, c)]
                              /\ instance' = [instance EXCEPT ![c] = i]
    BY <1>1 DEF Acquire
  <2>3. instance'[u] = instance[u] /\ instance[u] \in Instances
    BY <2>1, <2>2 DEF Holds
  <2>4. CASE instance[u] = i
    BY <2>2, <2>3, <2>4 DEF Holds
  <2>5. CASE instance[u] # i
    BY <2>2, <2>3, <2>5 DEF Holds
  <2> QED  BY <2>4, <2>5
<1>2. ASSUME NEW c \in Callers, ReleaseKey(c) PROVE Holds(u)'
  <2>1. c # u
    BY <1>2
  <2>2. instance[c] # instance[u]
    BY <1>2, <2>1 DEF ReleaseKey, Holds
  <2> QED  BY <1>2, <2>1, <2>2 DEF ReleaseKey, Holds
<1>3. CASE UNCHANGED keyedVars
  BY <1>3 DEF keyedVars, Holds
<1> QED  BY <1>1, <1>2, <1>3 DEF KeyedNext

\* At first nobody has a lock.
LEMMA InitSections == Init => SectionsInv
<1> SUFFICES ASSUME Init PROVE SectionsInv
  OBVIOUS
<1>1. BarrierInv /\ KeyedInv
  BY InitBarrier, InitKeyed DEF Init
<1>2. step \in [Users -> Steps] /\ storeLine \in Seq(Storers) /\ indexLine \in Seq(Users)
  BY DEF Init, Steps
<1>3. \A u \in Users : Nests(u)
  BY DEF Init, Nests, In, KeyedInit
<1>4. OnceInIndexLine
  BY DEF Init, OnceInIndexLine
<1> QED  BY <1>1, <1>2, <1>3, <1>4 DEF SectionsInv, Placed

\* What one user's lines and locks are, unchanged by a step, keeps it nested.
LEMMA NestsKept ==
  ASSUME NEW u \in Users, Nests(u), step'[u] = step[u],
         at'[u] = "inside" <=> at[u] = "inside",
         u \in Callers => key'[u] = key[u],
         Holds(u) => Holds(u)',
         In(u, storeLine') => In(u, storeLine),
         In(u, indexLine') <=> In(u, indexLine)
  PROVE  Nests(u)'
  BY DEF Nests

\* enter(): the caller has nothing yet.
LEMMA EnterBarrierKeeps ==
  ASSUME SectionsInv, NEW u \in Users, EnterBarrier(u)
  PROVE  Placed'
<1>1. ASSUME NEW d \in Users, d # u PROVE at'[d] = at[d]
  BY <1>1, Roles DEF EnterBarrier, Enter, Block, Moves, SectionsInv, BarrierInv, BarrierTypeOK
<1>2. step[u] = "begin" /\ UNCHANGED <<keyedVars, step, storeLine, indexLine>>
  BY DEF EnterBarrier, lineVars
<1>3. \A d \in Users : Nests(d)
  BY DEF SectionsInv, Placed
<1>4. \A d \in Users : Nests(d)'
  BY <1>1, <1>2, <1>3 DEF Nests, Holds, keyedVars
<1> QED  BY <1>2, <1>4 DEF SectionsInv, Placed, OnceInIndexLine

\* A clear moves none in or out.
LEMMA ClearKeeps ==
  ASSUME SectionsInv, NEW x \in Clearers, Clear(x)
  PROVE  Placed'
<1>1. \A d \in Users : at'[d] = "inside" <=> at[d] = "inside"
  BY Roles DEF Clear, ClearerNext, RunExclusive, Block, Drained, EndExclusive, Moves,
     SectionsInv, BarrierInv, BarrierTypeOK
<1>2. UNCHANGED <<keyedVars, step, storeLine, indexLine>>
  BY DEF Clear, lineVars
<1>3. \A d \in Users : Nests(d)
  BY DEF SectionsInv, Placed
<1>4. \A d \in Users : Nests(d)'
  BY <1>1, <1>2, <1>3 DEF Nests, Holds, keyedVars
<1> QED  BY <1>2, <1>4 DEF SectionsInv, Placed, OnceInIndexLine

\* acquire(uuid): the caller had no item.
LEMMA LockItemKeeps ==
  ASSUME SectionsInv, NEW u \in Callers, NEW k \in Keys, LockItem(u, k)
  PROVE  Placed'
<1> USE Actors DEF SectionsInv, Placed, LockItem, lineVars, Goes
<1>1. [KeyedNext]_keyedVars
  BY DEF KeyedNext
<1>2. \A d \in Callers : d # u => ~ReleaseKey(d)
  BY KeyedAssumption DEF Acquire, ReleaseKey, KeyedInv, KeyedTypeOK, Holds, InMap
<1>3. ASSUME NEW d \in Users, d # u PROVE Nests(d)'
  <2>1. step'[d] = step[d] /\ at' = at /\ storeLine' = storeLine /\ indexLine' = indexLine
    BY <1>3 DEF barrierVars
  <2>2. d \in Callers => key'[d] = key[d]
    BY <1>3 DEF Acquire, KeyedInv, KeyedTypeOK
  <2>3. d \in Callers => (Holds(d) => Holds(d)')
    BY <1>1, <1>2, <1>3, HoldsKept
  <2>4. In(d, storeLine) => d \in Callers
    BY DEF In
  <2> QED  BY <2>1, <2>2, <2>3, <2>4 DEF Nests
<1>4. Nests(u)'
  <2>1. step'[u] = "locking" /\ at' = at /\ at[u] = "inside"
    BY DEF barrierVars, Steps
  <2>2. ~In(u, storeLine) /\ ~In(u, indexLine)
    BY KeyedAssumption DEF Nests, Acquire, Holds, KeyedInv, InMap
  <2> QED  BY <2>1, <2>2 DEF Nests
<1>5. step' \in [Users -> Steps]
  BY DEF Steps
<1> QED  BY <1>3, <1>4, <1>5 DEF OnceInIndexLine

\* What moves one user's step, and no lock but a line's, keeps the others nested.
LEMMA OthersKept ==
  ASSUME SectionsInv, NEW u \in Users, NEW to \in Steps, Goes(u, to),
         UNCHANGED <<barrierVars, keyedVars>>,
         \A d \in Users : d # u => /\ In(d, storeLine') => In(d, storeLine)
                                   /\ In(d, indexLine') <=> In(d, indexLine)
  PROVE  step' \in [Users -> Steps] /\ \A d \in Users : d # u => Nests(d)'
<1>1. at' = at /\ key' = key /\ line' = line /\ instance' = instance
  BY DEF barrierVars, keyedVars
<1>2. step \in [Users -> Steps] /\ \A d \in Users : Nests(d)
  BY DEF SectionsInv, Placed
<1>3. step' \in [Users -> Steps] /\ \A d \in Users : d # u => step'[d] = step[d]
  BY <1>2 DEF Goes
<1>4. ASSUME NEW d \in Users, d # u PROVE Nests(d)'
  <2>1. Nests(d) /\ step'[d] = step[d]
    BY <1>2, <1>3, <1>4
  <2>2. at'[d] = at[d] /\ key'[d] = key[d]
    BY <1>1
  <2>3. /\ In(d, storeLine') => In(d, storeLine)
        /\ In(d, indexLine') <=> In(d, indexLine)
    BY <1>4
  <2> QED  BY <1>1, <2>1, <2>2, <2>3 DEF Nests, In, Holds
<1> QED  BY <1>3, <1>4

\* A step that leaves both lines alone: what u may go on to.
LEMMA GoesOnKeeps ==
  ASSUME SectionsInv, NEW u \in Users, NEW to \in Steps, Goes(u, to),
         UNCHANGED <<barrierVars, keyedVars, lineVars>>,
         at[u] = "inside", step[u] # "indexing", to \notin {"begin", "indexing"},
         u \in Callers /\ to \in {"working", "stored"} => Holds(u)
  PROVE  Placed'
<1>1. storeLine' = storeLine /\ indexLine' = indexLine
  BY DEF lineVars
<1>2. step' \in [Users -> Steps] /\ \A d \in Users : d # u => Nests(d)'
  BY <1>1, OthersKept
<1>3. Nests(u) /\ step \in [Users -> Steps]
  BY DEF SectionsInv, Placed
<1>4. step'[u] = to /\ at'[u] = "inside" /\ (Holds(u)' <=> Holds(u))
  BY <1>3 DEF Goes, barrierVars, keyedVars, Holds
<1>5. Nests(u)'
  BY <1>1, <1>3, <1>4 DEF Nests
<1> QED  BY <1>1, <1>2, <1>5 DEF SectionsInv, Placed, OnceInIndexLine

\* Joining the index's line, to rebuild.
LEMMA JoinsIndexKeeps ==
  ASSUME SectionsInv, NEW u \in Users, Goes(u, "indexing"),
         indexLine' = Append(indexLine, u), UNCHANGED <<barrierVars, keyedVars, storeLine>>,
         at[u] = "inside", step[u] # "indexing", u \in Callers => Holds(u)
  PROVE  Placed'
<1>1. indexLine \in Seq(Users) /\ Nests(u) /\ step \in [Users -> Steps] /\ OnceInIndexLine
  BY DEF SectionsInv, Placed
<1>2. /\ indexLine' \in Seq(Users)
      /\ \A d \in Users : In(d, indexLine') <=> In(d, indexLine) \/ d = u
  BY <1>1, InAppended DEF In
<1>3. step' \in [Users -> Steps] /\ \A d \in Users : d # u => Nests(d)'
  BY <1>2, OthersKept DEF Steps
<1>4. step'[u] = "indexing" /\ at'[u] = "inside" /\ (Holds(u)' <=> Holds(u))
  BY <1>1 DEF Goes, barrierVars, keyedVars, Holds
<1>5. Nests(u)'
  BY <1>1, <1>2, <1>4 DEF Nests
<1>6. OnceInIndexLine'
  <2>1. \A i \in 1..Len(indexLine) : indexLine[i] # u
    BY <1>1 DEF Nests, In
  <2> QED  BY <1>1, <2>1 DEF OnceInIndexLine
<1> QED  BY <1>2, <1>3, <1>5, <1>6 DEF SectionsInv, Placed

\* Leaving the index's line.
LEMMA IndexDoneKeeps ==
  ASSUME SectionsInv, NEW u \in Users, IndexDone(u)
  PROVE  Placed'
<1>1. /\ indexLine \in Seq(Users) /\ Nests(u) /\ step \in [Users -> Steps]
      /\ OnceInIndexLine
  BY DEF SectionsInv, Placed
<1>2. indexLine # <<>> /\ indexLine[1] = u /\ indexLine' = Tail(indexLine)
  BY <1>1 DEF IndexDone, First
<1>3. /\ indexLine' \in Seq(Users)
      /\ \A d \in Users : In(d, indexLine') <=> In(d, indexLine) /\ d # u
  BY <1>1, <1>2, InTail, Zenon DEF OnceInIndexLine
<1>4. Goes(u, "ending") /\ UNCHANGED <<barrierVars, keyedVars, storeLine>> /\ step[u] = "indexing"
  BY DEF IndexDone
<1>5. step' \in [Users -> Steps] /\ \A d \in Users : d # u => Nests(d)'
  BY <1>3, <1>4, OthersKept DEF Steps
<1>6. step'[u] = "ending" /\ at'[u] = at[u] /\ (Holds(u)' <=> Holds(u))
  BY <1>1, <1>4 DEF Goes, barrierVars, keyedVars, Holds
<1>7. Nests(u)'
  BY <1>1, <1>3, <1>4, <1>6 DEF Nests
<1>8. OnceInIndexLine'
  BY <1>1, <1>2 DEF OnceInIndexLine
<1> QED  BY <1>3, <1>4, <1>5, <1>7, <1>8 DEF SectionsInv, Placed

\* With the item's lock: on to storeMutex's line, or to work.
LEMMA ItemLockedKeeps ==
  ASSUME SectionsInv, NEW u \in Callers, ItemLocked(u)
  PROVE  Placed'
<1>1. storeLine \in Seq(Storers) /\ Nests(u) /\ step \in [Users -> Steps] /\ u \in Users
  BY Actors DEF SectionsInv, Placed
<1>2. Holds(u) /\ step[u] = "locking" /\ at[u] = "inside"
  BY <1>1 DEF ItemLocked, Nests
<1>3. CASE u \in Storers
  <2>1. /\ storeLine' = Append(storeLine, u) /\ Goes(u, "queued")
        /\ UNCHANGED <<barrierVars, keyedVars>> /\ indexLine' = indexLine
    BY <1>3 DEF ItemLocked
  <2>2. /\ storeLine' \in Seq(Storers)
        /\ \A d \in Users : In(d, storeLine') <=> In(d, storeLine) \/ d = u
    BY <1>1, <1>3, <2>1, InAppended DEF In
  <2>3. step' \in [Users -> Steps] /\ \A d \in Users : d # u => Nests(d)'
    BY <1>1, <2>1, <2>2, OthersKept DEF Steps
  <2>4. step'[u] = "queued" /\ at'[u] = "inside" /\ Holds(u)'
    BY <1>1, <1>2, <2>1 DEF Goes, barrierVars, keyedVars, Holds
  <2>5. Nests(u)'
    BY <1>1, <1>2, <2>1, <2>4 DEF Nests
  <2> QED  BY <2>1, <2>2, <2>3, <2>5 DEF SectionsInv, Placed, OnceInIndexLine
<1>4. CASE u \notin Storers
  BY <1>1, <1>2, <1>4, GoesOnKeeps DEF ItemLocked, lineVars, Steps
<1> QED  BY <1>3, <1>4

\* What a user inside does between its locks.
LEMMA WorkKeeps ==
  ASSUME SectionsInv, NEW u \in Callers, Permitted(u) \/ Work(u)
  PROVE  Placed'
<1>1. Nests(u) /\ u \in Users
  BY Actors DEF SectionsInv, Placed
<1>2. CASE Permitted(u)
  <2>1. In(u, storeLine)
    BY <1>2, SectionsAssumption DEF Permitted, First, In, SectionsInv, Placed
  <2> QED  BY <1>1, <1>2, <2>1, GoesOnKeeps DEF Permitted, Nests, Steps
<1>3. CASE Work(u)
  BY <1>1, <1>3, GoesOnKeeps DEF Work, Nests, Steps
<1> QED  BY <1>2, <1>3

\* rebuildIndex(), from a section and from updateIndex().
LEMMA RebuildKeeps ==
  ASSUME SectionsInv, NEW u \in Users, (u \in Callers /\ Rebuild(u)) \/ (u \in Indexers /\ RebuildAlone(u))
  PROVE  Placed'
<1>1. Nests(u)
  BY DEF SectionsInv, Placed
<1>2. CASE u \in Callers /\ Rebuild(u)
  BY <1>1, <1>2, JoinsIndexKeeps DEF Rebuild, Nests
<1>3. CASE u \in Indexers /\ RebuildAlone(u)
  BY <1>1, <1>3, Actors, JoinsIndexKeeps DEF RebuildAlone, Admitted
<1> QED  BY <1>2, <1>3

\* release() of storeMutex.
LEMMA ReleasePermitKeeps ==
  ASSUME SectionsInv, NEW u \in Users, ReleasePermit(u),
         UNCHANGED <<barrierVars, keyedVars, step, indexLine>>
  PROVE  Placed'
<1>1. storeLine \in Seq(Storers) /\ \A d \in Users : Nests(d)
  BY DEF SectionsInv, Placed
<1>2. PICK i \in DOMAIN storeLine :
        storeLine' = [j \in 1..(Len(storeLine) - 1) |-> storeLine[IF j < i THEN j ELSE j + 1]]
  BY DEF ReleasePermit
<1>3. storeLine' \in Seq(Storers)
  BY <1>1, <1>2, InRemoved
<1>4. ASSUME NEW d \in Users PROVE Nests(d)'
  <2>1. In(d, storeLine') => In(d, storeLine)
    BY <1>1, <1>2, InRemoved
  <2> QED  BY <1>1, <2>1 DEF Nests, In, Holds, barrierVars, keyedVars
<1> QED  BY <1>3, <1>4 DEF SectionsInv, Placed, OnceInIndexLine

\* The release of the item's lock.
LEMMA ReleaseItemKeeps ==
  ASSUME SectionsInv, NEW u \in Callers, ReleaseItem(u), UNCHANGED <<barrierVars, step, lineVars>>
  PROVE  Placed'
<1>1. /\ \A d \in Users : Nests(d)
      /\ KeyedInv /\ u \in Users
  BY Actors DEF SectionsInv, Placed
<1>2. at' = at /\ storeLine' = storeLine /\ indexLine' = indexLine /\ step' = step
  BY DEF barrierVars, lineVars
<1>3. [KeyedNext]_keyedVars /\ step[u] = "ending" /\ ~In(u, storeLine) /\ ReleaseKey(u)
  BY DEF ReleaseItem, KeyedNext
<1>4. ASSUME NEW d \in Users, d # u PROVE Nests(d)'
  <2>1. d \in Callers => key'[d] = key[d]
    BY <1>1, <1>3, <1>4 DEF ReleaseKey, KeyedInv, KeyedTypeOK
  <2>2. d \in Callers => ~ReleaseKey(d)
    BY <1>1, <1>3, <1>4, KeyedAssumption DEF ReleaseKey, Holds, KeyedInv, KeyedTypeOK, InMap
  <2>3. d \in Callers => (Holds(d) => Holds(d)')
    BY <1>1, <1>3, <2>2, HoldsKept
  <2>4. In(d, storeLine) => d \in Callers
    BY Actors DEF In, SectionsInv, Placed
  <2> QED  BY <1>1, <1>2, <2>1, <2>3, <2>4 DEF Nests
<1>5. Nests(u)'
  BY <1>1, <1>2, <1>3 DEF Nests
<1> QED  BY <1>2, <1>4, <1>5 DEF SectionsInv, Placed, OnceInIndexLine

\* leave().
LEMMA LeaveBarrierKeeps ==
  ASSUME SectionsInv, NEW u \in Users, LeaveBarrier(u), UNCHANGED <<keyedVars, lineVars>>
  PROVE  Placed'
<1>1. step \in [Users -> Steps] /\ \A d \in Users : Nests(d)
  BY DEF SectionsInv, Placed
<1>2. /\ key' = key /\ line' = line /\ instance' = instance
      /\ storeLine' = storeLine /\ indexLine' = indexLine
  BY DEF keyedVars, lineVars
<1>3. /\ step' = [step EXCEPT ![u] = "begin"] /\ step[u] = "ending"
      /\ u \in Callers => key[u] = None
      /\ \A d \in Users : d # u => at'[d] = at[d]
  BY Roles DEF LeaveBarrier, Goes, Leave, Moves, SectionsInv, BarrierInv, BarrierTypeOK
<1>4. step' \in [Users -> Steps]
  BY <1>1, <1>3 DEF Steps
<1>5. ASSUME NEW d \in Users PROVE Nests(d)'
  BY <1>1, <1>2, <1>3 DEF Nests, In, Holds
<1> QED  BY <1>2, <1>4, <1>5 DEF SectionsInv, Placed, OnceInIndexLine

\* Every step keeps SectionsInv.
LEMMA SectionsStep ==
  ASSUME SectionsInv, [Next]_vars
  PROVE  SectionsInv'
<1>1. BarrierInv' /\ KeyedInv'
  BY StepIsBarrierStep, StepIsKeyedStep, BarrierStep, KeyedStep DEF SectionsInv
<1>2. ASSUME NEW u \in Users, EnterBarrier(u) PROVE Placed'
  BY <1>2, EnterBarrierKeeps
<1>3. ASSUME NEW u \in Users, GiveBack(u) PROVE Placed'
  BY <1>3, ReleasePermitKeeps, ReleaseItemKeeps, LeaveBarrierKeeps DEF GiveBack
<1>4. ASSUME NEW u \in Users, Advance(u) PROVE Placed'
  BY <1>2, <1>3, <1>4, LockItemKeeps, ItemLockedKeeps, WorkKeeps, RebuildKeeps, IndexDoneKeeps
     DEF Advance
<1>5. ASSUME NEW x \in Clearers, Clear(x) PROVE Placed'
  BY <1>5, ClearKeeps
<1>6. ASSUME UNCHANGED vars PROVE Placed'
  <2>1. UNCHANGED <<step, storeLine, indexLine, at, key, line, instance>>
    BY <1>6 DEF vars, barrierVars, keyedVars, lineVars
  <2> QED  BY <2>1 DEF SectionsInv, Placed, Nests, In, Holds, OnceInIndexLine
<1>7. Placed'
  BY <1>2, <1>4, <1>5, <1>6 DEF Next
<1> QED  BY <1>1, <1>7 DEF SectionsInv

\* SectionsInv holds throughout.
THEOREM SectionsInvariant == Spec => []SectionsInv
  BY InitSections, SectionsStep, PTL DEF Spec

\* The store goes through the barrier and the items' locks as they are meant to
\* be used: its behaviours are theirs.
THEOREM SectionsImplementLocks ==
  Spec => /\ BarrierInit /\ [][BarrierNext]_barrierVars
          /\ KeyedInit /\ [][KeyedNext]_keyedVars
<1>1. Init => BarrierInit /\ KeyedInit
  BY DEF Init
<1> QED  BY <1>1, StepIsBarrierStep, StepIsKeyedStep, PTL DEF Spec

\* The locks nest: nothing is held outside the barrier, and storeMutex and
\* indexMutex only by who owns its item.
THEOREM SectionsNest == Spec => []LocksNest
<1>1. SectionsInv => LocksNest
  BY DEF SectionsInv, LocksNest, SectionsTypes, Placed, BarrierInv, KeyedInv
<1> QED  BY <1>1, SectionsInvariant, PTL

\* No rebuild is under way while a clear deletes the directories.
THEOREM SectionsClear == Spec => []ClearMeetsNoRebuild
<1>1. SectionsInv => ClearMeetsNoRebuild
  <2> SUFFICES ASSUME SectionsInv, NEW x \in Clearers, at[x] = "clearing", NEW u \in Users
               PROVE  step[u] # "indexing"
    BY DEF ClearMeetsNoRebuild
  <2>1. at[u] # "inside"
    BY BarrierGives DEF SectionsInv, ClearIsAlone, Inside
  <2> QED  BY <2>1 DEF SectionsInv, Placed, Nests
<1> QED  BY <1>1, SectionsInvariant, PTL

\* In the store too a clear is alone and no wake-up is lost, one section at a
\* time owns an item, and the map of the items' locks stays bounded.
THEOREM SectionsExclusion ==
  Spec => [](ClearIsAlone /\ NobodyForgotten /\ OneHolderPerKey /\ MapIsLive)
<1>1. SectionsInv => ClearIsAlone /\ NobodyForgotten /\ OneHolderPerKey /\ MapIsLive
  BY BarrierGives, KeyedGives DEF SectionsInv
<1> QED  BY <1>1, SectionsInvariant, PTL
=============================================================================
