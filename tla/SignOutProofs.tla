---------------------------- MODULE SignOutProofs ----------------------------
(***************************************************************************)
(* Theorems on SignOut: what a sign-out set out to delete stays listed,    *)
(* and nothing that is a session's is deleted, whoever signs in and out    *)
(* and wherever the process ends, as long as the marker can be saved.      *)
(***************************************************************************)
EXTENDS SignOut, SequenceTheorems, TLAPS

\* Which operations can be in the queue together, and when.
Queued ==
  /\ ~Up => queue = <<Task("resume", None)>> /\ entering = None /\ leaving.at = "idle"
  /\ vault # None =>
       /\ entering = None
       /\ \A i \in 1..Len(queue) : queue[i].kind \notin {"signOut", "signedIn"}
  /\ \A i \in 1..Len(queue) : queue[i].kind = "signedIn" =>
       i = Len(queue) /\ entering # None /\ queue[i].user = entering
  /\ entering # None =>
       queue = <<>> \/ queue[Len(queue)] = Task("signedIn", entering)
  /\ leaving.at # "idle" => entering = None
  /\ \A i \in 1..Len(queue) : queue[i].kind = "signOut" =>
       queue[i].user \in Users \cup {None}

\* How far the running operation is.
Paced ==
  /\ step # "none" => queue # <<>>
  /\ step = "listing" => Head(queue).kind = "signOut"
  /\ todo # {} => step # "none" /\ Head(queue).kind # "begin"
  /\ ~Up /\ step = "none" => pending = {}
  /\ Up /\ step = "none" => marker = pending
  /\ step = "listing" =>
       /\ pending \cap Parts(Head(queue).user) \subseteq todo
       /\ Head(queue).user # None => Sync(Head(queue).user) \in todo

\* A session is being stored, and nothing is left to do before it.
Entered ==
  entering # None /\ (queue = <<>> \/ (step # "none" /\ Head(queue).kind = "signedIn"))

\* What is a session's is on no list, except that begin() lists the profile.
Lists ==
  /\ \A e \in todo : e # Profile /\ data[e] # "owned"
  /\ vault = None => \A e \in GLOBALS : data[e] # "owned"
  /\ \A u \in Users : vault # u => data[Sync(u)] # "owned"
  /\ \A e \in marker \cup pending : e # Profile => data[e] # "owned"
  /\ vault # None => Own(vault) \cap (marker \cup pending) \subseteq {Profile}
  /\ Entered => Own(entering) \cap pending = {}

\* What is due is listed in memory once the marker has been read.
Dues ==
  /\ due \subseteq marker
  /\ step = "deleting" => due \subseteq pending
  /\ step = "listing" => due \ (Parts(Head(queue).user) \ todo) \subseteq pending
  /\ step = "deleting" /\ Head(queue).kind = "signOut" => pending \subseteq marker
  /\ vault # None \/ Entered => Profile \notin due
  /\ ~Up /\ outcome \in {"deleted", "signed-in"} => Profile \notin due

SignOutInv == TypeOK /\ Queued /\ Paced /\ Lists /\ Dues
-----------------------------------------------------------------------------
\* The names of entries do not meet.

LEMMA EntryFacts ==
  /\ GLOBALS \subseteq Entries
  /\ Stash \in GLOBALS /\ Lock \in GLOBALS /\ Logs \in GLOBALS /\ Profile \in GLOBALS
  /\ Profile \notin {Stash, Lock, Logs}
  /\ Stash \notin {Lock, Logs}
  /\ \A u : Sync(u) \in Parts(u) /\ Mounts(u) \in Parts(u)
  /\ \A u : Parts(u) \cap GLOBALS = {}
  /\ \A u \in Users : Parts(u) \subseteq Entries /\ Own(u) \subseteq Entries
  /\ Parts(None) \cap Entries = {}
  /\ \A u, v : u # v => Parts(u) \cap Parts(v) = {}
<1>1. GLOBALS \subseteq Entries
  BY DEF Entries
<1>2. Stash \in GLOBALS /\ Lock \in GLOBALS /\ Logs \in GLOBALS /\ Profile \in GLOBALS
  BY DEF GLOBALS
<1>3. Profile \notin {Stash, Lock, Logs} /\ Stash \notin {Lock, Logs}
  BY DEF Stash, Lock, Logs, Profile
<1>4. \A u : Sync(u) \in Parts(u) /\ Mounts(u) \in Parts(u)
  BY DEF Parts
<1>5. \A u : Parts(u) \cap GLOBALS = {}
  BY DEF Parts, Sync, Mounts, GLOBALS, Stash, Lock, Logs, Profile
<1>6. \A u, v : u # v => Parts(u) \cap Parts(v) = {}
  BY DEF Parts, Sync, Mounts
<1>7. \A u \in Users : Parts(u) \subseteq Entries /\ Own(u) \subseteq Entries
  BY <1>1, <1>2 DEF Entries, Own
<1>8. Parts(None) \cap Entries = {}
  BY <1>5, <1>6, SignOutAssumption DEF Entries
<1>9. QED BY <1>1, <1>2, <1>3, <1>4, <1>5, <1>6, <1>7, <1>8

LEMMA OwnFacts ==
  ASSUME NEW u
  PROVE  /\ Own(u) = Parts(u) \cup {Lock, Logs, Profile}
         /\ Stash \notin Own(u) /\ Profile \in Own(u)
         /\ Own(u) \subseteq Parts(u) \cup GLOBALS
         /\ \A v : v # u => Sync(v) \notin Own(u)
BY EntryFacts DEF Own

-----------------------------------------------------------------------------
\* Sequences.

Tasks == [kind : {"resume", "begin", "signOut", "signedIn"}, user : Users \cup {None}]

LEMMA QueueTail ==
  ASSUME NEW q \in Seq(Tasks), q # <<>>
  PROVE  /\ Tail(q) \in Seq(Tasks)
         /\ Len(q) \in Nat \ {0} /\ Len(Tail(q)) = Len(q) - 1
         /\ \A i \in 1..Len(Tail(q)) : Tail(q)[i] = q[i + 1] /\ i + 1 \in 1..Len(q)
         /\ Head(q) = q[1] /\ Head(q) \in Tasks
OBVIOUS

LEMMA QueueAppend ==
  ASSUME NEW q \in Seq(Tasks), NEW t \in Tasks
  PROVE  /\ Append(q, t) \in Seq(Tasks)
         /\ Len(Append(q, t)) = Len(q) + 1 /\ Len(q) \in Nat
         /\ \A i \in 1..Len(q) : Append(q, t)[i] = q[i]
         /\ Append(q, t)[Len(q) + 1] = t
         /\ Append(q, t) # <<>>
         /\ q # <<>> => Head(Append(q, t)) = Head(q)
<1>1. /\ Append(q, t) \in Seq(Tasks)
      /\ Len(Append(q, t)) = Len(q) + 1 /\ Len(q) \in Nat
      /\ \A i \in 1..Len(q) : Append(q, t)[i] = q[i]
      /\ Append(q, t)[Len(q) + 1] = t
  BY AppendProperties
<1>2. Append(q, t) # <<>>
  BY <1>1
<1>3. q # <<>> => Head(Append(q, t)) = Head(q)
  BY <1>1, <1>2
<1>4. QED BY <1>1, <1>2, <1>3
-----------------------------------------------------------------------------
\* The types.

LEMMA TaskType ==
  ASSUME NEW kind \in {"resume", "begin", "signOut", "signedIn"}, NEW u \in Users \cup {None}
  PROVE  Task(kind, u) \in Tasks /\ Task(kind, u).kind = kind /\ Task(kind, u).user = u
BY DEF Task, Tasks

\* The running operation.
LEMMA HeadTask ==
  ASSUME TypeOK, NEW kind, Running(kind)
  PROVE  queue # <<>> /\ Head(queue).kind = kind /\ Head(queue) \in Tasks
<1>1. queue \in Seq(Tasks) /\ queue # <<>>
  BY DEF TypeOK, Tasks, Running
<1>2. Head(queue) \in Tasks
  BY <1>1, QueueTail
<1>3. Head(queue).kind = kind
  BY DEF Running, Task
<1>4. QED BY <1>1, <1>2, <1>3

LEMMA FinishTypes ==
  ASSUME TypeOK, queue # <<>>, Finish
  PROVE  /\ queue' \in Seq(Tasks)
         /\ step' = "none" /\ todo' = {}
         /\ leaving' \in [at : {"idle", "begin", "wipe"}, user : Users \cup {None}]
<1>1. queue' \in Seq(Tasks)
  BY QueueTail DEF TypeOK, Finish, Tasks
<1>2. QED BY <1>1, SignOutAssumption DEF TypeOK, Finish, Stays

LEMMA SignOutStepTypes == SignOutInv /\ [Next]_vars => TypeOK'
<1> SUFFICES ASSUME SignOutInv, [Next]_vars
             PROVE  TypeOK'
  OBVIOUS
<1>0. TypeOK /\ (step # "none" => queue # <<>>)
  BY DEF SignOutInv, Paced
<1> USE <1>0
<1> USE DEF TypeOK, Tasks
<1>1. CASE Resume
  <2>1. pending' \in SUBSET Entries /\ due' \in SUBSET Entries
    BY <1>1 DEF Resume
  <2>2. CASE marker = {}
    BY <1>1, <2>1, <2>2, FinishTypes DEF Resume, Begins, Running
  <2>3. CASE marker # {}
    BY <1>1, <2>1, <2>3 DEF Resume
  <2>4. QED BY <2>2, <2>3
<1>2. CASE Begin
  <2>1. CASE Profile \in pending
    BY <1>2, <2>1, FinishTypes DEF Begin, Begins, Running
  <2>2. CASE Profile \notin pending
    BY <1>2, <2>2, EntryFacts DEF Begin
  <2>3. QED BY <2>1, <2>2
<1>3. ASSUME NEW cleared \in BOOLEAN, StopHost(cleared)
      PROVE  TypeOK'
  <2>1. Head(queue) \in Tasks
    BY <1>3, HeadTask DEF StopHost, Begins
  <2> DEFINE u == Head(queue).user
             parts == PartsToGo(u, cleared)
  <2>2. parts \subseteq Entries
    BY <2>1, EntryFacts DEF PartsToGo
  <2>3. pending' = List(u, parts) /\ todo' = parts \cup {Stash, Lock, Logs}
    BY <1>3 DEF StopHost
  <2>4. pending' \in SUBSET Entries /\ todo' \in SUBSET Entries
    BY <2>2, <2>3, EntryFacts DEF List
  <2>5. QED BY <1>3, <2>4 DEF StopHost
<1>4. CASE Listed
  BY <1>4 DEF Listed, Save
<1>5. CASE SignedIn
  <2> DEFINE u == Head(queue).user
  <2>1. CASE pending \cap (Parts(u) \cup GLOBALS) = {}
    BY <1>5, <2>1, FinishTypes DEF SignedIn, Begins, Running
  <2>2. CASE pending \cap (Parts(u) \cup GLOBALS) # {}
    BY <1>5, <2>2 DEF SignedIn, Unlisted
  <2>3. QED BY <2>1, <2>2
<1>6. CASE Ends
  BY <1>6, FinishTypes DEF Ends, Save
<1>7. ASSUME NEW e \in Entries, Deletes(e)
      PROVE  TypeOK'
  <2>1. data' \in [Entries -> {"none", "owned", "left"}]
    BY <1>7 DEF Deletes
  <2>2. QED BY <1>7, <2>1 DEF Deletes, Tries, SetsOut
<1>8. ASSUME NEW e \in Entries, Fails(e)
      PROVE  TypeOK'
  BY <1>8 DEF Fails, Tries, SetsOut, NotDeleted
<1>9. CASE SessionClear
  <2>1. queue' \in Seq(Tasks)
    BY <1>9, QueueAppend, TaskType DEF SessionClear
  <2>2. QED BY <1>9, <2>1 DEF SessionClear
<1>10. CASE VaultClears
  <2>1. queue' \in Seq(Tasks)
    BY <1>10, QueueAppend, TaskType DEF VaultClears
  <2>2. leaving' \in [at : {"idle", "begin", "wipe"}, user : Users \cup {None}]
    BY <1>10 DEF VaultClears
  <2>3. QED BY <1>10, <2>1, <2>2 DEF VaultClears, Leaves
<1>11. CASE Revoked
  <2>1. queue' \in Seq(Tasks)
    BY <1>11, QueueAppend, TaskType DEF Revoked
  <2>2. QED BY <1>11, <2>1 DEF Revoked, Leaves
<1>12. ASSUME NEW u \in Users, SessionSet(u)
       PROVE  TypeOK'
  <2>1. queue' \in Seq(Tasks)
    BY <1>12, QueueAppend, TaskType DEF SessionSet
  <2>2. QED BY <1>12, <2>1 DEF SessionSet
<1>13. CASE VaultSet
  BY <1>13 DEF VaultSet
<1>14. CASE VaultNotSet
  BY <1>14 DEF VaultNotSet
<1>15. CASE Writes
  BY <1>15 DEF Writes, memory
<1>16. CASE Restart
  <2>1. queue' \in Seq(Tasks)
    <3>1. <<Task("resume", None)>> \in Seq(Tasks)
      BY TaskType
    <3>2. QED BY <1>16, <3>1 DEF Restart
  <2>2. data' \in [Entries -> {"none", "owned", "left"}]
    BY <1>16 DEF Restart
  <2>3. QED BY <1>16, <2>1, <2>2 DEF Restart, Wipes, Stays
<1>17. CASE UNCHANGED vars
  BY <1>17 DEF vars, memory
<1>18. QED
  BY <1>1, <1>2, <1>3, <1>4, <1>5, <1>6, <1>7, <1>8, <1>9, <1>10, <1>11, <1>12, <1>13,
     <1>14, <1>15, <1>16, <1>17 DEF Next, Operations, Sessions
-----------------------------------------------------------------------------
\* The queue.

\* An operation that ends leaves the others as they were.
LEMMA FinishQueued ==
  ASSUME SignOutInv, queue # <<>>, Finish, UNCHANGED <<vault, entering>>
  PROVE  /\ Queued' /\ Up'
         /\ ~Up => queue' = <<>>
         /\ entering' # None /\ queue' = <<>> => Head(queue) = Task("signedIn", entering)
         /\ leaving'.at # "idle" => leaving' = leaving
<1>1. queue \in Seq(Tasks) /\ queue' = Tail(queue)
  BY DEF SignOutInv, TypeOK, Tasks, Finish
<1>2. /\ Len(queue) \in Nat \ {0} /\ Len(queue') = Len(queue) - 1
      /\ \A i \in 1..Len(queue') : queue'[i] = queue[i + 1] /\ i + 1 \in 1..Len(queue)
      /\ Head(queue) = queue[1] /\ queue' \in Seq(Tasks)
  BY <1>1, QueueTail
<1>3. Len(queue') = 0 => queue' = <<>>
  BY <1>2
<1>4. ~Up => queue' = <<>>
  BY <1>1 DEF SignOutInv, Queued
<1>5. Up'
  BY <1>2, <1>4 DEF Up
<1>6. leaving'.at # "idle" => leaving' = leaving
  BY DEF Finish, Stays
<1>7. entering' # None => queue' = <<>> \/ queue'[Len(queue')] = queue[Len(queue)]
  BY <1>2, <1>3
<1>8. Queued'
  BY <1>2, <1>5, <1>6, <1>7 DEF SignOutInv, Queued
<1>9. entering' # None /\ queue' = <<>> => Head(queue) = Task("signedIn", entering)
  <2>1. queue' = <<>> => Len(queue) = 1
    BY <1>2
  <2>2. QED BY <1>2, <2>1 DEF SignOutInv, Queued
<1>10. QED BY <1>4, <1>5, <1>6, <1>8, <1>9

\* A step that touches none of it.
LEMMA KeptQueued ==
  ASSUME SignOutInv, UNCHANGED <<vault, queue, leaving, entering>>
  PROVE  Queued' /\ Up' = Up
<1>1. Up' = Up
  BY DEF Up
<1>2. Queued'
  BY <1>1 DEF SignOutInv, Queued
<1>3. QED BY <1>1, <1>2

LEMMA SignOutStepQueued == SignOutInv /\ [Next]_vars => Queued'
<1> SUFFICES ASSUME SignOutInv, [Next]_vars
             PROVE  Queued'
  OBVIOUS
<1>0. /\ TypeOK /\ Queued /\ (step # "none" => queue # <<>>)
      /\ queue \in Seq(Tasks)
  BY DEF SignOutInv, Paced, TypeOK, Tasks
<1> USE <1>0
<1>1. CASE Resume
  BY <1>1, FinishQueued, KeptQueued DEF Resume, Begins, Running
<1>2. CASE Begin
  BY <1>2, FinishQueued, KeptQueued DEF Begin, Begins, Running
<1>3. ASSUME NEW cleared \in BOOLEAN, StopHost(cleared)
      PROVE  Queued'
  BY <1>3, KeptQueued DEF StopHost
<1>4. CASE Listed
  BY <1>4, KeptQueued DEF Listed
<1>5. CASE SignedIn
  BY <1>5, FinishQueued, KeptQueued DEF SignedIn, Begins, Running
<1>6. CASE Ends
  BY <1>6, FinishQueued DEF Ends
<1>7. ASSUME NEW e \in Entries, Deletes(e)
      PROVE  Queued'
  BY <1>7, KeptQueued DEF Deletes, Tries
<1>8. ASSUME NEW e \in Entries, Fails(e)
      PROVE  Queued'
  BY <1>8, KeptQueued DEF Fails, Tries
<1>9. CASE SessionClear
  <2> DEFINE t == Task("begin", None)
  <2>1. t \in Tasks /\ t.kind = "begin"
    BY TaskType
  <2>2. queue' = Append(queue, t) /\ Up /\ entering' = None /\ vault' = vault
    BY <1>9 DEF SessionClear
  <2>3. /\ Len(queue') = Len(queue) + 1 /\ Len(queue) \in Nat
        /\ \A i \in 1..Len(queue) : queue'[i] = queue[i]
        /\ queue'[Len(queue) + 1] = t
    BY <2>1, <2>2, QueueAppend
  <2>4. \A i \in 1..Len(queue') : i \in 1..Len(queue) \/ i = Len(queue) + 1
    BY <2>3
  <2>5. Up'
    BY <2>1, <2>2, <2>3, <2>4 DEF Up
  <2>6. QED BY <2>1, <2>2, <2>3, <2>4, <2>5, <1>9 DEF Queued, SessionClear
<1>10. CASE VaultClears
  <2> DEFINE t == Task("signOut", leaving.user)
  <2>1. t \in Tasks /\ t.kind = "signOut" /\ t.user \in Users \cup {None}
    BY TaskType DEF TypeOK
  <2>2. /\ queue' = Append(queue, t) /\ Up /\ entering' = None /\ vault' = None
        /\ entering = None
    BY <1>10 DEF VaultClears, Leaves, Queued
  <2>3. /\ Len(queue') = Len(queue) + 1 /\ Len(queue) \in Nat
        /\ \A i \in 1..Len(queue) : queue'[i] = queue[i]
        /\ queue'[Len(queue) + 1] = t
    BY <2>1, <2>2, QueueAppend
  <2>4. \A i \in 1..Len(queue') : i \in 1..Len(queue) \/ i = Len(queue) + 1
    BY <2>3
  <2>5. Up'
    BY <2>1, <2>2, <2>3, <2>4 DEF Up
  <2>6. QED BY <2>1, <2>2, <2>3, <2>4, <2>5 DEF Queued
<1>11. CASE Revoked
  <2> DEFINE t == Task("signOut", vault)
  <2>1. t \in Tasks /\ t.kind = "signOut" /\ t.user \in Users \cup {None}
    BY TaskType DEF TypeOK
  <2>2. /\ queue' = Append(queue, t) /\ Up /\ entering' = None /\ vault' = None
        /\ entering = None
    BY <1>11 DEF Revoked, Leaves, Queued
  <2>3. /\ Len(queue') = Len(queue) + 1 /\ Len(queue) \in Nat
        /\ \A i \in 1..Len(queue) : queue'[i] = queue[i]
        /\ queue'[Len(queue) + 1] = t
    BY <2>1, <2>2, QueueAppend
  <2>4. \A i \in 1..Len(queue') : i \in 1..Len(queue) \/ i = Len(queue) + 1
    BY <2>3
  <2>5. Up'
    BY <2>1, <2>2, <2>3, <2>4 DEF Up
  <2>6. QED BY <2>1, <2>2, <2>3, <2>4, <2>5 DEF Queued
<1>12. ASSUME NEW u \in Users, SessionSet(u)
       PROVE  Queued'
  <2> DEFINE t == Task("signedIn", u)
  <2>1. t \in Tasks /\ t.kind = "signedIn" /\ t.user = u
    BY TaskType
  <2>2. /\ queue' = Append(queue, t) /\ Up /\ entering = None /\ entering' = u
        /\ vault' = None /\ leaving' = leaving /\ leaving.at = "idle"
    BY <1>12 DEF SessionSet
  <2>3. /\ Len(queue') = Len(queue) + 1 /\ Len(queue) \in Nat
        /\ \A i \in 1..Len(queue) : queue'[i] = queue[i]
        /\ queue'[Len(queue) + 1] = t
    BY <2>1, <2>2, QueueAppend
  <2>4. \A i \in 1..Len(queue') : i \in 1..Len(queue) \/ i = Len(queue) + 1
    BY <2>3
  <2>5. Up'
    BY <2>1, <2>2, <2>3, <2>4 DEF Up
  <2>6. u # None
    BY SignOutAssumption
  <2>7. QED BY <2>1, <2>2, <2>3, <2>4, <2>5, <2>6 DEF Queued
<1>13. CASE VaultSet
  BY <1>13 DEF VaultSet, Queued, Up
<1>14. CASE VaultNotSet
  BY <1>14 DEF VaultNotSet, Queued, Up
<1>15. CASE Writes
  BY <1>15, KeptQueued DEF Writes, memory
<1>16. CASE Restart
  <2>1. queue' = <<Task("resume", None)>> /\ entering' = None /\ leaving'.at = "idle"
    BY <1>16 DEF Restart, Stays
  <2>2. Len(queue') = 1 /\ queue'[1].kind = "resume"
    BY <2>1, TaskType
  <2>3. QED BY <2>1, <2>2 DEF Queued
<1>17. CASE UNCHANGED vars
  BY <1>17, KeptQueued DEF vars, memory
<1>18. QED
  BY <1>1, <1>2, <1>3, <1>4, <1>5, <1>6, <1>7, <1>8, <1>9, <1>10, <1>11, <1>12, <1>13,
     <1>14, <1>15, <1>16, <1>17 DEF Next, Operations, Sessions
-----------------------------------------------------------------------------
\* How far the operations are.

\* While something is appended the running operation goes on, or none begins.
LEMMA AppendPaced ==
  ASSUME SignOutInv, Up, NEW t \in Tasks, t.kind # "resume", queue' = Append(queue, t),
         UNCHANGED <<marker, pending, step, todo>>
  PROVE  Paced' /\ Up' /\ (step # "none" => Head(queue') = Head(queue))
<1>1. /\ queue \in Seq(Tasks) /\ Paced
  BY DEF SignOutInv, TypeOK, Tasks
<1>2. /\ Len(queue') = Len(queue) + 1 /\ Len(queue) \in Nat
      /\ \A i \in 1..Len(queue) : queue'[i] = queue[i]
      /\ queue'[Len(queue) + 1] = t
      /\ queue' # <<>>
      /\ queue # <<>> => Head(queue') = Head(queue)
  BY <1>1, QueueAppend
<1>3. \A i \in 1..Len(queue') : i \in 1..Len(queue) \/ i = Len(queue) + 1
  BY <1>2
<1>4. Up'
  BY <1>2, <1>3 DEF Up
<1>5. step # "none" => Head(queue') = Head(queue)
  BY <1>1, <1>2 DEF Paced
<1>6. QED BY <1>1, <1>2, <1>4, <1>5 DEF Paced

LEMMA SignOutStepPaced ==
  "saveFails" \notin Faults /\ SignOutInv /\ [Next]_vars => Paced'
<1> SUFFICES ASSUME "saveFails" \notin Faults, SignOutInv, [Next]_vars
             PROVE  Paced'
  OBVIOUS
<1>0. /\ TypeOK /\ Queued /\ Paced /\ queue \in Seq(Tasks)
  BY DEF SignOutInv, TypeOK, Tasks
<1> USE <1>0
<1>1. CASE Resume
  <2>1. ~Up /\ queue # <<>> /\ Head(queue).kind = "resume" /\ pending = {} /\ step = "none"
    <3>1. queue # <<>> /\ Head(queue).kind = "resume" /\ step = "none"
      BY <1>1, HeadTask DEF Resume, Begins
    <3>2. ~Up
      BY <3>1, QueueTail DEF Up
    <3>3. QED BY <3>1, <3>2 DEF Paced
  <2>2. CASE marker = {}
    BY <1>1, <2>1, <2>2, FinishQueued DEF Resume, Finish, Paced
  <2>3. CASE marker # {}
    <3>1. Up' = Up /\ queue' = queue /\ step' = "deleting"
      BY <1>1, <2>3 DEF Resume, Up
    <3>2. QED BY <1>1, <2>1, <2>3, <3>1 DEF Resume, Paced
  <2>4. QED BY <2>2, <2>3
<1>2. CASE Begin
  <2>1. queue # <<>> /\ Head(queue).kind = "begin" /\ step = "none" /\ Up
    <3>1. queue # <<>> /\ Head(queue).kind = "begin" /\ step = "none"
      BY <1>2, HeadTask DEF Begin, Begins
    <3>2. Up
      BY <3>1, TaskType DEF Queued
    <3>3. QED BY <3>1, <3>2
  <2>2. CASE Profile \in pending
    BY <1>2, <2>1, <2>2, FinishQueued DEF Begin, Finish, Paced
  <2>3. CASE Profile \notin pending
    BY <1>2, <2>1, <2>3 DEF Begin, Paced, Up
  <2>4. QED BY <2>2, <2>3
<1>3. ASSUME NEW cleared \in BOOLEAN, StopHost(cleared)
      PROVE  Paced'
  <2> DEFINE u == Head(queue).user
             parts == PartsToGo(u, cleared)
  <2>1. queue # <<>> /\ Head(queue).kind = "signOut"
    BY <1>3, HeadTask DEF StopHost, Begins
  <2>2. /\ pending' = List(u, parts) /\ todo' = parts \cup {Stash, Lock, Logs}
        /\ step' = "listing" /\ queue' = queue
    BY <1>3 DEF StopHost
  <2>3. u # None => Sync(u) \in parts
    BY EntryFacts DEF PartsToGo
  <2>4. pending' \cap Parts(u) \subseteq todo'
    <3>1. CASE u = None
      <4>1. pending' \subseteq Entries
        BY <3>1, <2>2, EntryFacts DEF List, PartsToGo, TypeOK
      <4>2. QED BY <4>1, <3>1, EntryFacts
    <3>2. CASE u # None
      BY <3>2, <2>2, EntryFacts DEF List
    <3>3. QED BY <3>1, <3>2
  <2>5. QED BY <2>1, <2>2, <2>3, <2>4 DEF Paced, Up
<1>4. CASE Listed
  BY <1>4 DEF Listed, Paced, Up
<1>5. CASE SignedIn
  <2> DEFINE u == Head(queue).user
  <2>1. queue # <<>> /\ Head(queue).kind = "signedIn" /\ step = "none" /\ Up
    <3>1. queue # <<>> /\ Head(queue).kind = "signedIn" /\ step = "none"
      BY <1>5, HeadTask DEF SignedIn, Begins
    <3>2. Up
      BY <3>1, TaskType DEF Queued
    <3>3. QED BY <3>1, <3>2
  <2>2. CASE pending \cap (Parts(u) \cup GLOBALS) = {}
    BY <1>5, <2>1, <2>2, FinishQueued DEF SignedIn, Finish, Paced
  <2>3. CASE pending \cap (Parts(u) \cup GLOBALS) # {}
    BY <1>5, <2>1, <2>3 DEF SignedIn, Paced, Up
  <2>4. QED BY <2>2, <2>3
<1>6. CASE Ends
  BY <1>6, FinishQueued DEF Ends, Save, Finish, Paced
<1>7. ASSUME NEW e \in Entries, Deletes(e)
      PROVE  Paced'
  BY <1>7 DEF Deletes, Tries, IsNext, Paced, Up
<1>8. ASSUME NEW e \in Entries, Fails(e)
      PROVE  Paced'
  BY <1>8 DEF Fails, Tries, IsNext, NotDeleted, Paced, Up
<1>9. CASE SessionClear
  BY <1>9, AppendPaced, TaskType DEF SessionClear
<1>10. CASE VaultClears
  <2>1. Up
    BY <1>10 DEF VaultClears, Queued
  <2>2. leaving.user \in Users \cup {None}
    BY DEF TypeOK
  <2>3. QED BY <1>10, <2>1, <2>2, AppendPaced, TaskType DEF VaultClears
<1>11. CASE Revoked
  <2>1. vault \in Users \cup {None}
    BY DEF TypeOK
  <2>2. QED BY <1>11, <2>1, AppendPaced, TaskType DEF Revoked
<1>12. ASSUME NEW u \in Users, SessionSet(u)
       PROVE  Paced'
  BY <1>12, AppendPaced, TaskType DEF SessionSet
<1>13. CASE VaultSet
  BY <1>13 DEF VaultSet, Paced, Up
<1>14. CASE VaultNotSet
  BY <1>14 DEF VaultNotSet, Paced, Up
<1>15. CASE Writes
  BY <1>15 DEF Writes, memory, Paced, Up
<1>16. CASE Restart
  <2>1. queue' = <<Task("resume", None)>> /\ pending' = {} /\ step' = "none" /\ todo' = {}
    BY <1>16 DEF Restart
  <2>2. ~Up'
    BY <2>1, TaskType DEF Up
  <2>3. QED BY <2>1, <2>2 DEF Paced
<1>17. CASE UNCHANGED vars
  BY <1>17 DEF vars, memory, Paced, Up
<1>18. QED
  BY <1>1, <1>2, <1>3, <1>4, <1>5, <1>6, <1>7, <1>8, <1>9, <1>10, <1>11, <1>12, <1>13,
     <1>14, <1>15, <1>16, <1>17 DEF Next, Operations, Sessions
-----------------------------------------------------------------------------
\* The lists.

\* A sign-in is over only once its own operation, the last, has ended.
LEMMA EnteredAfter ==
  ASSUME SignOutInv, queue # <<>>, Finish, UNCHANGED <<vault, entering>>, Entered'
  PROVE  Head(queue) = Task("signedIn", entering) /\ entering # None
<1>1. entering' # None /\ queue' = <<>>
  BY DEF Entered, Finish
<1>2. QED BY <1>1, FinishQueued

\* A session is stored only while neither a sign-out nor a sign-in is queued.
LEMMA SignOutRuns ==
  ASSUME SignOutInv, queue # <<>>, Head(queue).kind \in {"signOut", "signedIn"}
  PROVE  vault = None /\ Up
<1>1. queue \in Seq(Tasks)
  BY DEF SignOutInv, TypeOK, Tasks
<1>2. 1 \in 1..Len(queue) /\ Head(queue) = queue[1]
  BY <1>1, QueueTail
<1>3. QED BY <1>2, TaskType DEF SignOutInv, Queued

\* A session that goes leaves nothing of its own.
LEMMA LeavesLists ==
  ASSUME SignOutInv, Leaves(vault), UNCHANGED <<marker, pending, todo, entering>>,
         entering = None
  PROVE  Lists'
<1>1. TypeOK /\ Lists
  BY DEF SignOutInv
<1>2. \A e \in Entries : data'[e] = "owned" => data[e] = "owned"
  BY <1>1 DEF Leaves, TypeOK
<1>3. \A e \in todo' \cup marker' \cup pending' : e \in Entries
  BY <1>1 DEF TypeOK
<1>4. \A e \in GLOBALS : data'[e] # "owned"
  <2>1. CASE vault = None
    BY <1>1, <1>2, <2>1, EntryFacts DEF Lists
  <2>2. CASE vault # None
    <3>1. GLOBALS \subseteq Own(vault) \cup {Stash}
      BY OwnFacts DEF GLOBALS
    <3>2. QED BY <1>1, <2>2, <3>1, EntryFacts DEF Leaves, TypeOK
  <2>3. QED BY <2>1, <2>2
<1>5. \A u \in Users : data'[Sync(u)] # "owned"
  <2> SUFFICES ASSUME NEW u \in Users PROVE data'[Sync(u)] # "owned"
    OBVIOUS
  <2>1. Sync(u) \in Entries /\ Sync(u) \in Own(u) /\ u # None
    BY EntryFacts, OwnFacts, SignOutAssumption
  <2>2. CASE vault = u
    BY <1>1, <2>1, <2>2 DEF Leaves, TypeOK
  <2>3. CASE vault # u
    BY <1>1, <1>2, <2>1, <2>3 DEF Lists
  <2>4. QED BY <2>2, <2>3
<1>6. vault' = None
  BY DEF Leaves
<1>7. QED BY <1>1, <1>2, <1>3, <1>4, <1>5, <1>6 DEF Lists, Entered

LEMMA SignOutStepLists ==
  "saveFails" \notin Faults /\ SignOutInv /\ [Next]_vars => Lists'
<1> SUFFICES ASSUME "saveFails" \notin Faults, SignOutInv, [Next]_vars
             PROVE  Lists'
  OBVIOUS
<1>0. /\ TypeOK /\ Queued /\ Paced /\ Lists /\ queue \in Seq(Tasks)
      /\ todo \subseteq Entries /\ marker \subseteq Entries /\ pending \subseteq Entries
  BY DEF SignOutInv, TypeOK, Tasks
<1> USE <1>0
<1>1. CASE Resume
  <2>1. queue # <<>> /\ ~Up /\ entering = None
    <3>1. queue # <<>> /\ Head(queue).kind = "resume"
      BY <1>1, HeadTask DEF Resume, Begins
    <3>2. QED BY <3>1, QueueTail DEF Up, Queued
  <2>2. todo' \subseteq marker \ {Profile} /\ pending' \subseteq marker \cup pending
    BY <1>1 DEF Resume, Finish
  <2>3. ~Entered'
    BY <1>1, <2>1 DEF Resume, Entered
  <2>4. QED BY <1>1, <2>2, <2>3 DEF Resume, Lists
<1>2. CASE Begin
  <2>1. queue # <<>> /\ Head(queue).kind = "begin" /\ step = "none"
    BY <1>2, HeadTask DEF Begin, Begins
  <2>2. ~Entered'
    <3>1. CASE Profile \in pending
      BY <1>2, <2>1, <3>1, EnteredAfter, TaskType DEF Begin, Task
    <3>2. CASE Profile \notin pending
      BY <1>2, <2>1, <3>2 DEF Begin, Entered
    <3>3. QED BY <3>1, <3>2
  <2>3. todo' \subseteq todo /\ pending' \subseteq pending \cup {Profile}
    BY <1>2 DEF Begin, Finish
  <2>4. QED BY <1>2, <2>2, <2>3 DEF Begin, Lists
<1>3. ASSUME NEW cleared \in BOOLEAN, StopHost(cleared)
      PROVE  Lists'
  <2> DEFINE u == Head(queue).user
             parts == PartsToGo(u, cleared)
  <2>1. queue # <<>> /\ Head(queue).kind = "signOut" /\ Head(queue) \in Tasks
    BY <1>3, HeadTask DEF StopHost, Begins
  <2>2. vault = None /\ u \in Users \cup {None}
    BY <2>1, SignOutRuns DEF Tasks
  <2>3. /\ pending' = List(u, parts) /\ todo' = parts \cup {Stash, Lock, Logs}
        /\ step' = "listing" /\ cleared => MayClear(u)
    BY <1>3 DEF StopHost
  <2>4. \A e \in parts : e \notin GLOBALS /\ data[e] # "owned"
    BY <1>3, <2>2, EntryFacts, SignOutAssumption DEF PartsToGo, Parts, MayClear, Lists, StopHost
  <2>5. \A e \in todo' : e # Profile /\ data[e] # "owned"
    BY <2>2, <2>3, <2>4, EntryFacts DEF Lists
  <2>6. \A e \in pending' : e # Profile => data[e] # "owned"
    BY <2>2, <2>3, <2>4 DEF List, Lists
  <2>7. ~Entered'
    BY <1>3, <2>1, <2>3 DEF StopHost, Entered
  <2>8. QED BY <1>3, <2>2, <2>5, <2>6, <2>7 DEF StopHost, Lists
<1>4. CASE Listed
  <2> DEFINE u == Head(queue).user
  <2>1. queue # <<>> /\ Head(queue).kind = "signOut" /\ vault = None
    BY <1>4, SignOutRuns DEF Listed, Paced
  <2>2. \A e \in Entries : e \in todo \/ e \notin Parts(u) => data'[e] = data[e]
    BY <1>4 DEF Listed
  <2>3. \A e \in GLOBALS : data'[e] = data[e]
    BY <2>2, EntryFacts
  <2>4. \A e \in pending : data'[e] = data[e]
    BY <1>4, <2>2 DEF Listed, Paced
  <2>5. \A v \in Users : data'[Sync(v)] = data[Sync(v)]
    <3> SUFFICES ASSUME NEW v \in Users PROVE data'[Sync(v)] = data[Sync(v)]
      OBVIOUS
    <3>1. Sync(v) \in Entries /\ (v # u => Sync(v) \notin Parts(u)) /\ v # None
      BY EntryFacts, SignOutAssumption
    <3>2. v = u => Sync(v) \in todo
      BY <1>4, <3>1 DEF Listed, Paced
    <3>3. QED BY <2>2, <3>1, <3>2
  <2>6. marker' = pending /\ ~Entered'
    BY <1>4, <2>1 DEF Listed, Save, Entered
  <2>7. QED BY <1>4, <2>1, <2>2, <2>3, <2>4, <2>5, <2>6 DEF Listed, Lists
<1>5. CASE SignedIn
  <2> DEFINE u == Head(queue).user
  <2>1. queue # <<>> /\ Head(queue).kind = "signedIn" /\ step = "none"
    BY <1>5, HeadTask DEF SignedIn, Begins
  <2>2. vault = None
    BY <2>1, SignOutRuns
  <2>3. entering = u
    BY <2>1, QueueTail DEF Queued
  <2>4. CASE pending \cap (Parts(u) \cup GLOBALS) = {}
    <3>1. Own(entering) \cap pending = {}
      BY <2>3, <2>4, OwnFacts
    <3>2. QED BY <1>5, <2>2, <2>4, <3>1 DEF SignedIn, Finish, Lists
  <2>5. CASE pending \cap (Parts(u) \cup GLOBALS) # {}
    <3>1. /\ todo' \subseteq pending \ {Profile} /\ pending' \subseteq pending
          /\ Own(entering) \cap pending' = {}
      BY <1>5, <2>3, <2>5 DEF SignedIn, Unlisted
    <3>2. QED BY <1>5, <2>2, <2>5, <3>1 DEF SignedIn, Lists
  <2>6. QED BY <2>4, <2>5
<1>6. CASE Ends
  <2>1. queue # <<>> /\ step # "none"
    BY <1>6 DEF Ends, Paced
  <2>2. Entered' => Entered /\ entering' = entering
    BY <1>6, <2>1, EnteredAfter, TaskType DEF Ends, Entered, Task
  <2>3. QED BY <1>6, <2>2 DEF Ends, Save, Finish, Lists
<1>7. ASSUME NEW e \in Entries, Deletes(e)
      PROVE  Lists'
  <2>1. /\ \A d \in Entries : data'[d] = "owned" => data[d] = "owned"
        /\ todo' \subseteq todo /\ pending' \subseteq pending
        /\ marker' = marker /\ vault' = vault /\ Entered' = Entered /\ entering' = entering
    BY <1>7 DEF Deletes, Tries, TypeOK, Entered
  <2>2. QED BY <2>1, EntryFacts DEF Lists
<1>8. ASSUME NEW e \in Entries, Fails(e)
      PROVE  Lists'
  BY <1>8 DEF Fails, Tries, NotDeleted, Lists, Entered
<1>9. CASE SessionClear
  BY <1>9 DEF SessionClear, Lists, Entered
<1>10. CASE VaultClears
  BY <1>10, LeavesLists DEF VaultClears, Queued
<1>11. CASE Revoked
  BY <1>11, LeavesLists DEF Revoked, Queued
<1>12. ASSUME NEW u \in Users, SessionSet(u)
       PROVE  Lists'
  <2>1. ~Entered'
    <3>1. /\ queue' # <<>>
          /\ queue # <<>> => Head(queue') = Head(queue)
      BY <1>12, QueueAppend, TaskType DEF SessionSet
    <3>2. queue # <<>> => Head(queue).kind # "signedIn"
      BY <1>12, QueueTail DEF SessionSet, Queued
    <3>3. QED BY <1>12, <3>1, <3>2 DEF SessionSet, Entered, Paced
  <2>2. QED BY <1>12, <2>1 DEF SessionSet, Lists
<1>13. CASE VaultSet
  <2>1. Entered /\ marker = pending /\ todo = {} /\ entering \in Users
    BY <1>13 DEF VaultSet, Entered, Paced, Up, TypeOK
  <2>2. Own(entering) \cap (marker \cup pending) = {}
    BY <2>1 DEF Lists
  <2>3. \A d \in Entries : d \notin Own(entering) => data'[d] = data[d]
    BY <1>13 DEF VaultSet
  <2>4. \A u \in Users : u # entering => data'[Sync(u)] = data[Sync(u)]
    BY <2>3, EntryFacts, OwnFacts
  <2>5. vault' = entering /\ entering # None /\ ~Entered' /\ vault = None
    BY <1>13 DEF VaultSet, Entered, Queued
  <2>6. \A d \in marker \cup pending : data'[d] = data[d]
    BY <2>2, <2>3
  <2>7. \A u \in Users : vault' # u => data'[Sync(u)] # "owned"
    BY <2>4, <2>5, SignOutAssumption DEF Lists
  <2>8. UNCHANGED <<marker, pending, todo>>
    BY <1>13 DEF VaultSet
  <2>9. QED BY <2>1, <2>2, <2>5, <2>6, <2>7, <2>8 DEF Lists
<1>14. CASE VaultNotSet
  BY <1>14 DEF VaultNotSet, Lists, Entered
<1>15. CASE Writes
  <2>1. vault # None /\ vault \in Users /\ Up
    BY <1>15 DEF Writes, TypeOK
  <2>2. todo = {}
    <3>1. queue # <<>> => Head(queue) \in Tasks /\ Head(queue) = queue[1] /\ 1 \in 1..Len(queue)
      BY QueueTail
    <3>2. queue # <<>> => Head(queue).kind \notin {"resume", "signOut", "signedIn"}
      BY <2>1, <3>1 DEF Queued, Up
    <3>3. queue # <<>> => Head(queue).kind = "begin"
      BY <3>1, <3>2 DEF Tasks
    <3>4. QED BY <3>3 DEF Paced
  <2>3. \A d \in Entries : d \notin Own(vault) => data'[d] = data[d]
    BY <1>15 DEF Writes
  <2>4. \A u \in Users : u # vault => data'[Sync(u)] = data[Sync(u)]
    BY <2>3, EntryFacts, OwnFacts
  <2>5. \A d \in marker \cup pending : d # Profile => data'[d] = data[d]
    BY <2>1, <2>3 DEF Lists
  <2>6. QED BY <1>15, <2>1, <2>2, <2>4, <2>5 DEF Writes, memory, Lists, Entered
<1>16. CASE Restart
  <2>1. \A d \in Entries : data'[d] = "owned" => data[d] = "owned"
    BY <1>16 DEF Restart, TypeOK
  <2>2. pending' = {} /\ todo' = {} /\ marker' = marker /\ vault' = vault /\ ~Entered'
    BY <1>16 DEF Restart, Entered
  <2>3. QED BY <2>1, <2>2, EntryFacts DEF Lists
<1>17. CASE UNCHANGED vars
  BY <1>17 DEF vars, memory, Lists, Entered
<1>18. QED
  BY <1>1, <1>2, <1>3, <1>4, <1>5, <1>6, <1>7, <1>8, <1>9, <1>10, <1>11, <1>12, <1>13,
     <1>14, <1>15, <1>16, <1>17 DEF Next, Operations, Sessions
-----------------------------------------------------------------------------
\* What is due.

\* A step that leaves the running operation and the lists as they are.
LEMMA KeptDues ==
  ASSUME SignOutInv, UNCHANGED <<marker, pending, step, todo, due, outcome>>,
         step # "none" => Head(queue') = Head(queue),
         ~Up' => ~Up,
         vault' # None \/ Entered' => Profile \notin due
  PROVE  Dues'
BY DEF SignOutInv, Dues

LEMMA SignOutStepDues ==
  "saveFails" \notin Faults /\ SignOutInv /\ [Next]_vars => Dues'
<1> SUFFICES ASSUME "saveFails" \notin Faults, SignOutInv, [Next]_vars
             PROVE  Dues'
  OBVIOUS
<1>0. /\ TypeOK /\ Queued /\ Paced /\ Lists /\ Dues /\ queue \in Seq(Tasks)
      /\ todo \subseteq Entries /\ marker \subseteq Entries /\ pending \subseteq Entries
  BY DEF SignOutInv, TypeOK, Tasks
<1> USE <1>0
<1>1. CASE Resume
  <2>1. queue # <<>> /\ Head(queue).kind = "resume" /\ ~Up /\ entering = None
    <3>1. queue # <<>> /\ Head(queue).kind = "resume"
      BY <1>1, HeadTask DEF Resume, Begins
    <3>2. QED BY <3>1, QueueTail DEF Up, Queued
  <2>2. ~Entered' /\ vault' = vault /\ due' = due /\ marker' = marker /\ outcome' = outcome
    BY <1>1, <2>1 DEF Resume, Entered
  <2>3. CASE marker = {}
    <3>1. Up' /\ step' = "none"
      BY <1>1, <2>1, <2>3, FinishQueued DEF Resume, Finish
    <3>2. QED BY <2>2, <3>1 DEF Dues
  <2>4. CASE marker # {}
    <3>1. due \subseteq pending' /\ step' = "deleting" /\ queue' = queue /\ Up' = Up
      BY <1>1, <2>1, <2>4 DEF Resume, Dues, Up
    <3>2. QED BY <2>1, <2>2, <3>1 DEF Dues
  <2>5. QED BY <2>3, <2>4
<1>2. CASE Begin
  <2>1. queue # <<>> /\ Head(queue).kind = "begin" /\ step = "none" /\ Up
    <3>1. queue # <<>> /\ Head(queue).kind = "begin" /\ step = "none"
      BY <1>2, HeadTask DEF Begin, Begins
    <3>2. Up
      BY <3>1, TaskType DEF Queued
    <3>3. QED BY <3>1, <3>2
  <2>2. UNCHANGED <<vault, entering, due, marker, outcome>> /\ due \subseteq pending
    BY <1>2, <2>1 DEF Begin, Paced, Dues
  <2>3. CASE Profile \in pending
    <3>1. ~Entered' /\ Up' /\ step' = "none"
      BY <1>2, <2>1, <2>3, FinishQueued, EnteredAfter, TaskType DEF Begin, Finish, Task
    <3>2. QED BY <2>2, <3>1 DEF Dues
  <2>4. CASE Profile \notin pending
    <3>1. ~Entered' /\ Up' /\ step' = "deleting" /\ queue' = queue
      BY <1>2, <2>1, <2>4 DEF Begin, Entered, Up
    <3>2. due' \subseteq pending'
      BY <1>2, <2>2, <2>4 DEF Begin
    <3>3. QED BY <2>1, <2>2, <3>1, <3>2 DEF Dues
  <2>5. QED BY <2>3, <2>4
<1>3. ASSUME NEW cleared \in BOOLEAN, StopHost(cleared)
      PROVE  Dues'
  <2> DEFINE u == Head(queue).user
             parts == PartsToGo(u, cleared)
  <2>1. queue # <<>> /\ Head(queue).kind = "signOut" /\ step = "none"
    BY <1>3, HeadTask DEF StopHost, Begins
  <2>2. vault = None /\ Up
    BY <2>1, SignOutRuns
  <2>3. /\ pending' = List(u, parts) /\ todo' = parts \cup {Stash, Lock, Logs}
        /\ step' = "listing" /\ queue' = queue
        /\ UNCHANGED <<vault, marker, outcome, entering, due>>
    BY <1>3 DEF StopHost
  <2>4. due \subseteq pending
    BY <2>1, <2>2 DEF Paced, Dues
  <2>5. due \ (Parts(u) \ todo') \subseteq pending'
    BY <2>3, <2>4, EntryFacts DEF List
  <2>6. ~Entered' /\ Up'
    BY <2>1, <2>2, <2>3 DEF Entered, Up
  <2>7. QED BY <2>2, <2>3, <2>5, <2>6 DEF Dues
<1>4. CASE Listed
  <2> DEFINE u == Head(queue).user
  <2>1. queue # <<>> /\ Head(queue).kind = "signOut" /\ vault = None /\ Up
    BY <1>4, SignOutRuns DEF Listed, Paced
  <2>2. /\ marker' = pending /\ pending' = pending /\ step' = "deleting" /\ queue' = queue
        /\ vault' = vault /\ ~Entered' /\ Up'
    BY <1>4, <2>1 DEF Listed, Save, Entered, Up
  <2>3. due' \subseteq due \ (Parts(u) \ todo)
    <3> SUFFICES ASSUME NEW e \in due', e \in Parts(u) \ todo PROVE FALSE
      BY <1>4 DEF Listed
    <3>1. e \in Entries /\ data'[e] = "left" /\ e \in due
      BY <1>4 DEF Listed, TypeOK
    <3>2. data[e] # "left" => data'[e] = data[e]
      BY <1>4, <3>1 DEF Listed
    <3>3. data[e] = "left" => data'[e] = "owned"
      BY <1>4, <3>1 DEF Listed
    <3>4. QED BY <3>1, <3>2, <3>3
  <2>4. due' \subseteq pending
    BY <1>4, <2>3 DEF Listed, Dues
  <2>5. QED BY <2>1, <2>2, <2>4 DEF Dues
<1>5. CASE SignedIn
  <2> DEFINE u == Head(queue).user
  <2>1. queue # <<>> /\ Head(queue).kind = "signedIn" /\ step = "none"
    BY <1>5, HeadTask DEF SignedIn, Begins
  <2>2. vault = None /\ Up
    BY <2>1, SignOutRuns
  <2>3. due \subseteq pending /\ UNCHANGED <<vault, marker, outcome>>
    BY <1>5, <2>1, <2>2 DEF SignedIn, Paced, Dues
  <2>4. CASE pending \cap (Parts(u) \cup GLOBALS) = {}
    <3>1. Profile \notin due
      BY <2>3, <2>4, EntryFacts
    <3>2. step' = "none" /\ Up' /\ due' = due
      BY <1>5, <2>1, <2>4, FinishQueued DEF SignedIn, Finish
    <3>3. QED BY <2>3, <3>1, <3>2 DEF Dues
  <2>5. CASE pending \cap (Parts(u) \cup GLOBALS) # {}
    <3>1. /\ due' = due \ Own(u) /\ pending' = pending \ Own(u)
          /\ step' = "deleting" /\ queue' = queue /\ Up'
      BY <1>5, <2>2, <2>5 DEF SignedIn, Unlisted, Up
    <3>2. Profile \notin due'
      BY <3>1, OwnFacts
    <3>3. QED BY <2>1, <2>3, <3>1, <3>2 DEF Dues
  <2>6. QED BY <2>4, <2>5
<1>6. CASE Ends
  <2>1. queue # <<>> /\ step = "deleting" /\ marker' = pending /\ step' = "none"
    BY <1>6 DEF Ends, Save, Finish, Paced
  <2>2. Up'
    BY <1>6, <2>1, FinishQueued DEF Ends
  <2>3. Entered' => Entered
    BY <1>6, <2>1, EnteredAfter, TaskType DEF Ends, Entered, Task
  <2>4. UNCHANGED <<vault, due, pending>>
    BY <1>6 DEF Ends
  <2>5. QED BY <2>1, <2>2, <2>3, <2>4 DEF Dues
<1>7. ASSUME NEW e \in Entries, Tries(e),
             pending' \in {pending, pending \ {e}},
             pending' = pending \/ data'[e] = "none"
      PROVE  Dues'
  <2>1. /\ queue # <<>> /\ step = "deleting" /\ Up' = Up /\ Entered' = Entered
        /\ UNCHANGED <<vault, marker, queue, step, outcome>>
    BY <1>7 DEF Tries, Paced, Up, Entered
  <2>2. due' \subseteq pending
    BY <1>7, <2>1 DEF Tries, SetsOut, Dues
  <2>3. due' \subseteq pending'
    BY <1>7, <2>2 DEF Tries, SetsOut
  <2>4. CASE Head(queue).kind = "signOut"
    <3>1. vault = None /\ Up /\ ~Entered
      BY <2>1, <2>4, SignOutRuns DEF Entered
    <3>2. due' \subseteq marker /\ pending' \subseteq marker
      BY <1>7, <2>1, <2>2, <2>4 DEF Dues
    <3>3. QED BY <2>1, <2>3, <3>1, <3>2 DEF Dues
  <2>5. CASE Head(queue).kind # "signOut"
    <3>1. due' \subseteq due
      BY <1>7, <2>5, HeadTask DEF Tries, SetsOut
    <3>2. QED BY <2>1, <2>3, <2>5, <3>1 DEF Dues
  <2>6. QED BY <2>4, <2>5
<1>8. ASSUME NEW e \in Entries, Deletes(e) \/ Fails(e)
      PROVE  Dues'
  <2>1. Deletes(e) => data'[e] = "none"
    BY DEF Deletes, TypeOK
  <2>2. QED BY <1>7, <1>8, <2>1 DEF Deletes, Fails, NotDeleted
<1>9. CASE SessionClear
  <2>1. Up' /\ (step # "none" => Head(queue') = Head(queue))
    BY <1>9, AppendPaced, TaskType DEF SessionClear
  <2>2. ~Entered' /\ vault' = vault
    BY <1>9 DEF SessionClear, Entered
  <2>3. QED BY <1>9, <2>1, <2>2, KeptDues DEF SessionClear, Dues
<1>10. CASE VaultClears
  <2>1. Up /\ entering = None /\ leaving.user \in Users \cup {None}
    BY <1>10 DEF VaultClears, Queued, TypeOK
  <2>2. Up' /\ (step # "none" => Head(queue') = Head(queue))
    BY <1>10, <2>1, AppendPaced, TaskType DEF VaultClears
  <2>3. ~Entered' /\ vault' = None
    BY <1>10, <2>1 DEF VaultClears, Leaves, Entered
  <2>4. QED BY <1>10, <2>2, <2>3, KeptDues DEF VaultClears
<1>11. CASE Revoked
  <2>1. vault \in Users \cup {None} /\ entering = None
    BY <1>11 DEF Revoked, Queued, TypeOK
  <2>2. Up' /\ (step # "none" => Head(queue') = Head(queue))
    BY <1>11, <2>1, AppendPaced, TaskType DEF Revoked
  <2>3. ~Entered' /\ vault' = None
    BY <1>11, <2>1 DEF Revoked, Leaves, Entered
  <2>4. QED BY <1>11, <2>2, <2>3, KeptDues DEF Revoked
<1>12. ASSUME NEW u \in Users, SessionSet(u)
       PROVE  Dues'
  <2>1. Up' /\ (step # "none" => Head(queue') = Head(queue))
    BY <1>12, AppendPaced, TaskType DEF SessionSet
  <2>2. ~Entered'
    <3>1. queue' # <<>>
      BY <1>12, QueueAppend, TaskType DEF SessionSet
    <3>2. queue # <<>> => Head(queue).kind # "signedIn"
      BY <1>12, QueueTail DEF SessionSet, Queued
    <3>3. QED BY <1>12, <2>1, <3>1, <3>2 DEF SessionSet, Entered, Paced
  <2>3. vault' = None
    BY <1>12 DEF SessionSet
  <2>4. QED BY <1>12, <2>1, <2>2, <2>3, KeptDues DEF SessionSet
<1>13. CASE VaultSet
  <2>1. Entered /\ queue' = queue /\ Up' = Up
    BY <1>13 DEF VaultSet, Entered, Up
  <2>2. QED BY <1>13, <2>1, KeptDues DEF VaultSet, Dues
<1>14. CASE VaultNotSet
  <2>1. queue' = queue /\ Up' = Up /\ ~Entered'
    BY <1>14 DEF VaultNotSet, Entered, Up
  <2>2. QED BY <1>14, <2>1, KeptDues DEF VaultNotSet, Dues
<1>15. CASE Writes
  <2>1. queue' = queue /\ Up' = Up /\ Entered' = Entered
    BY <1>15 DEF Writes, memory, Entered, Up
  <2>2. QED BY <1>15, <2>1, KeptDues DEF Writes, memory, Dues
<1>16. CASE Restart
  <2>1. /\ due' \subseteq due /\ step' = "none" /\ ~Entered'
        /\ UNCHANGED <<vault, marker>>
    BY <1>16 DEF Restart, Entered
  <2>2. outcome' = "deleted" => Profile \notin due'
    BY <1>16, EntryFacts DEF Restart, TypeOK
  <2>3. outcome' = "signed-in" => Profile \notin due'
    BY <1>16, <2>1 DEF Restart, Wipes, Dues
  <2>4. QED BY <2>1, <2>2, <2>3 DEF Dues
<1>17. CASE UNCHANGED vars
  <2>1. queue' = queue /\ Up' = Up /\ Entered' = Entered
    BY <1>17 DEF vars, memory, Entered, Up
  <2>2. QED BY <1>17, <2>1, KeptDues DEF vars, memory, Dues
<1>18. QED
  BY <1>1, <1>2, <1>3, <1>4, <1>5, <1>6, <1>8, <1>9, <1>10, <1>11, <1>12, <1>13,
     <1>14, <1>15, <1>16, <1>17 DEF Next, Operations, Sessions
-----------------------------------------------------------------------------
\* The theorems.

LEMMA SignOutInit == Init => SignOutInv
<1> SUFFICES ASSUME Init
             PROVE  SignOutInv
  OBVIOUS
<1>1. queue = <<Task("resume", None)>> /\ queue \in Seq(Tasks)
  BY TaskType DEF Init
<1>2. PICK owned \in {{}, Own(vault), Own(vault) \cup {Stash}} :
        /\ data = [e \in Entries |-> IF e \in owned THEN "owned" ELSE "none"]
        /\ vault = None => owned = {}
  BY DEF Init
<1>3. TypeOK
  BY <1>1, <1>2 DEF Init, TypeOK, Tasks, Stays
<1>4. ~Up
  BY <1>1, TaskType DEF Up
<1>5. Queued
  BY <1>1, TaskType DEF Init, Queued, Stays
<1>6. Paced
  BY <1>4 DEF Init, Paced
<1>7. Lists
  <2>1. vault = None => \A e \in Entries : data[e] # "owned"
    BY <1>2
  <2>2. \A u \in Users : vault # u => data[Sync(u)] # "owned"
    <3> SUFFICES ASSUME NEW u \in Users, vault # u PROVE data[Sync(u)] # "owned"
      OBVIOUS
    <3>1. Sync(u) \in Entries /\ Sync(u) \notin Own(vault) /\ Sync(u) # Stash
      BY EntryFacts, OwnFacts
    <3>2. QED BY <1>2, <3>1
  <2>3. QED BY <2>1, <2>2, EntryFacts DEF Init, Lists, Entered
<1>8. Dues
  BY DEF Init, Dues
<1>9. QED BY <1>3, <1>5, <1>6, <1>7, <1>8 DEF SignOutInv

\* The inductive invariant, as long as the marker can be saved.
THEOREM SignOutInvariant ==
  ASSUME "saveFails" \notin Faults
  PROVE  Spec => []SignOutInv
<1>1. SignOutInv /\ [Next]_vars => SignOutInv'
  <2> SUFFICES ASSUME SignOutInv, [Next]_vars
               PROVE  SignOutInv'
    OBVIOUS
  <2>1. TypeOK'
    BY SignOutStepTypes
  <2>2. Queued'
    BY SignOutStepQueued
  <2>3. Paced'
    BY SignOutStepPaced
  <2>4. Lists'
    BY SignOutStepLists
  <2>5. Dues'
    BY SignOutStepDues
  <2>6. QED BY <2>1, <2>2, <2>3, <2>4, <2>5 DEF SignOutInv
<1>2. QED BY <1>1, SignOutInit, PTL DEF Spec

\* What a sign-out has set out to delete stays in the marker until it is gone
\* or a session's, for any number of users, sign-outs and restarts.
THEOREM SignOutStaysListed ==
  ASSUME "saveFails" \notin Faults
  PROVE  Spec => []LeftIsListed
<1>1. SignOutInv => LeftIsListed
  BY DEF SignOutInv, Dues, LeftIsListed
<1>2. QED BY <1>1, SignOutInvariant, PTL

\* No step deletes what is a session's or kept for one.
THEOREM SignOutSparesOwned ==
  ASSUME "saveFails" \notin Faults
  PROVE  Spec => OnlyLeftGoes
<1> DEFINE Spares == \A e \in Entries : data[e] = "owned" => data'[e] # "none"
<1>1. SignOutInv /\ [Next]_vars => [Spares]_vars
  <2> SUFFICES ASSUME SignOutInv, [Next]_vars, NEW e \in Entries, data[e] = "owned"
               PROVE  data'[e] # "none"
    OBVIOUS
  <2>0. TypeOK /\ Lists
    BY DEF SignOutInv
  <2>1. CASE UNCHANGED data
    BY <2>1
  <2>2. ASSUME NEW d \in Entries, Deletes(d)
        PROVE  data'[e] # "none"
    <3>1. d # e
      BY <2>0, <2>2 DEF Deletes, Tries, IsNext, Lists
    <3>2. QED BY <2>0, <2>2, <3>1 DEF Deletes, TypeOK
  <2>3. CASE Listed
    BY <2>3 DEF Listed
  <2>4. CASE VaultClears \/ Revoked
    BY <2>4 DEF VaultClears, Revoked, Leaves
  <2>5. CASE VaultSet \/ Writes
    BY <2>5 DEF VaultSet, Writes
  <2>6. CASE Restart
    <3>1. outcome' = "deleted" => vault = None
      BY <2>6 DEF Restart, Wipes
    <3>2. outcome' = "deleted" => e # Profile
      BY <2>0, <3>1, EntryFacts DEF Lists
    <3>3. QED BY <2>0, <2>6, <3>2 DEF Restart, TypeOK
  <2>7. QED
    BY <2>1, <2>2, <2>3, <2>4, <2>5, <2>6
    DEF Next, Operations, Sessions, Resume, Begin, SignedIn, Ends, StopHost, Fails,
        SessionClear, SessionSet, VaultNotSet, vars
<1>2. QED BY <1>1, SignOutInvariant, PTL DEF Spec, OnlyLeftGoes
=============================================================================
