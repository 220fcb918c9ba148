------------------------------ MODULE SignOut ------------------------------
(***************************************************************************)
(* packages/filen-desktop/src/main/signOut.ts with the handlers of         *)
(* index.ts around it: a sign-out deletes what the user leaves on this     *)
(* computer, and what it cannot delete is listed in a marker file for the  *)
(* next start.  Its operations run one at a time (serial.ts); a sign-in, a *)
(* second sign-out, a revocation or the end of the process may come        *)
(* between any two of their steps.                                         *)
(*                                                                         *)
(* The marker is read and written whole (atomicFile.ts) and {} stands for  *)
(* no marker, so `stored`, which only spares a removal, is left out, as    *)
(* are markers that cannot be read.  The vault's removal succeeds, and a   *)
(* revocation is of the session the vault holds (Supervisor is about the   *)
(* others).  A session writes all it has at once; the stash is the old     *)
(* client's, and nothing here writes it.                                   *)
(***************************************************************************)
EXTENDS Naturals, Sequences, SequencesExt

CONSTANTS Users,
          None,
          Faults    \* what may go wrong besides deletions: "saveFails"

ASSUME SignOutAssumption == None \notin Users

\* What a sign-out deletes: per user, and whoever signed out.
Sync(u) == <<u, "sync">>
Mounts(u) == <<u, "mounts">>
Parts(u) == {Sync(u), Mounts(u)}
Stash == <<None, "stash">>
Lock == <<None, "lock">>
Logs == <<None, "logs">>
Profile == <<None, "profile">>
GLOBALS == {Stash, Lock, Logs, Profile}
Entries == (UNION {Parts(u) : u \in Users}) \cup GLOBALS

\* What a session of u has for its own.
Own(u) == Parts(u) \cup {Lock, Logs, Profile}

VARIABLES
  vault,    \* the user whose session is stored
  data,     \* what is on disk: nothing, what a session has, what one left
  marker,   \* the entries the marker file lists
  pending,  \* the same in memory
  queue,    \* the serial queue, the running operation first
  step,     \* how far that one is: "none" (not begun), "listing", "deleting"
  todo,     \* what it is still to delete
  outcome,  \* profile(): what wipeProfileBeforeReady() did
  leaving,  \* a sessionClear under way and its user
  entering, \* the user of a sessionSet under way
  due       \* ghost: what a sign-out has set out to delete and is left

memory == <<pending, queue, step, todo, outcome, leaving, entering>>
vars == <<vault, data, marker, memory, due>>

Stays == [at |-> "idle", user |-> None]
Task(kind, u) == [kind |-> kind, user |-> u]

TypeOK ==
  /\ vault \in Users \cup {None}
  /\ data \in [Entries -> {"none", "owned", "left"}]
  /\ marker \in SUBSET Entries
  /\ pending \in SUBSET Entries
  /\ queue \in Seq([kind : {"resume", "begin", "signOut", "signedIn"},
                    user : Users \cup {None}])
  /\ step \in {"none", "listing", "deleting"}
  /\ todo \in SUBSET Entries
  /\ outcome \in {"not-due", "deleted", "signed-in", "failed"}
  /\ leaving \in [at : {"idle", "begin", "wipe"}, user : Users \cup {None}]
  /\ entering \in Users \cup {None}
  /\ due \in SUBSET Entries

\* A first start with this version: only a stored session has data of its own.
Init ==
  /\ vault \in Users \cup {None}
  /\ \E owned \in IF vault = None THEN {{}} ELSE {Own(vault), Own(vault) \cup {Stash}} :
       data = [e \in Entries |-> IF e \in owned THEN "owned" ELSE "none"]
  /\ marker = {}
  /\ pending = {}
  /\ queue = <<Task("resume", None)>>
  /\ step = "none"
  /\ todo = {}
  /\ outcome = "not-due"
  /\ leaving = Stays
  /\ entering = None
  /\ due = {}
-----------------------------------------------------------------------------
\* The operations of the queue.

Running(kind) == queue # <<>> /\ Head(queue) = Task(kind, Head(queue).user)
Begins(kind) == Running(kind) /\ step = "none"

\* The running operation is over; a sessionClear waits for its own, the last.
Finish ==
  /\ queue' = Tail(queue)
  /\ step' = "none"
  /\ todo' = {}
  /\ leaving' = IF queue' = <<>> /\ leaving.at = "wipe" THEN Stays ELSE leaving

\* resume() with recordProfile(), whose place among the deletions nobody sees.
Resume ==
  /\ Begins("resume")
  /\ IF marker = {}
       THEN Finish /\ pending' = pending
       ELSE /\ pending' = IF outcome \in {"deleted", "signed-in"}
                            THEN marker \ {Profile} ELSE marker
            /\ step' = "deleting"
            /\ todo' = marker \ {Profile}
            /\ UNCHANGED <<queue, leaving>>
  /\ UNCHANGED <<vault, data, marker, outcome, entering, due>>

\* begin()
Begin ==
  /\ Begins("begin")
  /\ IF Profile \in pending
       THEN Finish /\ pending' = pending
       ELSE /\ pending' = pending \cup {Profile}
            /\ step' = "deleting"
            /\ UNCHANGED <<queue, todo, leaving>>
  /\ UNCHANGED <<vault, data, marker, outcome, entering, due>>

\* What run() lists for the user it knows.
PartsToGo(u, cleared) ==
  IF u = None THEN {} ELSE IF cleared THEN Parts(u) ELSE {Sync(u)}

\* A slip: a mounts directory listed before stays listed.
ListAlso(u, parts) == pending \cup parts \cup GLOBALS

\* "Replaces anything listed for the user before".
List(u, parts) ==
  (IF u = None THEN pending ELSE pending \ Parts(u)) \cup parts \cup GLOBALS

\* mounts(u) says whether no upload is left in the drive's cache.  No host has
\* run for u since a sign-out kept the directory, so it is kept again.
MayClear(u) == u # None /\ data[Mounts(u)] # "owned"

\* run() up to its first save: rclone and the host have stopped.
StopHost(cleared) ==
  /\ Begins("signOut")
  /\ cleared => MayClear(Head(queue).user)
  /\ LET u == Head(queue).user
         parts == PartsToGo(u, cleared)
     IN /\ pending' = List(u, parts)
        /\ todo' = parts \cup {Stash, Lock, Logs}
  /\ step' = "listing"
  /\ UNCHANGED <<vault, data, marker, queue, outcome, leaving, entering, due>>

\* save(): a failure is only logged.
Save == marker' = pending \/ ("saveFails" \in Faults /\ marker' = marker)

\* The first save.  From here on a directory that is kept is the user's again.
Listed ==
  /\ step = "listing"
  /\ Save
  /\ data' = [e \in Entries |->
                IF e \in Parts(Head(queue).user) \ todo /\ data[e] = "left"
                  THEN "owned" ELSE data[e]]
  /\ due' = {e \in due : data'[e] = "left"}
  /\ step' = "deleting"
  /\ UNCHANGED <<vault, pending, queue, todo, outcome, leaving, entering>>

\* A slip: what is the new session's stays listed.
UnlistedNot(u) == pending

\* What signedIn() leaves listed: neither the user's parts nor, the stash
\* excepted, what is nobody's.
Unlisted(u) == pending \ Own(u)

\* signedIn(); what it cannot delete it gives to the new session.
SignedIn ==
  /\ Begins("signedIn")
  /\ LET u == Head(queue).user
     IN IF pending \cap (Parts(u) \cup GLOBALS) = {}
          THEN Finish /\ UNCHANGED <<pending, due>>
          ELSE /\ todo' = (pending \cap (Own(u) \cup {Stash})) \ {Profile}
               /\ pending' = Unlisted(u)
               /\ due' = due \ Own(u)
               /\ step' = "deleting"
               /\ UNCHANGED <<queue, leaving>>
  /\ UNCHANGED <<vault, data, marker, outcome, entering>>
-----------------------------------------------------------------------------
\* The deletions, in order: directories, stash, PIN record, logs.

Earlier(d, e) ==
  \/ d = Stash /\ e \in {Lock, Logs}
  \/ d = Lock /\ e = Logs
  \/ d \notin GLOBALS /\ e \in GLOBALS

IsNext(e) == e \in todo /\ \A d \in todo : ~Earlier(d, e)

\* A sign-out sets out to delete all it listed.
SetsOut ==
  due' = {e \in IF Running("signOut") THEN due \cup pending ELSE due : data'[e] = "left"}

Tries(e) ==
  /\ step = "deleting"
  /\ IsNext(e)
  /\ todo' = todo \ {e}
  /\ SetsOut
  /\ UNCHANGED <<vault, marker, queue, step, outcome, leaving, entering>>

\* removePart(), clear()
Deletes(e) ==
  /\ data' = [data EXCEPT ![e] = "none"]
  /\ Tries(e)
  /\ pending' = pending \ {e}

\* A slip: what was tried once is done.
NotDeletedForgets(e) == pending \ {e}

NotDeleted(e) == pending

\* They reject: the entry stays as it is listed.
Fails(e) ==
  /\ data' = data
  /\ Tries(e)
  /\ pending' = NotDeleted(e)

\* The save at the end of every operation.
Ends ==
  /\ step = "deleting"
  /\ todo = {}
  /\ Save
  /\ Finish
  /\ UNCHANGED <<vault, data, pending, outcome, entering, due>>
-----------------------------------------------------------------------------
\* The session comes and goes.

\* The window opens once resume() has settled.
Up == \A i \in 1..Len(queue) : queue[i].kind # "resume"

\* The session's data is left with it.
Leaves(u) ==
  /\ data' = [e \in Entries |->
                IF u # None /\ e \in Own(u) \cup {Stash} /\ data[e] = "owned"
                  THEN "left" ELSE data[e]]
  /\ vault' = None

\* sessionClear asks begin(), before the session leaves the vault.
SessionClear ==
  /\ Up
  /\ leaving.at = "idle"
  /\ entering = None
  /\ leaving' = [at |-> "begin", user |-> vault]
  /\ queue' = Append(queue, Task("begin", None))
  /\ UNCHANGED <<vault, data, marker, pending, step, todo, outcome, entering, due>>

\* begin() has settled: the vault is cleared, then the sign-out queued.
VaultClears ==
  /\ leaving.at = "begin"
  /\ \A i \in 1..Len(queue) : queue[i].kind # "begin"
  /\ Leaves(vault)
  /\ leaving' = [leaving EXCEPT !.at = "wipe"]
  /\ queue' = Append(queue, Task("signOut", leaving.user))
  /\ UNCHANGED <<marker, pending, step, todo, outcome, entering, due>>

\* A revoked session, or a PIN forgotten, goes without begin().
Revoked ==
  /\ Up
  /\ vault # None
  /\ Leaves(vault)
  /\ queue' = Append(queue, Task("signOut", vault))
  /\ UNCHANGED <<marker, pending, step, todo, outcome, leaving, entering, due>>

\* sessionSet asks signedIn() first.
SessionSet(u) ==
  /\ Up
  /\ vault = None
  /\ leaving.at = "idle"
  /\ entering = None
  /\ entering' = u
  /\ queue' = Append(queue, Task("signedIn", u))
  /\ UNCHANGED <<vault, data, marker, pending, step, todo, outcome, leaving, due>>

\* The session is stored, and with it what is there is the session's.
VaultSet ==
  /\ entering # None
  /\ queue = <<>>
  /\ vault' = entering
  /\ entering' = None
  /\ data' = [e \in Entries |->
                IF e \in Own(entering) /\ data[e] = "left" THEN "owned" ELSE data[e]]
  /\ UNCHANGED <<marker, pending, queue, step, todo, outcome, leaving, due>>

\* set() rejects.
VaultNotSet ==
  /\ entering # None
  /\ queue = <<>>
  /\ entering' = None
  /\ UNCHANGED <<vault, data, marker, pending, queue, step, todo, outcome, leaving, due>>

\* The sync engine, the drive, the app lock, the page and main write.
Writes ==
  /\ Up
  /\ vault # None
  /\ data' = [e \in Entries |-> IF e \in Own(vault) THEN "owned" ELSE data[e]]
  /\ UNCHANGED <<vault, marker, memory, due>>

\* A slip: the profile goes whoever is signed in.
WipesAlways == IF Profile \in marker THEN {"deleted", "failed"} ELSE {"not-due"}

\* wipeProfileBeforeReady()
Wipes ==
  IF Profile \notin marker THEN {"not-due"}
  ELSE IF vault # None THEN {"signed-in"} ELSE {"deleted", "failed"}

\* The process ends, wherever it is, and is started again.
Restart ==
  /\ outcome' \in Wipes
  /\ data' = IF outcome' = "deleted" THEN [data EXCEPT ![Profile] = "none"] ELSE data
  /\ due' = {e \in due : data'[e] = "left"}
  /\ pending' = {}
  /\ queue' = <<Task("resume", None)>>
  /\ step' = "none"
  /\ todo' = {}
  /\ leaving' = Stays
  /\ entering' = None
  /\ UNCHANGED <<vault, marker>>
-----------------------------------------------------------------------------
Operations ==
  \/ Resume \/ Begin \/ Listed \/ SignedIn \/ Ends
  \/ \E cleared \in BOOLEAN : StopHost(cleared)
  \/ \E e \in Entries : Deletes(e) \/ Fails(e)

Sessions ==
  \/ SessionClear \/ VaultClears \/ Revoked \/ VaultSet \/ VaultNotSet \/ Writes
  \/ Restart
  \/ \E u \in Users : SessionSet(u)

Next == Operations \/ Sessions
Spec == Init /\ [][Next]_vars
-----------------------------------------------------------------------------
\* What a sign-out has set out to delete is deleted, or listed on disk for the
\* next start, or a later session's: wherever the process ends, whatever cannot
\* be deleted, and whatever the second sign-out of two does ("Listed before
\* anything is deleted, so a sign-out cut short finishes on the next start",
\* signOut.ts:333).
LeftIsListed ==
  /\ TypeOK
  /\ due \subseteq marker

\* Nothing that is a session's, or kept for one, is ever deleted: neither by
\* what an earlier sign-out listed nor by the early wipe of the profile ("a
\* mounts directory kept now is never deleted later", "no later start deletes
\* what the new session writes", signOut.ts:323 and 73-74).
OnlyLeftGoes ==
  [][\A e \in Entries : data[e] = "owned" => data'[e] # "none"]_vars
=============================================================================
