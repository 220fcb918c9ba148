---------------------------- MODULE NotesOutbox ----------------------------
(***************************************************************************)
(* packages/filen-shared/src/notesOutbox.ts and notesOutboxReconcile.ts:   *)
(* the pure rules of the notes outbox.                                     *)
(*                                                                         *)
(* The code keeps a list of entries per note.  Every rule leaves it with   *)
(* one entry at most (a keystroke's entry carries the largest timestamp    *)
(* and supersedes the others), so a note's list is one entry or None here. *)
(* An entry's base is a content and not its hash: hashing is taken to be   *)
(* injective.  `edit` is the keystroke the entry came from, which the code *)
(* does not keep; only the properties look at it.                          *)
(***************************************************************************)
EXTENDS Naturals

CONSTANTS Notes,    \* the account's notes
          Texts,    \* the contents a note can have
          None,     \* no entry
          NoBase,   \* an entry's base when it has no baseContentHash
          Unknown   \* a content that was not read: no answer, or undecryptable

Entry == [at : Nat, edit : Nat \ {0}, text : Texts, base : Texts \cup {NoBase}]

Outbox == [Notes -> Entry \cup {None}]

\* An absent entry is neither an entry nor a content, and no base no content.
ASSUME NotesOutboxAssumption == None \notin Entry \cup Texts /\ NoBase \notin Texts

EmptyOutbox == [n \in Notes |-> None]

\* The later of two timestamps.
Later(a, b) == IF a >= b THEN a ELSE b

\* A slip: the keystroke's timestamp is the clock's.
BuildEntryByClock(previous, edit, text, now, sessionBase) ==
  [at |-> now, edit |-> edit, text |-> text,
   base |-> IF previous = None THEN sessionBase ELSE previous.base]

\* buildInflightEntries(): monotonic per note, and an ongoing session keeps
\* its base.
BuildEntry(previous, edit, text, now, sessionBase) ==
  IF previous = None
    THEN [at |-> now, edit |-> edit, text |-> text, base |-> sessionBase]
    ELSE [at |-> Later(now, previous.at + 1), edit |-> edit, text |-> text,
          base |-> previous.base]

\* mergeInflight(): per note the newest of the live and the persisted entry.
MergeInflight(current, fromDisk) ==
  [n \in Notes |->
     IF fromDisk[n] = None THEN current[n]
     ELSE IF current[n] = None THEN fromDisk[n]
     ELSE IF current[n].at >= fromDisk[n].at THEN current[n] ELSE fromDisk[n]]

\* A slip: what was typed after the push keeps its session's base.
PruneOnly(entry, syncedUpTo, pushed) ==
  IF entry = None THEN None
  ELSE IF entry.at <= syncedUpTo THEN None ELSE entry

\* A slip: a push empties the note's queue.
PruneAll(entry, syncedUpTo, pushed) == None

\* A slip: the pushed entry itself is not pruned.
PruneOlder(entry, syncedUpTo, pushed) ==
  IF entry = None THEN None
  ELSE IF entry.at < syncedUpTo THEN None ELSE [entry EXCEPT !.base = pushed]

\* pruneAndRebaseNoteOutboxAfterPush(): what was typed after the push stays,
\* based on what was pushed.
PruneAndRebase(entry, syncedUpTo, pushed) ==
  IF entry = None THEN None
  ELSE IF entry.at <= syncedUpTo THEN None ELSE [entry EXCEPT !.base = pushed]

\* reconcileNoteOutboxAgainstCloud(): of the notes the disk had, those gone
\* from the cloud and those whose text the cloud has are dropped.
ReconcileOutbox(current, fromDiskKeys, cloudNotes, cloudContent) ==
  [n \in Notes |->
     IF /\ n \in fromDiskKeys
        /\ current[n] # None
        /\ n \notin cloudNotes \/ current[n].text = cloudContent[n]
     THEN None ELSE current[n]]
=============================================================================
