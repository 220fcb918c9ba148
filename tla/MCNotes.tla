------------------------------ MODULE MCNotes ------------------------------
(* Small instances of the notes outbox. *)
EXTENDS NotesEditor, TLC

Empty == [n \in Notes |-> None]
Symmetry == Permutations(Texts) \cup Permutations(Notes)
=============================================================================
