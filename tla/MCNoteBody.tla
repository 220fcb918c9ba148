---------------------------- MODULE MCNoteBody ----------------------------
EXTENDS NoteBody
===========================================================================
