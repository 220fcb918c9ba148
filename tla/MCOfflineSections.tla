------------------------- MODULE MCOfflineSections -------------------------
(* Store sections that contend for two items, a rebuild and clears. *)
EXTENDS OfflineSections
=============================================================================
