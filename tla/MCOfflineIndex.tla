--------------------------- MODULE MCOfflineIndex ---------------------------
EXTENDS OfflineIndex
=============================================================================
