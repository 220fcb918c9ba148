---------------------------- MODULE MCSemaphore ----------------------------
(***************************************************************************)
(* The instance TLC checks of Semaphore: five callers and two permits, so  *)
(* that the array is compacted while callers still wait in it.             *)
(***************************************************************************)
EXTENDS Semaphore
=============================================================================
