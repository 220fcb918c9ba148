---------------------------- MODULE MCSupervisor ----------------------------
(* A small instance of the desktop's native host supervisor. *)
EXTENDS Supervisor
=============================================================================
