----------------------------- MODULE MCSignOut -----------------------------
(***************************************************************************)
(* Sign-outs and sign-ins of two users, each of whose deletions may fail,  *)
(* with the process ending at any moment.  Nothing is counted.             *)
(***************************************************************************)
EXTENDS SignOut, TLC

Symmetry == Permutations(Users)
=============================================================================
