---------------------------- MODULE ClearBarrier ----------------------------
(***************************************************************************)
(* packages/filen-mobile/src/lib/clearBarrier.ts, class ClearBarrier: many *)
(* callers are inside a disk cache between enter() and leave(); a clear    *)
(* goes through runExclusive(), which keeps new ones out, waits for those  *)
(* inside and runs alone.                                                  *)
(*                                                                         *)
(* exclusiveActive and exclusivePromise are set and unset together: they   *)
(* are `exclusive`.  All who await that promise wake when it resolves, and *)
(* each looks again in a callback of its own, in any order here.  What     *)
(* matters of the promise `drained` is whether it has resolved.            *)
(***************************************************************************)
EXTENDS Naturals, FiniteSets

CONSTANTS Users,     \* callers of enter() and leave()
          Clearers   \* callers of runExclusive()

ASSUME ClearBarrierAssumption == IsFiniteSet(Users) /\ Users \cap Clearers = {}

VARIABLES inflight,   \* how many are inside
          exclusive,  \* a clear is queued behind those inside, or runs
          drained,    \* the promise `drained` has resolved
          at          \* where each caller is

barrierVars == <<inflight, exclusive, drained, at>>

BarrierCallers == Users \cup Clearers

Places == {"away", "blocked", "woken", "inside", "draining", "clearing"}

BarrierInit ==
  /\ inflight = 0
  /\ exclusive = FALSE
  /\ drained = TRUE
  /\ at = [c \in BarrierCallers |-> "away"]

Moves(c, place) == at' = [at EXCEPT ![c] = place]

\* enter(), or its loop after a wake-up, with no clear about: the first one in
\* makes a new promise.
Enter(c) ==
  /\ at[c] \in {"away", "woken"}
  /\ ~exclusive
  /\ drained' = (drained /\ inflight # 0)
  /\ inflight' = inflight + 1
  /\ Moves(c, "inside")
  /\ UNCHANGED exclusive

\* enter() or runExclusive(), or their loop, behind a clear.
Block(c) ==
  /\ at[c] \in {"away", "woken"}
  /\ exclusive
  /\ Moves(c, "blocked")
  /\ UNCHANGED <<inflight, exclusive, drained>>

\* A slip: the last one out leaves the promise unresolved.
LeaveSilently(c) ==
  /\ at[c] = "inside"
  /\ inflight' = inflight - 1
  /\ Moves(c, "away")
  /\ UNCHANGED <<exclusive, drained>>

\* leave(): the last one out resolves `drained`.
Leave(c) ==
  /\ at[c] = "inside"
  /\ inflight > 0
  /\ inflight' = inflight - 1
  /\ drained' = (drained \/ inflight' = 0)
  /\ Moves(c, "away")
  /\ UNCHANGED exclusive

\* A slip: the clear claims the barrier once those inside are out.
RunExclusiveLate(c) ==
  /\ at[c] \in {"away", "woken"}
  /\ ~exclusive
  /\ exclusive' = (inflight = 0)
  /\ Moves(c, IF inflight > 0 THEN "draining" ELSE "clearing")
  /\ UNCHANGED <<inflight, drained>>

\* runExclusive(), or its loop, with no other clear about: new callers are
\* kept out from here on.
RunExclusive(c) ==
  /\ at[c] \in {"away", "woken"}
  /\ ~exclusive
  /\ exclusive' = TRUE
  /\ Moves(c, IF inflight > 0 THEN "draining" ELSE "clearing")
  /\ UNCHANGED <<inflight, drained>>

\* `await this.drained` resolves: fn() runs.
Drained(c) ==
  /\ at[c] = "draining"
  /\ drained
  /\ Moves(c, "clearing")
  /\ UNCHANGED <<inflight, exclusive, drained>>

\* fn() returned or threw: all who wait wake.
EndExclusive(c) ==
  /\ at[c] = "clearing"
  /\ exclusive' = FALSE
  /\ at' = [d \in BarrierCallers |-> IF d = c THEN "away"
                                     ELSE IF at[d] = "blocked" THEN "woken" ELSE at[d]]
  /\ UNCHANGED <<inflight, drained>>

UserNext(c) == Enter(c) \/ Block(c) \/ Leave(c)
ClearerNext(c) == RunExclusive(c) \/ Block(c) \/ Drained(c) \/ EndExclusive(c)

BarrierNext == (\E c \in Users : UserNext(c)) \/ (\E c \in Clearers : ClearerNext(c))

\* Callbacks run, those inside leave and a clear returns; nothing makes a
\* caller come; clears are not asked for for ever.
BarrierFairness ==
  /\ \A c \in Users : /\ WF_barrierVars(Leave(c))
                      /\ WF_barrierVars(at[c] = "woken" /\ (Enter(c) \/ Block(c)))
  /\ \A c \in Clearers : /\ WF_barrierVars(Drained(c))
                         /\ WF_barrierVars(EndExclusive(c))
                         /\ WF_barrierVars(at[c] = "woken" /\ (RunExclusive(c) \/ Block(c)))
  /\ <>[][\A c \in Clearers : at[c] # "away" \/ at'[c] = "away"]_barrierVars

BarrierSpec == BarrierInit /\ [][BarrierNext]_barrierVars /\ BarrierFairness
-----------------------------------------------------------------------------
Inside == {c \in Users : at[c] = "inside"}
Claiming == {c \in Clearers : at[c] \in {"draining", "clearing"}}

\* Types; only users are inside and only clearers drain and clear.
BarrierTypeOK ==
  /\ inflight \in Nat
  /\ exclusive \in BOOLEAN
  /\ drained \in BOOLEAN
  /\ at \in [BarrierCallers -> Places]
  /\ \A c \in Users : at[c] \notin {"draining", "clearing"}
  /\ \A c \in Clearers : at[c] # "inside"

\* While a clear deletes and recreates the directories, no reader or writer is
\* inside them and no other clear runs.
ClearIsAlone ==
  \A c \in Clearers : at[c] = "clearing" => Inside = {} /\ Claiming = {c}

\* No lost wake-up: callers wait only while a clear that will wake them is
\* about, and a clear waits only while someone inside is yet to resolve it.
NobodyForgotten ==
  /\ (\E c \in BarrierCallers : at[c] = "blocked") => Claiming # {}
  /\ \A c \in Clearers : at[c] = "draining" => drained \/ Inside # {}
=============================================================================
