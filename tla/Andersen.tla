---------------------------- MODULE Andersen ----------------------------
(***************************************************************************)
(* What an inclusion-based (Andersen) points-to analysis promises: the     *)
(* relation only ever grows by facts some constraint demands, and it is    *)
(* returned only when no constraint demands anything more.                 *)
(* memory/pta/solver.rs is shown to implement this (module PtaSolver).     *)
(***************************************************************************)
EXTENDS Constraints

VARIABLES
  cs,     \* the constraints being solved; never changes
  rel,    \* the points-to relation found so far
  done    \* the relation has been returned

absVars == <<cs, rel, done>>

AbsInit ==
  /\ cs \in Inputs
  /\ rel = [n \in Loc |-> {}]
  /\ done = FALSE

(* Some demanded facts about one location are added. *)
Grow ==
  /\ ~done
  /\ \E n \in Loc : \E new \in SUBSET {o \in Loc : Demanded(cs, rel, n, o)} :
       rel' = [rel EXCEPT ![n] = @ \cup new]
  /\ UNCHANGED <<cs, done>>

Finish ==
  /\ ~done
  /\ Closed(cs, rel)
  /\ done' = TRUE
  /\ UNCHANGED <<cs, rel>>

AbsNext == Grow \/ Finish

AbsSpec == AbsInit /\ [][AbsNext]_absVars
=============================================================================
