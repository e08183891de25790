---------------------------- MODULE LocArena ----------------------------
(***************************************************************************)
(* Abstract memory locations of the pointer analysis (memory/pta/loc.rs).  *)
(*                                                                         *)
(* The code interns an access path to a FieldPath id and a location to a   *)
(* LocId.  Interning is injective, so here a path is the sequence of its   *)
(* projection elements and a location is its allocation base (a variable   *)
(* of a function under a context, an allocation site, a global) and path.  *)
(***************************************************************************)
EXTENDS Projection

CONSTANTS
  Base,        \* what a path starts from: Var, Heap or Global without its path
  ProjElem,    \* projection elements: fields, the merged index, deref
  MaxPathLen   \* longest path the builder interns; extend_path has no cap

ASSUME ArenaAssumption ==
  /\ DepthCap \in Nat
  /\ MaxPathLen \in Nat
  /\ DepthCap =< MaxPathLen

FieldPath == UNION {[1 .. n -> ProjElem] : n \in 0 .. MaxPathLen}

AbstractLoc == [base : Base, path : FieldPath]
=============================================================================
