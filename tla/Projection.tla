--------------------------- MODULE Projection ---------------------------
(***************************************************************************)
(* Projection of abstract locations, LocArena::project (memory/pta/loc.rs). *)
(* A location has an allocation base and a path within it.                 *)
(***************************************************************************)
EXTENDS Naturals, Sequences

CONSTANT DepthCap     \* FIELD_DEPTH_CAP, 8 in the code

(* project(): append `suffix'; past the cap, `loc' unprojected. *)
ProjectLoc(loc, suffix) ==
  IF suffix = <<>> \/ Len(loc.path) + Len(suffix) > DepthCap
    THEN loc
    ELSE [loc EXCEPT !.path = @ \o suffix]
=============================================================================
