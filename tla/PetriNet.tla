----------------------------- MODULE PetriNet -----------------------------
(***************************************************************************)
(* Place/transition nets with weighted arcs and capacities: the part of    *)
(* the unipn crate that the translation builds on and the detectors read.  *)
(* A transition may fire if its input places hold the tokens it takes and  *)
(* none of its output places would exceed its capacity afterwards (the     *)
(* condition detect/deadlock.rs evaluates to explain a stuck marking).     *)
(***************************************************************************)
EXTENDS Naturals, Bags

VARIABLES
  capacity,     \* place -> capacity
  marking,      \* place -> tokens
  trans         \* transition -> [in, out, type]; arcs are bags of places

Place == DOMAIN capacity

(* The weight of the arc between a transition and a place. *)
Arc(p, arcs) == IF p \in DOMAIN arcs THEN arcs[p] ELSE 0

After(id, p) ==
  (marking[p] - Arc(p, trans[id].in)) + Arc(p, trans[id].out)

IsEnabled(id) ==
  /\ \A p \in DOMAIN trans[id].in : Arc(p, trans[id].in) =< marking[p]
  /\ \A p \in DOMAIN trans[id].out : After(id, p) =< capacity[p]

Fire(id) ==
  /\ id \in DOMAIN trans
  /\ IsEnabled(id)
  /\ marking' = [p \in Place |-> After(id, p)]
  /\ UNCHANGED <<capacity, trans>>
=============================================================================
