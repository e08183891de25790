-------------------------- MODULE DataRaceDetector --------------------------
(***************************************************************************)
(* What detect/datarace.rs reports of one state of the state graph: the    *)
(* variables that two transitions enabled there access from different      *)
(* sites, one of them writing.                                             *)
(*                                                                         *)
(* A site is told by the scope and the block of the access, and the scope  *)
(* is cut out of the name of the transition (prog.scope).  Spans and types *)
(* only rank the accesses, so that one pair per variable is shown; they    *)
(* decide nothing about which variables are.                               *)
(***************************************************************************)
EXTENDS MirProgram, PetriNet

Site(id) == <<prog.scope[id[1]], id[2]>>

(* collect_state_accesses: <<variable, isWrite>> of each edge, with its site. *)
StateAccesses ==
  UNION {{[var |-> op[1], write |-> op[2], site |-> Site(id)] : op \in trans[id].ops} :
           id \in {t \in DOMAIN trans : trans[t].type = "UnsafeAccess" /\ IsEnabled(t)}}

AccessesTo(v) == {a \in StateAccesses : a.var = v}

(* Mutant: two accesses race only if both write. *)
CandidatePairsMut(v) ==
  {pair \in AccessesTo(v) \X AccessesTo(v) :
     pair[1].site # pair[2].site /\ pair[1].write /\ pair[2].write}

(* candidate_pairs over the pairs of sites. *)
CandidatePairs(v) ==
  {pair \in AccessesTo(v) \X AccessesTo(v) :
     pair[1].site # pair[2].site /\ (pair[1].write \/ pair[2].write)}

(* check_race_in_state *)
RaceReported(v) == CandidatePairs(v) # {}
=============================================================================
