----------------------------- MODULE CallSites -----------------------------
(***************************************************************************)
(* CallSiteCollector (translate/callgraph.rs): the call sites of one body, *)
(* in the order in which they are found.                                   *)
(*                                                                         *)
(* An instance is <<function, arguments>>, the arguments being those of    *)
(* its generics.  A body is known by its call terminators and the locals   *)
(* of a closure type:                                                      *)
(*   terminator  [callee, matches, polls, args, dest]                      *)
(*     callee    the instance called, NoInstance if that is not known (a   *)
(*               function pointer, or a call that resolves to nothing)     *)
(*     matches   which attributes and path patterns the callee answers to  *)
(*     polls     Future::poll of a join handle                             *)
(*     args      [ty, fn]: the kind of type of each operand, and of which  *)
(*               function it is the type                                   *)
(*   closure     [fn, arguments, local, kind]                              *)
(***************************************************************************)
EXTENDS Naturals, Sequences, SequencesExt

CONSTANTS NoInstance, NoDest

Fn(i) == i[1]

(* classify_thread_control: the first of these that the callee answers to;  *)
(* a scoped spawn also matches the pattern of thread::spawn.                *)
ControlPatterns ==
  << <<"pn_spawn", "spawn">>, <<"pn_join", "join">>,
     <<"pn_scope_spawn", "scope_spawn">>, <<"pn_scope_join", "scope_join">>,
     <<"pn_rayon_join", "rayon_join">>, <<"rayon", "rayon_join">>,
     <<"scope_spawn", "scope_spawn">>, <<"scope_join", "scope_join">>,
     <<"async_spawn", "async_spawn">>, <<"async_join", "async_join">>,
     <<"thread_spawn", "spawn">>, <<"thread_join", "join">> >>

ClassifyThreadControl(matches) ==
  LET found == SelectSeq(ControlPatterns, LAMBDA p : p[1] \in matches)
  IN  IF found = <<>> THEN "none" ELSE Head(found)[2]

(* Patterns first, then the type that is awaited. *)
ControlKind(t) ==
  LET kind == ClassifyThreadControl(t.matches)
  IN  IF kind = "none" /\ t.polls THEN "async_join" ELSE kind

SpawnKinds == {"spawn", "scope_spawn", "async_spawn"}
JoinKinds  == {"join", "scope_join", "async_join"}

(* operand_closure_instance: closures and function items, resolved with the *)
(* generic arguments of the callee they are handed to; a coroutine is none. *)
OperandClosures(t, args) ==
  LET found == SelectSeq(args, LAMBDA a : a.ty \in {"closure", "fn"})
  IN  [k \in DOMAIN found |-> <<found[k].fn, t.callee[2]>>]

Site(callee, kind, dest, at) == [callee |-> callee, kind |-> kind, dest |-> dest, at |-> at]

DirectSite(t, at) ==
  IF t.callee = NoInstance THEN <<>> ELSE <<Site(t.callee, "direct", NoDest, at)>>

FirstOf(args, n) == IF Len(args) =< n THEN args ELSE SubSeq(args, 1, n)

(* Mutant: only the first argument is looked at for the closure. *)
SpawnSitesMut(t, at) ==
  LET found == OperandClosures(t, FirstOf(t.args, 1))
  IN  IF found = <<>> THEN DirectSite(t, at)
      ELSE <<Site(Head(found), ControlKind(t), t.dest, at)>>

(* handle_spawn_call: the first closure among the first two arguments, a    *)
(* scope being the first of a scoped spawn's; else an ordinary call.        *)
SpawnSites(t, at) ==
  LET found == OperandClosures(t, FirstOf(t.args, 2))
  IN  IF found = <<>> THEN DirectSite(t, at)
      ELSE <<Site(Head(found), ControlKind(t), t.dest, at)>>

(* handle_rayon_join: every closure. *)
RayonSites(t, at) ==
  LET found == OperandClosures(t, t.args)
  IN  IF found = <<>> THEN DirectSite(t, at)
      ELSE [k \in DOMAIN found |-> Site(found[k], "rayon_join", NoDest, at)]

JoinSites(t, at) ==
  IF t.callee = NoInstance THEN <<>>
  ELSE <<Site(t.callee, ControlKind(t), t.dest, at)>>

(* visit_terminator *)
TerminatorSites(t, at) ==
  CASE ControlKind(t) \in SpawnKinds   -> SpawnSites(t, at)
    [] ControlKind(t) = "rayon_join"   -> RayonSites(t, at)
    [] ControlKind(t) \in JoinKinds    -> JoinSites(t, at)
    [] OTHER                           -> DirectSite(t, at)

(* visit_local_decl: closures the body makes, wherever they go. *)
ClosureSites(closures) ==
  LET made == SelectSeq(closures, LAMBDA c : c.kind = "var")
  IN  [k \in DOMAIN made |->
         Site(<<made[k].fn, made[k].arguments>>, "closure_def", NoDest, made[k].local)]

(* visit_body: the blocks come before the locals. *)
SitesOfBody(calls, closures) ==
  FlattenSeq([k \in DOMAIN calls |-> TerminatorSites(calls[k], k)]) \o ClosureSites(closures)
=============================================================================
