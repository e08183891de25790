---------------------------- MODULE MirProgram ----------------------------
(***************************************************************************)
(* The analysed program as the translation sees it.                        *)
(*                                                                         *)
(* A program is the monomorphic call graph and, for every function, its    *)
(* MIR body.  Of a body only what the translation reads is kept: the       *)
(* terminators, moves of handles and guards, and accesses to unsafe        *)
(* variables.  What the collectors and the alias analysis found is part of *)
(* the program: which locals are guards of which lock, which function a    *)
(* closure or a handle stands for, which locals are the ends of a channel. *)
(* The program is the result of earlier passes and never changes.          *)
(***************************************************************************)
EXTENDS Naturals, Sequences, FiniteSets

CONSTANT Programs     \* the programs analysed

VARIABLE prog         \* the one being analysed:
(*  nodes      functions in the order of the call graph, one per instance  *)
(*  main       the entry function                                          *)
(*  ignored    functions should_ignore_function() holds for                *)
(*  serde      functions visit_body() skips                                *)
(*  coroutine  functions that are coroutines                               *)
(*  scope      function -> the part of its transitions' names that tells   *)
(*             sites apart: all of it, or what precedes a _read_ or _write_*)
(*  body       function -> sequence of blocks; block n is body[f][n + 1]   *)
(*  guard      guard-typed local -> [lock, kind]                           *)
(*  result     other local that carries a guard -> [lock, kind]            *)
(*  condvar    local -> condvar places it may alias                        *)
(*  channel    local -> channel place it may alias                         *)
(*  atomic     local -> atomic places it may alias                         *)
(*  order      local -> memory ordering recorded for its operations        *)
(*  segments   the mode translates memory orderings                        *)
(*  closure    local -> function of its closure type                       *)
(*  thread     handle local -> function of the thread it really joins      *)
(*  mayJoin    handle local -> spawned functions it may alias              *)

(* A block: [cleanup, empty, pending, moves, accesses, term]                *)
(*   empty     an empty unreachable block                                   *)
(*   pending   its statements leave Poll::Pending in the return place       *)
(*   moves     sequence of <<dst, src>>                                     *)
(*   accesses  set of <<group, isWrite>>                                    *)
(* A terminator: [op, api, args, dest, callee, targets, diverges]           *)
(*   api       what the name of the callee matches                          *)
(*   targets   no target of a call is <<>>                                  *)
(*   diverges  a call with no target whose unwind action is Continue        *)

Block(f, b) == prog.body[f][b + 1]
Term(f, b) == Block(f, b).term
BlocksOf(f) == 0 .. Len(prog.body[f]) - 1

(* Mutant: every unreachable block is excluded, not only the empty ones. *)
ExcludedMut(f, b) == Block(f, b).cleanup \/ Term(f, b).op = "terminal"

(* Blocks that get no place and are not visited. *)
Excluded(f, b) == Block(f, b).cleanup \/ Block(f, b).empty

NodeFuncs == {prog.nodes[i] : i \in DOMAIN prog.nodes}

IsGuard(x) == x \in DOMAIN prog.guard

(* Atomic places a load or store through the local has transitions for.     *)
AtomicsOf(x) ==
  IF x \in DOMAIN prog.atomic /\ x \in DOMAIN prog.order THEN prog.atomic[x] ELSE {}

RwLockCapacity == 10
ChannelCapacity == 100

Locks == {prog.guard[x].lock : x \in DOMAIN prog.guard}

LockCapacity(l) ==
  IF \E x \in DOMAIN prog.guard : prog.guard[x].lock = l /\ prog.guard[x].kind = "mutex"
    THEN 1 ELSE RwLockCapacity

(* A write guard takes every token of its lock. *)
Weight(kind) == IF kind = "write" THEN RwLockCapacity ELSE 1

(* Functions whose closure is argument number i of the call. *)
ClosureAt(t, i) ==
  IF i \in DOMAIN t.args /\ t.args[i] \in DOMAIN prog.closure
    THEN {prog.closure[t.args[i]]} ELSE {}

ClosureArgs(t) == UNION {ClosureAt(t, i) : i \in DOMAIN t.args}

Least(S) == CHOOSE i \in S : \A j \in S : i =< j

(* find_suspend_continuation: the first other target of the poll switch.    *)
Others(f, b, s) ==
  LET ts == Term(f, s).targets
  IN  {i \in DOMAIN ts : ts[i] # b /\ ~Block(f, ts[i]).cleanup}

Continuation(f, b) ==
  LET polls == {s \in BlocksOf(f) : /\ Term(f, s).op = "switch"
                                    /\ b \in {Term(f, s).targets[i] : i \in DOMAIN Term(f, s).targets}
                                    /\ Others(f, b, s) # {}}
  IN  {Term(f, s).targets[Least(Others(f, b, s))] :
         s \in {r \in polls : \A q \in polls : r =< q}}
=============================================================================
