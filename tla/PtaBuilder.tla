--------------------------- MODULE PtaBuilder ---------------------------
(***************************************************************************)
(* From MIR bodies to inclusion constraints: memory/pta/builder.rs, the    *)
(* driver memory/pta/analysis.rs, contexts and models of library calls.    *)
(*                                                                         *)
(* Every reachable pair of a function and a k-limited call string is built *)
(* once, in the order of a queue, and its calls are bound or given to a    *)
(* model; then the environments of closures are bound; then the            *)
(* constraints are solved (module PtaSolver is that step in detail).       *)
(***************************************************************************)
EXTENDS Integers, Projection, SequencesExt

CONSTANTS
  Programs,            \* the programs analysed
  None,                \* the node of an operand that has none
  Index, Deref,        \* projection elements other than fields
  Variant,             \* the projection element of a downcast
  LeafPathsOf(_),      \* typeutil::leaf_field_paths
  MaxUpvarFields,      \* MAX_UPVAR_FIELDS, 32 in the code
  MaxTemps             \* bound of the counter of temporaries, never reached

ASSUME MaxUpvarFields \in Nat /\ MaxTemps \in Nat

(* A variable of a function under a context, an allocation site, a static. *)
AllBases ==
  ({"var"} \X Seq(STRING \X Nat) \X STRING \X Int)
    \cup ({"heap"} \X (STRING \X Nat \X Nat)) \cup ({"global"} \X STRING)

VARIABLES
  prog,            \* the program: k, roots, coroutines, and per function its
                   \*   number of args, types of locals and body
  phase,           \* "build", "solve" or "done"
  queue,           \* bodies to build: sequence of [f, ctx]
  built,           \* (instance, context) pairs already translated
  builtClosures,   \* built_closures: closure bodies awaiting their environment
  closureEnvs,     \* closure_envs: closure -> heaps of its environments
  closureEnvPaths, \* closure_env_paths: closure -> captured paths
  constraints,     \* the ConstraintSet
  tempCounter,     \* temporaries used by the binding of calls
  pts              \* the solution found so far, a set of <<location, pointee>>

envVars == <<builtClosures, closureEnvs, closureEnvPaths>>
buildVars == <<prog, phase, queue, built, envVars, constraints, tempCounter, pts>>

(* Instruction n of a body is a block of its own, so n names a call site.  *)
(*   [op |-> "ref", dst, src]             &src, &raw src                   *)
(*   [op |-> "use", dst, src]             src is an operand                *)
(*   [op |-> "value", dst, args]          cast, repeat, unary, binary,     *)
(*                                        discriminant, copy for deref     *)
(*   [op |-> "aggregate", dst, args]                                       *)
(*   [op |-> "closure", dst, args]        of the type of local dst         *)
(*   [op |-> "call", dst, args, api, callee]                               *)
(*   [op |-> "goto", to], [op |-> "return"]                                *)
(* A place is [local, proj]; an operand a place, a static or a constant.   *)

Slot(b, x, path) == [base |-> <<"var", b.ctx, b.f, x>>, path |-> path]
Heap(site) == [base |-> <<"heap", site>>, path |-> <<>>]
Global(s) == [base |-> <<"global", s>>, path |-> <<>>]

AddressOf(d, o) == [type |-> "AddressOf", dst |-> d, obj |-> o]
Copy(d, s) == [type |-> "Copy", dst |-> d, src |-> s]
Load(d, s) == [type |-> "Load", dst |-> d, src |-> s]
Store(d, s) == [type |-> "Store", dst |-> d, src |-> s]
Offset(d, s, p) == [type |-> "Offset", dst |-> d, src |-> s, suffix |-> p]

IsAdt(ty) == ty.kind \in {"struct", "enum"}
Leaves(ty) == ToSet(LeafPathsOf(ty)) \ {<<>>}
LeafPrefixes(ty) == UNION {Prefixes(p) : p \in Leaves(ty)} \ {<<>>}
TypeOf(b, x) == prog.ty[b.f][x]

(* Only pointers are read through a projection. *)
OperandType(b, op) ==
  IF op.kind = "place" /\ op.place.proj = <<>> THEN TypeOf(b, op.place.local)
                                               ELSE [kind |-> "raw"]
-----------------------------------------------------------------------------
(* The state of a ConstraintBuilder, as a record:                          *)
(*   cs      constraints added         fields  projections not yet applied *)
(*   temp    next_temp                 args    nodes of the call's operands *)
(*   at      the node last computed    calls   pending                     *)
(*   envs, paths   closure_envs, closure_env_paths                         *)

(* The first number of a temporary, clear of real locals. *)
TempBase == 1000000

Emit(w, cs) == [w EXCEPT !.cs = @ \cup cs]

Fresh(b, w) ==
  [w EXCEPT !.temp = @ + 1, !.at = Slot(b, TempBase + w.temp, <<>>)]

LoadAt(b, w) ==
  LET n == Fresh(b, w) IN Emit(n, {Load(n.at, w.at)})

ApplyPending(b, w) ==
  IF w.fields = <<>> THEN w
  ELSE LET n == Fresh(b, w)
       IN  [Emit(n, {Offset(n.at, w.at, w.fields)}) EXCEPT !.fields = <<>>]

(* Fields stay, everything else that is not a dereference is an index.     *)
ProjKinds(proj) == [i \in DOMAIN proj |-> IF proj[i] = Variant THEN Index ELSE proj[i]]

(* The node whose pointees are the locations `place' denotes.              *)
PlaceAddr(b, w, place) ==
  LET start == Fresh(b, w)
      Follow(v, e) == IF e = Deref THEN LoadAt(b, ApplyPending(b, v))
                                   ELSE [v EXCEPT !.fields = Append(@, e)]
  IN  ApplyPending(b, FoldLeft(Follow,
        Emit(start, {AddressOf(start.at, Slot(b, place.local, <<>>))}),
        ProjKinds(place.proj)))

(* The node whose pointees are the pointers `place' holds.                 *)
PlaceValue(b, w, place) ==
  IF place.proj = <<>>
    THEN [w EXCEPT !.at = Slot(b, place.local, <<>>)]
    ELSE LoadAt(b, PlaceAddr(b, w, place))

StaticRef(b, w, s) ==
  LET n == Fresh(b, w) IN Emit(n, {AddressOf(n.at, Global(s))})

OperandValue(b, w, op) ==
  CASE op.kind = "place" -> PlaceValue(b, w, op.place)
    [] op.kind = "static" -> StaticRef(b, w, op.global)
    [] OTHER -> [w EXCEPT !.at = None]

StoreValue(b, w, place, value) ==
  IF place.proj = <<>>
    THEN Emit(w, {Copy(Slot(b, place.local, <<>>), value)})
    ELSE LET addr == PlaceAddr(b, w, place) IN Emit(addr, {Store(addr.at, value)})

StoreOperand(b, w, place, op) ==
  LET v == OperandValue(b, w, op)
  IN  IF v.at = None THEN v ELSE StoreValue(b, v, place, v.at)

(* The slot a leaf is copied from: behind a dereference the leaf of the    *)
(* local itself, otherwise the leaf extended by the projection, last first. *)
SourceLeaf(proj, p) ==
  IF Deref \in ToSet(proj) THEN p ELSE p \o Reverse(ProjKinds(proj))

ExpandAggregateCopy(b, w, dst, op) ==
  IF \/ dst.proj # <<>>
     \/ op.kind # "place"
     \/ op.place.local = dst.local /\ op.place.proj = <<>>
     \/ ~IsAdt(TypeOf(b, dst.local))
    THEN w
    ELSE Emit(w, {Copy(Slot(b, dst.local, p),
                       Slot(b, op.place.local, SourceLeaf(op.place.proj, p)))
                  : p \in Leaves(TypeOf(b, dst.local))})
-----------------------------------------------------------------------------
(* process_assignment *)

Ref(b, w, i) ==
  LET addr == PlaceAddr(b, w, i.src) IN StoreValue(b, addr, i.dst, addr.at)

Use(b, w, i) ==
  ExpandAggregateCopy(b, StoreOperand(b, w, i.dst, i.src), i.dst, i.src)

Value(b, w, i) ==
  FoldLeft(LAMBDA v, op : StoreOperand(b, v, i.dst, op), w, i.args)

Aggregate(b, w, i) ==
  FoldLeft(LAMBDA v, n :
             StoreOperand(b, v, [i.dst EXCEPT !.proj = Append(@, n - 1)], i.args[n]),
           w, [n \in DOMAIN i.args |-> n])

(* Operand op becomes upvar number n, of type ty, of closure g.            *)
Capture(b, w, heap, g, n, op, ty) ==
  LET v == OperandValue(b, w, op)
      field == ProjectLoc(heap, <<n>>)
      leaves == IF IsAdt(OperandType(b, op)) THEN Leaves(OperandType(b, op)) ELSE {}
      captured ==
        [Emit(v, {Copy(field, v.at)}
                 \cup {Copy(ProjectLoc(heap, <<n>> \o p), Slot(b, op.place.local, p))
                       : p \in leaves})
           EXCEPT !.paths[g] = @ \cup {<<n>>} \cup {<<n>> \o p : p \in leaves}]
      addr == Fresh(b, captured)
  IN  CASE v.at = None -> v
        [] ty.kind = "ref" -> Emit(addr, {AddressOf(addr.at, v.at), Copy(field, addr.at)})
        [] OTHER -> captured

Closure(b, w, i, site) ==
  LET ty == TypeOf(b, i.dst.local)
      heap == Heap(<<b.f, site, 0>>)
      recorded == [w EXCEPT !.envs[ty.body] = @ \cup {heap}]
      all == FoldLeft(LAMBDA v, n :
                        Capture(b, v, heap, ty.body, n - 1, i.args[n], ty.fields[n]),
                      recorded, [n \in DOMAIN i.args |-> n])
  IN  Emit(all, {AddressOf(Slot(b, i.dst.local, <<>>), heap)})
-----------------------------------------------------------------------------
(* process_call *)

(* A projected destination is written through a temporary. *)
CallDest(b, w, place) ==
  IF place.proj = <<>>
    THEN [w EXCEPT !.at = Slot(b, place.local, <<>>)]
    ELSE LET addr == PlaceAddr(b, w, place)
             temp == Fresh(b, addr)
         IN  Emit(temp, {Store(addr.at, temp.at)})

ArgNodes(b, w, ops) ==
  FoldLeft(LAMBDA v, op : LET o == OperandValue(b, v, op)
                          IN  [o EXCEPT !.args = Append(@, o.at)],
           [w EXCEPT !.args = <<>>], ops)

(* The body of a closure that is an argument is called with it.            *)
(* u32::MAX - i stands for what the closure passed as argument i returns.  *)
ClosureArg(b, w, i, site, n) ==
  LET heap == Heap(<<b.f, site, n>>)
      dest == Slot(b, -n, <<>>)
  IN  IF w.args[n] = None \/ OperandType(b, i.args[n]).kind # "closure" THEN w ELSE
      [Emit(w, {AddressOf(dest, heap)}
               \cup {Copy(ProjectLoc(heap, <<j - 1>>), w.args[j])
                     : j \in {m \in DOMAIN w.args : w.args[m] # None}})
         EXCEPT !.calls = Append(@, [callee |-> OperandType(b, i.args[n]).body,
                                     site |-> site, dest |-> dest,
                                     args |-> <<w.args[n]>>, heap |-> heap])]

(* emit_boxed_value: every prefix of a leaf of the value goes to the heap. *)
BoxedValue(dest, heap, value, ty) ==
  {AddressOf(dest, heap)}
    \cup {Copy(ProjectLoc(heap, p), ProjectLoc(value, p)) : p \in LeafPrefixes(ty)}

(* Box, Arc, Rc::new: the pointer and its inner pointers point at the heap. *)
BoxNew(b, i, dest, heap, args) ==
  {AddressOf(dest, heap)}
    \cup {AddressOf(ProjectLoc(dest, p), heap) : p \in LeafPrefixes(TypeOf(b, i.dst.local))}
    \cup IF args[1] = None THEN {}
         ELSE BoxedValue(dest, heap, args[1], OperandType(b, i.args[1]))

(* The specialised models, and the conservative one for everything else.   *)
Specialized == {"new", "into_raw", "clone", "deref", "index", "atomic_store"}

Modelled(b, i, dest, heap, args) ==
  CASE i.api = "new" -> BoxNew(b, i, dest, heap, args)
    [] args[1] = None -> {}
    [] i.api \in {"into_raw", "index"} -> {Copy(dest, args[1])}
    [] i.api = "clone" -> {Load(dest, args[1])}
    [] i.api = "deref" -> {Load(dest, args[1]), Copy(dest, args[1])}
    [] i.api = "atomic_store" -> IF args[2] = None THEN {} ELSE {Copy(args[1], args[2])}

Unknown(c) ==
  {AddressOf(c.dest, c.heap)} \cup {Copy(c.dest, a) : a \in ToSet(c.args) \ {None}}

CallTerm(b, w, i, site) ==
  LET dest == CallDest(b, w, i.dst)
      args == ArgNodes(b, dest, i.args)
      all == FoldLeft(LAMBDA v, n : ClosureArg(b, v, i, site, n),
                      args, [n \in DOMAIN i.args |-> n])
      heap == Heap(<<b.f, site, 0>>)
  IN  IF i.api \in Specialized
        THEN Emit(all, Modelled(b, i, dest.at, heap, all.args))
        ELSE [all EXCEPT !.calls = Append(@, [callee |-> i.callee, site |-> site,
                                              dest |-> dest.at, args |-> all.args,
                                              heap |-> heap])]

Translate(b, w, site) ==
  LET i == prog.body[b.f][site]
  IN  CASE i.op = "ref" -> Ref(b, w, i)
        [] i.op = "use" -> Use(b, w, i)
        [] i.op = "value" -> Value(b, w, i)
        [] i.op = "aggregate" -> Aggregate(b, w, i)
        [] i.op = "closure" -> Closure(b, w, i, site)
        [] i.op = "call" -> CallTerm(b, w, i, site)
        [] OTHER -> w

BuildBody(b) ==
  FoldLeft(LAMBDA w, site : Translate(b, w, site),
           [cs |-> constraints, temp |-> 0, at |-> None, fields |-> <<>>, args |-> <<>>,
            calls |-> <<>>, envs |-> closureEnvs, paths |-> closureEnvPaths],
           [site \in DOMAIN prog.body[b.f] |-> site])
-----------------------------------------------------------------------------
(* The driver *)

(* Mutant: the first k call sites are kept, not the last. *)
ExtendMut(ctx, site) ==
  IF Len(ctx) < prog.k THEN Append(ctx, site) ELSE ctx

(* KCallSite::extend *)
Extend(ctx, site) ==
  LET v == Append(ctx, site)
  IN  SubSeq(v, IF Len(v) > prog.k THEN Len(v) - prog.k + 1 ELSE 1, Len(v))

(* A temporary of the binding: in the first function, without a context.   *)
BindTemp(n) == Slot([f |-> Head(prog.roots), ctx |-> <<>>], TempBase + n, <<>>)

(* Leaf p of a parameter: the leaf of the pointees of the argument, and,   *)
(* for an argument that is a local, the leaf of the local.                 *)
BindLeaf(r, param, arg, p) ==
  [r EXCEPT
     !.temp = @ + 1,
     !.cs = @ \cup {Offset(BindTemp(r.temp), arg, p),
                    Load(ProjectLoc(param, p), BindTemp(r.temp))}
              \cup IF arg.base[1] = "var" /\ arg.path = <<>>
                     THEN {Copy(ProjectLoc(param, p), [arg EXCEPT !.path = p])} ELSE {}]

BindParam(r, callee, n, arg) ==
  LET param == Slot(callee, n, <<>>)
  IN  FoldLeft(LAMBDA s, p : IF p = <<>> THEN s ELSE BindLeaf(s, param, arg, p),
               [r EXCEPT !.cs = @ \cup {Copy(param, arg)}],
               LeafPathsOf(TypeOf(callee, n)))

BindCallee(r, callee, c) ==
  FoldLeft(LAMBDA s, n : IF n > Len(c.args) \/ c.args[n] = None THEN s
                         ELSE BindParam(s, callee, n, c.args[n]),
           [r EXCEPT !.cs = @ \cup {Copy(c.dest, Slot(callee, 0, <<>>))}],
           [n \in 1 .. prog.args[callee.f] |-> n])

(* Mutants: a body built under one context counts as built under all; the  *)
(* visited set is not consulted.                                           *)
IsBuiltMut(b, done) == \E d \in done : d.f = b.f
NeverBuiltMut(b, done) == FALSE

IsBuilt(b, done) == b \in done

(* resolve_pending: a function with MIR is bound, anything else unknown.   *)
Resolve(b, r, c) ==
  LET callee == [f |-> c.callee, ctx |-> Extend(b.ctx, <<b.f, c.site>>)]
  IN  IF c.callee \notin DOMAIN prog.body
        THEN [r EXCEPT !.cs = @ \cup Unknown(c)]
        ELSE [BindCallee(r, callee, c) EXCEPT
                !.queue = IF IsBuilt(callee, built \cup {b}) THEN @ ELSE Append(@, callee)]

BuildInit ==
  /\ prog \in Programs
  /\ phase = "build"
  /\ queue = [i \in DOMAIN prog.roots |-> [f |-> prog.roots[i], ctx |-> <<>>]]
  /\ built = {}
  /\ builtClosures = {}
  /\ closureEnvs = [f \in DOMAIN prog.body |-> {}]
  /\ closureEnvPaths = [f \in DOMAIN prog.body |-> {}]
  /\ constraints = {}
  /\ tempCounter = 0
  /\ pts = {}

(* A pair that is built already, or a function without MIR, is skipped.    *)
SkipBody ==
  /\ phase = "build"
  /\ queue # <<>>
  /\ LET b == Head(queue) IN IsBuilt(b, built) \/ b.f \notin DOMAIN prog.body
  /\ queue' = Tail(queue)
  /\ built' = built \cup {Head(queue)}
  /\ UNCHANGED <<prog, phase, envVars, constraints, tempCounter, pts>>

BuildReachable ==
  /\ phase = "build"
  /\ queue # <<>>
  /\ tempCounter < MaxTemps
  /\ LET b == Head(queue) IN
       /\ ~IsBuilt(b, built)
       /\ b.f \in DOMAIN prog.body
       /\ built' = built \cup {b}
       /\ builtClosures' = IF b.f \in prog.closures THEN builtClosures \cup {b}
                                                    ELSE builtClosures
       /\ \E w \in {BuildBody(b)} :
            /\ closureEnvs' = w.envs
            /\ closureEnvPaths' = w.paths
            /\ \E r \in {FoldLeft(LAMBDA s, c : Resolve(b, s, c),
                                  [cs |-> w.cs, temp |-> tempCounter, queue |-> Tail(queue)],
                                  w.calls)} :
                 /\ queue' = r.queue
                 /\ constraints' = r.cs
                 /\ tempCounter' = r.temp
  /\ UNCHANGED <<prog, phase, pts>>

(* The environment a closure body is given: a coroutine reaches its upvars *)
(* through the state pointer in field 0, any other closure through local 1. *)
Environment(b, heap) ==
  LET bound == {<<n>> : n \in 0 .. MaxUpvarFields - 1} \cup closureEnvPaths[b.f]
  IN  IF b.f \in prog.coroutines
        THEN {AddressOf(Slot(b, 1, <<0>>), heap)}
        ELSE {AddressOf(Slot(b, 1, <<>>), heap)}
               \cup {Copy(Slot(b, 1, p), ProjectLoc(heap, p)) : p \in bound}

BindEnvironments ==
  /\ phase = "build"
  /\ queue = <<>>
  /\ constraints' = constraints \cup
       UNION {Environment(b, heap) : <<b, heap>> \in
                {x \in builtClosures \X UNION {closureEnvs[f] : f \in DOMAIN prog.body} :
                   x[2] \in closureEnvs[x[1].f]}}
  /\ builtClosures' = {}
  /\ phase' = "solve"
  /\ UNCHANGED <<prog, queue, built, closureEnvs, closureEnvPaths, tempCounter, pts>>

Pointees(n) == {r[2] : r \in {s \in pts : s[1] = n}}

(* What constraint c demands of a relation that holds pts.                 *)
Derived(c) ==
  CASE c.type = "AddressOf" -> {<<c.dst, c.obj>>}
    [] c.type = "Copy" -> {c.dst} \X Pointees(c.src)
    [] c.type = "Load" -> {c.dst} \X UNION {Pointees(m) : m \in Pointees(c.src)}
    [] c.type = "Store" -> Pointees(c.dst) \X Pointees(c.src)
    [] c.type = "Offset" -> {<<c.dst, ProjectLoc(m, c.suffix)>> : m \in Pointees(c.src)}

(* solve(): to the least solution, one round of all constraints at a time. *)
Solve ==
  /\ phase = "solve"
  /\ pts' = pts \cup UNION {Derived(c) : c \in constraints}
  /\ phase' = IF pts' = pts THEN "done" ELSE "solve"
  /\ UNCHANGED <<prog, queue, built, envVars, constraints, tempCounter>>

BuilderNext == SkipBody \/ BuildReachable \/ BindEnvironments \/ Solve
=============================================================================
