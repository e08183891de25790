------------------------ MODULE PointsToSoundness ------------------------
(***************************************************************************)
(* The points-to analysis against the program it analyses: the bodies are  *)
(* built and solved (PtaBuilder), then executed by interleaved threads,    *)
(* and every pointer found in memory must be among the computed ones.      *)
(*                                                                         *)
(* A cell is an object and a path within it.  Memory maps the cells that   *)
(* hold a pointer to the cell pointed at; a struct is the cells below its  *)
(* own.  A closure is held as a pointer to its environment, an Arc, Rc or  *)
(* Box as a pointer to its content.                                        *)
(***************************************************************************)
EXTENDS PtaBuilder

CONSTANT MaxDepth    \* calls nested in the execution; recursion stops there

VARIABLES
  threads,   \* activation of its first function -> call stack of a thread
  mem        \* cell -> cell

execVars == <<threads, mem>>
vars == <<buildVars, execVars>>

(* An activation is the task it belongs to and its call string since the   *)
(* task began; a frame is a function, the next instruction and activation. *)
Main == [task |-> "main", str |-> <<>>]
Frame(f, act) == [f |-> f, pc |-> 1, act |-> act]

Cell(fr, x) == [obj |-> <<"var", fr.act, fr.f, x>>, path |-> <<>>]
HeapCell(fr) == [obj |-> <<"heap", fr.act, <<fr.f, fr.pc, 0>>>>, path |-> <<>>]
GlobalCell(s) == [obj |-> <<"global", s>>, path |-> <<>>]

Below(cell, path) == [cell EXCEPT !.path = @ \o path]

(* What a cell holds: a function from paths below it to pointers.          *)
Held(cell) ==
  LET within == {c \in DOMAIN mem : c.obj = cell.obj /\ IsPrefix(cell.path, c.path)}
  IN  [p \in {SubSeq(c.path, Len(cell.path) + 1, Len(c.path)) : c \in within} |->
         mem[Below(cell, p)]]

Pointer(cell) == (<<>> :> cell)
NoPointer == [p \in {} |-> {}]

(* v without what it holds outside field n, and v as the value of field n. *)
InField(n, v) == [p \in {<<n>> \o q : q \in DOMAIN v} |-> v[Tail(p)]]

With(m, cell, v) ==
  LET kept == {c \in DOMAIN m : ~(c.obj = cell.obj /\ IsPrefix(cell.path, c.path))}
  IN  [c \in kept \cup {Below(cell, p) : p \in DOMAIN v} |->
         IF c \in kept THEN m[c] ELSE v[SubSeq(c.path, Len(cell.path) + 1, Len(c.path))]]

(* A downcast stays in the same cells. *)
CellOf(fr, place) ==
  FoldLeft(LAMBDA c, e : CASE e = Deref -> mem[c]
                           [] e = Variant -> c
                           [] OTHER -> Below(c, <<e>>),
           Cell(fr, place.local), place.proj)

ValueOf(fr, op) ==
  CASE op.kind = "place" -> Held(CellOf(fr, op.place))
    [] op.kind = "static" -> Pointer(GlobalCell(op.global))
    [] OTHER -> NoPointer

Fields(fr, ops) ==
  LET parts == [n \in DOMAIN ops |-> InField(n - 1, ValueOf(fr, ops[n]))]
  IN  FoldLeft(LAMBDA v, part : v @@ part, NoPointer, parts)
-----------------------------------------------------------------------------
Top(t) == Last(threads[t])
Instr(t) == prog.body[Top(t).f][Top(t).pc]

At(t, ops) ==
  /\ phase = "done"
  /\ threads[t] # <<>>
  /\ Instr(t).op \in ops

Moved(stack, pc) == [stack EXCEPT ![Len(stack)].pc = pc]
GoOn(t) == threads' = [threads EXCEPT ![t] = Moved(@, Top(t).pc + 1)]
Assign(t, v) == mem' = With(mem, CellOf(Top(t), Instr(t).dst), v)

Assignment(t) ==
  /\ At(t, {"ref", "use", "value", "aggregate"})
  /\ LET i == Instr(t) IN
       \/ i.op = "ref" /\ Assign(t, Pointer(CellOf(Top(t), i.src)))
       \/ i.op = "use" /\ Assign(t, ValueOf(Top(t), i.src))
       \/ i.op = "value" /\ \E n \in DOMAIN i.args : Assign(t, ValueOf(Top(t), i.args[n]))
       \/ i.op = "aggregate" /\ Assign(t, Fields(Top(t), i.args))
  /\ GoOn(t)

MakeClosure(t) ==
  /\ At(t, {"closure"})
  /\ mem' = With(With(mem, HeapCell(Top(t)), Fields(Top(t), Instr(t).args)),
                 CellOf(Top(t), Instr(t).dst), Pointer(HeapCell(Top(t))))
  /\ GoOn(t)

Arg(t, n) == ValueOf(Top(t), Instr(t).args[n])
IsLibraryCall(t) == At(t, {"call"}) /\ Instr(t).callee \notin DOMAIN prog.body

Jump(t) ==
  /\ At(t, {"goto"})
  /\ \E pc \in Instr(t).to : threads' = [threads EXCEPT ![t] = Moved(@, pc)]
  /\ UNCHANGED mem

(* Box, Arc and Rc: new, into_raw, clone, deref. *)
PointerCall(t) ==
  /\ IsLibraryCall(t)
  /\ LET i == Instr(t) IN
       \/ /\ i.api = "new"
          /\ mem' = With(With(mem, HeapCell(Top(t)), Arg(t, 1)),
                         CellOf(Top(t), i.dst), Pointer(HeapCell(Top(t))))
       \/ i.api = "into_raw" /\ Assign(t, Arg(t, 1))
       \/ i.api \in {"clone", "deref"} /\ Assign(t, Held(Arg(t, 1)[<<>>]))
  /\ GoOn(t)

(* A function that is not seen returns a new object or one it was given.   *)
UnseenCall(t) ==
  /\ IsLibraryCall(t)
  /\ Instr(t).api = "unseen"
  /\ \E v \in {Pointer(HeapCell(Top(t)))} \cup {Arg(t, n) : n \in DOMAIN Instr(t).args} :
       Assign(t, v)
  /\ GoOn(t)

(* A thread that runs a closure is called from the spawn; an executor      *)
(* calls a coroutine from nowhere.  A closure body has its environment by  *)
(* value or by reference, a coroutine's is behind a state pointer.         *)
Spawn(t) ==
  /\ IsLibraryCall(t)
  /\ Instr(t).api = "spawn"
  /\ LET fr == Top(t)
         x == Instr(t).args[1].place.local
         g == TypeOf([f |-> fr.f], x).body
         env == mem[Cell(fr, x)]
         act == IF g \in prog.coroutines
                  THEN [task |-> g, str |-> <<>>]
                  ELSE [fr.act EXCEPT !.str = Append(@, <<fr.f, fr.pc>>)]
         arg == CASE g \in prog.coroutines -> InField(0, Pointer(env))
                  [] TypeOf([f |-> g], 1).kind = "ref" -> Pointer(env)
                  [] OTHER -> Held(env)
     IN  /\ mem' = With(mem, Cell(Frame(g, act), 1), arg)
         /\ threads' = (act :> <<Frame(g, act)>>)
                       @@ [threads EXCEPT ![t] = Moved(@, fr.pc + 1)]

CanCall(t) == Len(Top(t).act.str) < MaxDepth

Call(t) ==
  /\ At(t, {"call"})
  /\ Instr(t).callee \in DOMAIN prog.body
  /\ CanCall(t)
  /\ LET fr == Top(t)
         callee == Frame(Instr(t).callee, [fr.act EXCEPT !.str = Append(@, <<fr.f, fr.pc>>)])
     IN  /\ mem' = FoldLeft(LAMBDA m, n : With(m, Cell(callee, n), Arg(t, n)),
                            mem, [n \in DOMAIN Instr(t).args |-> n])
         /\ threads' = [threads EXCEPT ![t] = Append(@, callee)]

Return(t) ==
  /\ At(t, {"return"})
  /\ LET below == Front(threads[t])
         caller == Last(below)
         i == prog.body[caller.f][caller.pc]
     IN  IF below = <<>>
           THEN /\ threads' = [threads EXCEPT ![t] = <<>>]
                /\ UNCHANGED mem
           ELSE /\ threads' = [threads EXCEPT ![t] = Moved(below, caller.pc + 1)]
                /\ mem' = With(mem, CellOf(caller, i.dst), Held(Cell(Top(t), 0)))

Step(t) ==
  Assignment(t) \/ MakeClosure(t) \/ Jump(t) \/ PointerCall(t) \/ UnseenCall(t)
    \/ Spawn(t) \/ Call(t) \/ Return(t)

(* Every thread has returned or stands before a call that is too deep.     *)
Finished ==
  /\ phase = "done"
  /\ \A t \in DOMAIN threads : threads[t] # <<>> => Instr(t).op = "call" /\ ~CanCall(t)
  /\ UNCHANGED vars

Init ==
  /\ BuildInit
  /\ threads = (Main :> <<Frame(Head(prog.roots), Main)>>)
  /\ mem = NoPointer

Next ==
  \/ BuilderNext /\ UNCHANGED execVars
  \/ (\E t \in DOMAIN threads : Step(t)) /\ UNCHANGED buildVars
  \/ Finished

Spec == Init /\ [][Next]_vars

(* The builder is sequential code that keeps executing; threads need not.  *)
(* It can take a step until phase is "done", so this is its weak fairness, *)
(* written without ENABLED.                                                *)
BuilderRuns == []<>(phase = "done") \/ []<><<TRUE>>_buildVars

FairSpec == Spec /\ BuilderRuns
-----------------------------------------------------------------------------
(* The last k call sites of a call string. *)
Context(str) == SubSeq(str, IF Len(str) > prog.k THEN Len(str) - prog.k + 1 ELSE 1, Len(str))

(* The location that stands for a cell. *)
AbstractOf(cell) ==
  [base |-> CASE cell.obj[1] = "var" -> <<"var", Context(cell.obj[2].str), cell.obj[3], cell.obj[4]>>
              [] cell.obj[1] = "heap" -> <<"heap", cell.obj[3]>>
              [] OTHER -> cell.obj,
   path |-> cell.path]

Covered(cell) == <<AbstractOf(cell), AbstractOf(mem[cell])>> \in pts

(* Every pointer the program ever holds, in a local, a field, a box or the *)
(* environment of a closure, in whatever thread, is in the points-to set   *)
(* of the location that stands for the place it is held in: may-alias,     *)
(* which intersects these sets, then misses no alias.                      *)
PointsToCovers == \A cell \in DOMAIN mem : Covered(cell)

(* The same of locals alone, whatever the projection their value was read  *)
(* through.                                                                *)
LocalsCovered ==
  \A cell \in DOMAIN mem : cell.obj[1] = "var" /\ cell.path = <<>> => Covered(cell)

(* Every activation runs in a body that was built under the context of its *)
(* last k call sites, also when a recursion is deeper than k: its          *)
(* constraints would be missing otherwise.                                 *)
ContextsCovered ==
  phase = "done" =>
    \A t \in DOMAIN threads : \A n \in DOMAIN threads[t] :
      [f |-> threads[t][n].f, ctx |-> Context(threads[t][n].act.str)] \in built

(* The queue empties, also for recursive functions, which ask for a body   *)
(* under a new context at every call.                                      *)
BuildEnds == <>(phase = "done")
=============================================================================
