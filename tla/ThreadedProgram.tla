-------------------------- MODULE ThreadedProgram --------------------------
(***************************************************************************)
(* What the analysed program does when it runs: the specification the net  *)
(* is compared with.  Threads have call stacks, locks have owners, and     *)
(* channels count messages.                                                *)
(*                                                                         *)
(* A thread is named by the function it starts in.  It offers the labels   *)
(* of the steps it may take next, named like the transitions of the net;   *)
(* it is ready for one that is not blocked.  Every branch of a switch may  *)
(* be taken, a condition variable may wake up at any time, calls panic     *)
(* only where the program says so, an edge to an excluded block is never   *)
(* taken, and a called function that is not translated runs the first      *)
(* closure it is given once.                                               *)
(***************************************************************************)
EXTENDS MirProgram, SequencesExt

VARIABLES
  stack,    \* thread -> frames [f, b, at]; <<>>: not started, or joined
  live,     \* locals that own a lock at the moment
  sent      \* channel -> messages in it

progVars == <<stack, live, sent>>

Frame(f, b, at) == [f |-> f, b |-> b, at |-> at]
Entry(f) == Frame(f, 0, "entry")

Top(th) == Last(stack[th])
Caller(th) == stack[th][Len(stack[th]) - 1]
Ended(th) == Len(stack[th]) = 1 /\ Top(th).at = "end"

Owner(x) == IF IsGuard(x) THEN prog.guard[x] ELSE prog.result[x]

Available(own) ==
  \A x \in live : Owner(x).lock = own.lock => "read" = own.kind /\ "read" = Owner(x).kind

(* The function a call runs on the thread itself. *)
Callee(t) ==
  IF t.api \notin {"plain", "forward"} THEN {}
  ELSE IF t.callee \in DOMAIN prog.body THEN {t.callee}
  ELSE LET cs == {i \in DOMAIN t.args : ClosureAt(t, i) # {}}
       IN  UNION {ClosureAt(t, i) : i \in {j \in cs : \A k \in cs : j =< k}}

ScopedThreads(f) ==
  UNION {ClosureAt(Term(f, b), 2) :
           b \in {c \in BlocksOf(f) : Term(f, c).api = "scopeSpawn"}}

(* Labels of the terminator of a block. *)
ExitsProgram(f, t) ==
  \/ t.op = "terminal"
  \/ t.op = "call" /\ t.targets = <<>> /\ t.diverges
  \/ t.op \in {"goto", "call"} /\ t.targets # <<>> /\ Block(f, t.targets[1]).cleanup

TermLabels(f, b) ==
  LET t == Term(f, b) IN
  IF ExitsProgram(f, t) THEN {<<f, b, "exit", 0>>}
  ELSE CASE t.op = "return" /\ Block(f, b).pending -> {<<f, b, "goto", 0>>}
         [] t.op = "return" /\ ~Block(f, b).pending -> {<<f, 0, "return", 0>>}
         [] t.op = "switch" -> IF b = 0 /\ f \in prog.coroutine THEN {<<f, b, "switch", 1>>}
                               ELSE {<<f, b, "switch", i>> :
                                       i \in {j \in DOMAIN t.targets : ~Excluded(f, t.targets[j])}}
         [] t.op = "drop" -> {<<f, b, "drop", 0>>}
         [] t.op = "call" -> {<<f, b, "call", 0>>}
         [] t.op = "fallthrough" /\ Excluded(f, t.targets[1]) -> {}
         [] OTHER -> {<<f, b, "goto", 0>>}

Labels(th) ==
  IF stack[th] = <<>> THEN {}
  ELSE LET fr == Top(th) IN
    CASE fr.at = "entry" -> {<<fr.f, 0, "start", 0>>}
      [] fr.at = "block" -> IF Block(fr.f, fr.b).accesses # {} THEN {<<fr.f, fr.b, "unsafe", 0>>}
                            ELSE TermLabels(fr.f, fr.b)
      [] fr.at = "accessed" -> TermLabels(fr.f, fr.b)
      [] fr.at = "operation" -> {<<fr.f, fr.b, "atomic", a>> :
                                    a \in AtomicsOf(Term(fr.f, fr.b).args[1])}
      [] fr.at = "await" -> {<<fr.f, fr.b, "ret", 0>>}
      [] fr.at = "end" -> IF Len(stack[th]) = 1 THEN {}
                          ELSE {<<Caller(th).f, Caller(th).b, "ret", 0>>}

TermOf(id) == Term(id[1], id[2])

(* Threads whose end the step waits for, and takes. *)
Collected(id) ==
  LET t == TermOf(id) IN
  CASE id[3] = "call" /\ t.api \in {"join", "scopeJoin"} -> {prog.thread[t.args[1]]}
    [] id[3] = "ret" /\ t.api = "rayonJoin" -> ClosureArgs(t)
    [] id[3] = "return" -> {g \in ScopedThreads(id[1]) : stack[g] # <<>>}
    [] OTHER -> {}

Started(id) ==
  LET t == TermOf(id) IN
  IF id[3] # "call" THEN {}
  ELSE CASE t.api = "spawn" -> ClosureAt(t, 1)
         [] t.api = "scopeSpawn" -> ClosureAt(t, 2)
         [] t.api = "rayonJoin" -> ClosureArgs(t)
         [] OTHER -> {}

Acquired(id) ==
  LET t == TermOf(id) IN
  IF \/ id[3] = "call" /\ t.api = "lock"
     \/ id[3] = "ret" /\ t.api = "wait"
    THEN {t.dest} ELSE {}

Ready(th, id) ==
  /\ id \in Labels(th)
  /\ \A x \in Acquired(id) : Available(Owner(x))
  /\ \A g \in Collected(id) : stack[g] # <<>> /\ Ended(g)
  /\ id[3] = "call" /\ TermOf(id).api = "recv" =>
       \A c \in prog.channel[TermOf(id).args[1]] : sent[c] > 0
-----------------------------------------------------------------------------
ProgInit ==
  /\ stack = [f \in NodeFuncs |-> IF f = prog.main THEN <<Entry(f)>> ELSE <<>>]
  /\ live = {}
  /\ sent = [c \in UNION Range(prog.channel) |-> 0]

NextBlockOf(id) ==
  IF id[3] = "switch" THEN TermOf(id).targets[id[4]]
  ELSE IF TermOf(id).op = "return" THEN CHOOSE c \in Continuation(id[1], id[2]) : TRUE
  ELSE TermOf(id).targets[1]

(* An access to an atomic, whichever of those it may be. *)
IsAtomic(t) == t.api \in {"atomicLoad", "atomicStore"} /\ AtomicsOf(t.args[1]) # {}

(* The stack of the thread after the step. *)
StackAfter(th, id) ==
  LET fr == Top(th)
      at(b, where) == Append(Front(stack[th]), Frame(fr.f, b, where))
      t == TermOf(id)
  IN
  CASE id[3] = "start" -> at(0, "block")
    [] id[3] = "unsafe" -> at(fr.b, "accessed")
    [] id[3] = "exit" -> <<Frame(th, 0, "end")>>
    [] id[3] = "return" -> at(fr.b, "end")
    [] id[3] = "ret" ->
         LET callers == IF fr.at = "end" THEN Front(Front(stack[th])) ELSE Front(stack[th])
         IN  Append(callers, Frame(id[1], NextBlockOf(id), "block"))
    [] id[3] = "call" /\ t.api \in {"wait", "rayonJoin"} -> at(fr.b, "await")
    [] id[3] = "call" /\ IsAtomic(t) -> at(fr.b, "operation")
    [] id[3] = "call" /\ t.api = "panic" -> <<Frame(th, 0, "end")>>
    [] id[3] = "call" /\ Callee(t) # {} ->
         Append(at(fr.b, "await"), Entry(CHOOSE g \in Callee(t) : TRUE))
    [] OTHER -> at(NextBlockOf(id), "block")

(* Locals that give their lock up, or pass it on. *)
Released(id) ==
  LET t == TermOf(id) IN
  CASE id[3] = "drop" -> {t.args[1]}
    [] id[3] = "call" /\ t.api \in {"drop", "forward"} -> Range(t.args)
    [] id[3] = "call" /\ t.api = "wait" -> {t.args[2]}
    [] OTHER -> {}

Forwarded(id, owners) ==
  LET t == TermOf(id)
  IN  IF id[3] = "call" /\ t.api = "forward" /\ Range(t.args) \cap owners # {}
        THEN {t.dest} ELSE {}

(* The locks after the first moves of a block. *)
OwnersAfter(moves) ==
  LET own[k \in 0 .. Len(moves)] ==
        IF k = 0 THEN live
        ELSE IF moves[k][2] \in own[k - 1]
          THEN (own[k - 1] \ {moves[k][2]}) \cup {moves[k][1]}
        ELSE own[k - 1]
  IN  own

MovedOwners(id) ==
  IF id[3] \in {"start", "unsafe", "ret", "return", "atomic"} THEN live
  ELSE LET moves == Block(id[1], id[2]).moves IN OwnersAfter(moves)[Len(moves)]

Step(th, id) ==
  /\ Ready(th, id)
  /\ stack' = [g \in NodeFuncs |->
                 IF g = th THEN StackAfter(th, id)
                 ELSE IF g \in Started(id) THEN <<Entry(g)>>
                 ELSE IF g \in Collected(id) THEN <<>>
                 ELSE stack[g]]
  /\ LET owners == MovedOwners(id)
     IN  live' = (owners \ Released(id)) \cup Acquired(id) \cup Forwarded(id, owners)
  /\ sent' = [c \in DOMAIN sent |->
                LET t == TermOf(id)
                    uses(api) == id[3] = "call" /\ t.api = api /\ c \in prog.channel[t.args[1]]
                IN  IF uses("send") THEN sent[c] + 1
                    ELSE IF uses("recv") THEN sent[c] - 1
                    ELSE sent[c]]
=============================================================================
