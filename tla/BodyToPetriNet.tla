-------------------------- MODULE BodyToPetriNet --------------------------
(***************************************************************************)
(* The translation of a program to a Petri net: PetriNet::construct of     *)
(* translate/petri_net.rs and the visitor of translate/mir_to_pn/.         *)
(*                                                                         *)
(* The functions are visited in the order of the call graph, the blocks of *)
(* a function by index, and of a block first the statements, then (block   *)
(* 0) the start transition, then the terminator.  Each handler of a        *)
(* terminator is an action.  A place is named by what it stands for, a     *)
(* transition by function, block, kind and number.                         *)
(*                                                                         *)
(* Left out: handles kept in a Vec.                                        *)
(***************************************************************************)
EXTENDS MirProgram, PetriNet, SequencesExt

VARIABLES
  phase,       \* "construct", "visit", "run" (the net is built), "panicked"
  functions,   \* FunctionRegistry: functions that have places
  node,        \* index of the call graph node being visited
  seen,        \* visited_func_id
  bb,          \* block being visited
  step,        \* "body", "stmts", "start" or "term"
  ret,         \* return_transition exists
  ordered,     \* ordered_spawn_ends
  handle,      \* spawn_handle_end: local -> end place
  seg          \* SegState: the segment of the next atomic operation

bodyVars == <<ret, ordered, handle, seg>>
netVars == <<capacity, marking, trans>>
transVars == <<phase, functions, node, seen, bb, step, bodyVars>>

StartPlace(f) == <<"start", f>>
EndPlace(f) == <<"end", f>>
BlockPlace(f, b) == <<"bb", f, b>>
ReadyPlace(f, b) == <<"ready", f, b>>
WaitPlace(f, b) == <<"wait", f, b>>
LockPlace(l) == <<"lock", l>>
CondvarPlace(c) == <<"condvar", c>>
ChannelPlace(c) == <<"channel", c>>
AtomicPlace(a) == <<"atomic", a>>
OperationPlace(f, b) == <<"operation", f, b>>
SegPlace(f, n) == <<"seg", f, n>>
SeqCstPlace(f) == <<"seqcst", f>>

MainEnd == EndPlace(prog.main)

ReturnId(f) == <<f, 0, "return", 0>>

(* Bags of places. *)
None == EmptyBag
One(p) == SetToBag({p})
OneEach(ps) == SetToBag(ps)
Times(p, n) == [q \in {p} |-> n]

(* What f does not say, g does. *)
Extend(f, g) == [x \in DOMAIN f \cup DOMAIN g |-> IF x \in DOMAIN f THEN f[x] ELSE g[x]]

T(in, out, type) == [in |-> in, out |-> out, type |-> type, ops |-> {}]

fn == prog.nodes[node]
Here == Term(fn, bb)

(* BasicBlockGraph::last: the ready place follows the unsafe accesses. *)
LastPlace == IF ReadyPlace(fn, bb) \in Place THEN ReadyPlace(fn, bb) ELSE BlockPlace(fn, bb)

(* connect_to_target *)
Target(t) ==
  IF t.targets = <<>> THEN None ELSE One(BlockPlace(fn, t.targets[1]))

(* New places, those of the second set with a token. *)
WithTokens(ps, marked) ==
  /\ capacity' = Extend(capacity, [p \in ps |-> 1])
  /\ marking' = Extend(marking, [p \in ps |-> IF p \in marked THEN 1 ELSE 0])

WithPlaces(ps) == WithTokens(ps, {})
-----------------------------------------------------------------------------
TransInit ==
  /\ prog \in Programs
  /\ phase = "construct"
  /\ functions = {}
  /\ node = 1
  /\ seen = {}
  /\ bb = 0
  /\ step = "body"
  /\ ret = FALSE
  /\ ordered = <<>>
  /\ handle = <<>>
  /\ seg = 0
  /\ capacity = <<>>
  /\ marking = <<>>
  /\ trans = <<>>

(* construct_func, construct_lock_with_dfs, construct_channel_resources,    *)
(* construct_atomic_resources.                                              *)
Construct ==
  /\ phase = "construct"
  /\ phase' = "visit"
  /\ functions' = NodeFuncs \ prog.ignored
  /\ LET funcs == UNION {{StartPlace(f), EndPlace(f)} : f \in functions'}
         locks == {LockPlace(l) : l \in Locks}
         ones == {CondvarPlace(c) : c \in UNION Range(prog.condvar)}
                   \cup {AtomicPlace(a) : a \in UNION Range(prog.atomic)}
         chans == {ChannelPlace(c) : c \in UNION Range(prog.channel)}
     IN  /\ capacity' = [p \in funcs \cup locks \cup ones \cup chans |->
              IF p \in locks THEN LockCapacity(p[2])
              ELSE IF p \in chans THEN ChannelCapacity ELSE 1]
         /\ marking' = [p \in funcs \cup locks \cup ones \cup chans |->
              IF p \in locks THEN LockCapacity(p[2])
              ELSE IF p \in ones \cup {StartPlace(prog.main)} THEN 1 ELSE 0]
  /\ UNCHANGED <<prog, node, seen, bb, step, bodyVars, trans>>

(* visitor_function_body: every function once; init_basic_block. *)
BeginBody ==
  /\ phase = "visit"
  /\ step = "body"
  /\ node \in DOMAIN prog.nodes
  /\ fn \notin seen \cup prog.serde
  /\ LET blocks == {BlockPlace(fn, b) : b \in {c \in BlocksOf(fn) : ~Excluded(fn, c)}}
         first == IF prog.segments THEN {SegPlace(fn, 0)} ELSE {}
     IN  WithTokens(blocks \cup first, first)
  /\ seen' = seen \cup {fn}
  /\ bb' = 0
  /\ step' = "stmts"
  /\ ret' = FALSE
  /\ ordered' = <<>>
  /\ handle' = <<>>
  /\ seg' = 0
  /\ UNCHANGED <<prog, phase, functions, node, trans>>

(* Another instance of a visited function, or a serialization function. *)
SkipBody ==
  /\ phase = "visit"
  /\ step = "body"
  /\ node \in DOMAIN prog.nodes
  /\ fn \in seen \cup prog.serde
  /\ seen' = seen \cup {fn}
  /\ node' = node + 1
  /\ UNCHANGED <<prog, phase, functions, bb, step, bodyVars, netVars>>

EndBody ==
  /\ phase = "visit"
  /\ step = "stmts"
  /\ bb \notin BlocksOf(fn)
  /\ node' = node + 1
  /\ step' = "body"
  /\ UNCHANGED <<prog, phase, functions, seen, bb, bodyVars, netVars>>

Finish ==
  /\ phase = "visit"
  /\ step = "body"
  /\ node \notin DOMAIN prog.nodes
  /\ phase' = "run"
  /\ UNCHANGED <<prog, functions, node, seen, bb, step, bodyVars, netVars>>

SkipBlock ==
  /\ phase = "visit"
  /\ step = "stmts"
  /\ bb \in BlocksOf(fn)
  /\ Excluded(fn, bb)
  /\ bb' = bb + 1
  /\ UNCHANGED <<prog, phase, functions, node, seen, step, bodyVars, netVars>>

(* One access per alias group; a write hides the reads. *)
Merged(accesses) ==
  {a \in accesses : a[2] \/ <<a[1], TRUE>> \notin accesses}

(* Mutant: a handle that is moved is forgotten. *)
MovedMut(ends, moves) == ends

(* track_joinhandle_dataflow *)
Moved(ends, moves) ==
  LET followed[k \in 0 .. Len(moves)] ==
        IF k = 0 THEN ends
        ELSE LET e == followed[k - 1]
                 dst == moves[k][1]
                 src == moves[k][2]
             IN  IF src \in DOMAIN e THEN Extend([x \in {dst} |-> e[src]], e) ELSE e
  IN  followed[Len(moves)]

(* visit_statement_body and flush_unsafe_ops; a block that ends in an       *)
(* assertion is not scanned.                                                *)
VisitStatements ==
  /\ phase = "visit"
  /\ step = "stmts"
  /\ bb \in BlocksOf(fn)
  /\ ~Excluded(fn, bb)
  /\ LET scanned == Here.op # "assert"
         ops == IF scanned THEN Merged(Block(fn, bb).accesses) ELSE {}
     IN  /\ handle' = IF scanned THEN Moved(handle, Block(fn, bb).moves) ELSE handle
         /\ IF ops = {}
              THEN UNCHANGED netVars
              ELSE /\ WithPlaces({ReadyPlace(fn, bb)})
                   /\ trans' = Extend(trans, [id \in {<<fn, bb, "unsafe", 0>>} |->
                        [T(One(LastPlace), One(ReadyPlace(fn, bb)), "UnsafeAccess")
                           EXCEPT !.ops = ops]])
  /\ step' = IF bb = 0 THEN "start" ELSE "term"
  /\ UNCHANGED <<prog, phase, functions, node, seen, bb, ret, ordered, seg>>

(* handle_start_block; a function without places has no input place. *)
StartBlock ==
  /\ phase = "visit"
  /\ step = "start"
  /\ LET in == IF fn \in functions THEN One(StartPlace(fn)) ELSE None
     IN  trans' = Extend(trans, [id \in {<<fn, 0, "start", 0>>} |->
                                   T(in, One(BlockPlace(fn, 0)), "Start")])
  /\ step' = "term"
  /\ UNCHANGED <<prog, phase, functions, node, seen, bb, bodyVars, capacity, marking>>
-----------------------------------------------------------------------------
(* handle_terminator.  Every handler leaves from LastPlace and ends the block.   *)

EndBlock ==
  /\ bb' = bb + 1
  /\ step' = "stmts"
  /\ UNCHANGED <<prog, phase, functions, node, seen>>

Emit(kind, out, type) ==
  /\ trans' = Extend(trans, [id \in {<<fn, bb, kind, 0>>} |-> T(One(LastPlace), out, type)])
  /\ UNCHANGED <<bodyVars, capacity, marking>>

(* add_terminal_transition: unreachable, resumed unwinding, panics. *)
EmitTerminal == Emit("exit", One(MainEnd), "Return")

(* What BasicBlockGraph::start and handle_return expect() to exist. *)
ExpectedBlocks(f, b) ==
  LET t == Term(f, b) IN
  CASE t.op = "goto" -> {c \in Range(t.targets) : ~Block(f, c).cleanup}
    [] t.op \in {"assert", "drop"} -> Range(t.targets)
    [] t.op = "call" /\ t.api # "panic" -> {c \in Range(t.targets) : ~Block(f, c).cleanup}
    [] OTHER -> {}

Suspends(f, b) == Block(f, b).pending /\ f \in prog.coroutine

ExpectFails ==
  \/ \E b \in ExpectedBlocks(fn, bb) : Excluded(fn, b)
  \/ Here.op = "return" /\ ~Suspends(fn, bb) /\ fn \notin functions

Panic ==
  /\ phase = "visit"
  /\ step = "term"
  /\ ExpectFails
  /\ phase' = "panicked"
  /\ UNCHANGED <<prog, functions, node, seen, bb, step, bodyVars, netVars>>

AtTerm(op) ==
  /\ phase = "visit"
  /\ step = "term"
  /\ Here.op = op
  /\ ~ExpectFails

Goto ==
  /\ AtTerm("goto")
  /\ IF Block(fn, Here.targets[1]).cleanup
       THEN EmitTerminal                       \* handle_panic
       ELSE Emit("goto", Target(Here), "Goto")
  /\ EndBlock

AssertGoto ==
  /\ AtTerm("assert")
  /\ Emit("goto", Target(Here), "Assert")
  /\ EndBlock

(* False edges, yields and inline assembly; nothing leads to an excluded    *)
(* block.                                                                   *)
Fallthrough ==
  /\ AtTerm("fallthrough")
  /\ IF Excluded(fn, Here.targets[1])
       THEN UNCHANGED <<bodyVars, netVars>>
       ELSE Emit("goto", Target(Here), "Goto")
  /\ EndBlock

Terminal ==
  /\ AtTerm("terminal")
  /\ EmitTerminal
  /\ EndBlock

(* The dispatch of a coroutine keeps its first state only. *)
SwitchTargets(f, b) ==
  LET ts == Term(f, b).targets
      kept == {i \in DOMAIN ts : ~Excluded(f, ts[i])}
  IN  IF b = 0 /\ f \in prog.coroutine
        THEN {i \in kept : \A j \in kept : i =< j}
        ELSE kept

Switch ==
  /\ AtTerm("switch")
  /\ trans' = Extend(trans, [id \in {<<fn, bb, "switch", i>> : i \in SwitchTargets(fn, bb)} |->
                   T(One(LastPlace), One(BlockPlace(fn, Here.targets[id[4]])), "Switch")])
  /\ UNCHANGED <<bodyVars, capacity, marking>>
  /\ EndBlock

(* Poll::Pending: the task resumes at the continuation. *)
Suspend ==
  /\ AtTerm("return")
  /\ Suspends(fn, bb)
  /\ LET next == {c \in Continuation(fn, bb) : ~Excluded(fn, c)}
     IN  IF next = {}
           THEN UNCHANGED <<bodyVars, netVars>>
           ELSE Emit("goto", OneEach({BlockPlace(fn, c) : c \in next}), "Goto")
  /\ EndBlock

(* All returns of a body, and its scoped threads, share one transition. *)
ReturnWith(in, out, type) ==
  trans' = IF ret
             THEN [trans EXCEPT ![ReturnId(fn)].in = @ (+) in,
                                ![ReturnId(fn)].out = @ (+) out]
             ELSE Extend(trans, [id \in {ReturnId(fn)} |-> T(in, out, type)])

Return ==
  /\ AtTerm("return")
  /\ ~Suspends(fn, bb)
  /\ ReturnWith(One(LastPlace), One(EndPlace(fn)), "Return")
  /\ ret' = TRUE
  /\ UNCHANGED <<ordered, handle, seg, capacity, marking>>
  /\ EndBlock

(* The dropped guard gives its tokens back. *)
Tokens(x) ==
  IF IsGuard(x) THEN Times(LockPlace(prog.guard[x].lock), Weight(prog.guard[x].kind))
                ELSE None

(* Mutant: a write guard gives one token back. *)
DropMut ==
  /\ AtTerm("drop")
  /\ LET x == Here.args[1]
         token == IF IsGuard(x) THEN One(LockPlace(prog.guard[x].lock)) ELSE None
     IN  Emit("drop", Target(Here) (+) token, IF IsGuard(x) THEN "Unlock" ELSE "Drop")
  /\ EndBlock

Drop ==
  /\ AtTerm("drop")
  /\ LET x == Here.args[1]
     IN  Emit("drop", Target(Here) (+) Tokens(x), IF IsGuard(x) THEN "Unlock" ELSE "Drop")
  /\ EndBlock
-----------------------------------------------------------------------------
(* handle_call: the handlers are tried in this order. *)

ChannelsOf(t) == IF t.args # <<>> /\ t.args[1] \in DOMAIN prog.channel
                   THEN prog.channel[t.args[1]] ELSE {}

CondvarsOf(t) == IF t.args[1] \in DOMAIN prog.condvar
                   THEN prog.condvar[t.args[1]] ELSE {}

(* A guard made from something that is not a guard. *)
Acquires(t) == IsGuard(t.dest) /\ \A i \in DOMAIN t.args : ~IsGuard(t.args[i])

Recognised(t) ==
  IF t.api \in {"send", "recv"}
    THEN ChannelsOf(t) # {}
    ELSE t.api \in {"notify", "wait", "drop", "spawn", "join", "scopeSpawn",
                     "scopeJoin", "rayonJoin", "atomicLoad", "atomicStore", "panic"}

Handler(f, t) ==
  IF t.targets = <<>> /\ t.diverges THEN "unwind"
  ELSE IF t.targets # <<>> /\ Block(f, t.targets[1]).cleanup THEN "unwind"
  ELSE IF t.api = "fnptr" THEN "connect"
  ELSE IF Acquires(t) THEN "lock"
  ELSE IF Recognised(t) THEN t.api
  ELSE "normal"

AtCall(h) == AtTerm("call") /\ Handler(fn, Here) = h

EmitCall(in, out, type) ==
  trans' = Extend(trans, [id \in {<<fn, bb, "call", 0>>} |->
                            T(One(LastPlace) (+) in, out (+) Target(Here), type)])

SimpleCall(in, out, type) ==
  /\ EmitCall(in, out, type)
  /\ UNCHANGED <<bodyVars, capacity, marking>>
  /\ EndBlock

(* add_wait_ret_subnet: the call leads to a wait place, the ret transition  *)
(* from there to the target.                                                *)
WaitRet(callIn, callOut, retIn, type, retType) ==
  /\ WithPlaces({WaitPlace(fn, bb)})
  /\ trans' = Extend(trans, [id \in {<<fn, bb, "call", 0>>, <<fn, bb, "ret", 0>>} |->
       IF id[3] = "call"
         THEN T(One(LastPlace) (+) callIn, One(WaitPlace(fn, bb)) (+) callOut, type)
         ELSE T(One(WaitPlace(fn, bb)) (+) retIn, Target(Here), retType)])
  /\ UNCHANGED bodyVars
  /\ EndBlock

DivergingCall ==
  /\ AtCall("unwind")
  /\ EmitTerminal
  /\ EndBlock

ConnectCall == AtCall("connect") /\ SimpleCall(None, None, "Function")

(* handle_lock_call; its result, the transition type, is dropped. *)
LockCall ==
  /\ AtCall("lock")
  /\ SimpleCall(Tokens(Here.dest), None, "Function")

NotifyCall ==
  /\ AtCall("notify")
  /\ IF CondvarsOf(Here) = {}
       THEN SimpleCall(None, None, "Function")
       ELSE \E c \in CondvarsOf(Here) : SimpleCall(None, One(CondvarPlace(c)), "Notify")

(* Mutant: the wait keeps the lock. *)
WaitCallMut ==
  /\ AtCall("wait")
  /\ IsGuard(Here.args[2])
  /\ WaitRet(None, None, OneEach({CondvarPlace(c) : c \in CondvarsOf(Here)}),
             "Function", "Wait")

(* The wait gives the lock back; its return takes a token of every condvar  *)
(* it may be and the lock.                                                  *)
WaitCall ==
  /\ AtCall("wait")
  /\ IsGuard(Here.args[2])
  /\ LET lock == One(LockPlace(prog.guard[Here.args[2]].lock))
     IN  WaitRet(None, lock, lock (+) OneEach({CondvarPlace(c) : c \in CondvarsOf(Here)}),
                 "Function", "Wait")

DropCall ==
  /\ AtCall("drop")
  /\ LET x == Here.args[1]
     IN  SimpleCall(None, Tokens(x), IF IsGuard(x) THEN "Unlock" ELSE "Function")

SendCall ==
  /\ AtCall("send")
  /\ \E c \in ChannelsOf(Here) : SimpleCall(None, One(ChannelPlace(c)), "Function")

RecvCall ==
  /\ AtCall("recv")
  /\ \E c \in ChannelsOf(Here) : SimpleCall(One(ChannelPlace(c)), None, "Function")

(* The thread starts at the closure; its end is remembered in order and     *)
(* under the handle.                                                        *)
SpawnCall ==
  /\ AtCall("spawn")
  /\ LET callee == ClosureAt(Here, 1) \cap functions
     IN  /\ EmitCall(None, OneEach({StartPlace(g) : g \in callee}), "Spawn")
         /\ IF callee = {}
              THEN UNCHANGED <<ordered, handle>>
              ELSE \E g \in callee :
                     /\ ordered' = Append(ordered, EndPlace(g))
                     /\ handle' = Extend([x \in {Here.dest} |-> EndPlace(g)], handle)
  /\ UNCHANGED <<ret, seg, capacity, marking>>
  /\ EndBlock

(* The ends a join takes: that of the handle, else the first recorded one,  *)
(* else those of the spawns the handle may alias (always so in a scope).    *)
Known(t) == t.api = "join" /\ t.args[1] \in DOMAIN handle
InOrder(t) == t.api = "join" /\ ~Known(t) /\ ordered # <<>>

JoinedEnds(t) ==
  IF Known(t) THEN {handle[t.args[1]]}
  ELSE IF InOrder(t) THEN {Head(ordered)}
  ELSE {EndPlace(g) : g \in prog.mayJoin[t.args[1]] \cap functions}

JoinCall ==
  /\ \/ AtCall("join")
     \/ AtCall("scopeJoin")
  /\ EmitCall(OneEach(JoinedEnds(Here)), None, "Join")
  /\ ordered' = IF InOrder(Here) THEN Tail(ordered) ELSE ordered
  /\ UNCHANGED <<ret, handle, seg, capacity, marking>>
  /\ EndBlock

(* The scope returns only after the thread has ended. *)
ScopeSpawnCall ==
  /\ AtCall("scopeSpawn")
  /\ LET callee == ClosureAt(Here, 2) \cap functions
         call == T(One(LastPlace), Target(Here) (+) OneEach({StartPlace(g) : g \in callee}),
                   "Function")
         ends == OneEach({EndPlace(g) : g \in callee})
     IN  trans' = Extend(
           IF ret THEN [trans EXCEPT ![ReturnId(fn)].in = @ (+) ends]
                  ELSE Extend(trans, [id \in {ReturnId(fn)} |-> T(ends, None, "Function")]),
           [id \in {<<fn, bb, "call", 0>>} |-> call])
  /\ ret' = TRUE
  /\ UNCHANGED <<ordered, handle, seg, capacity, marking>>
  /\ EndBlock

(* Both closures run; the call returns after both. *)
RayonJoinCall ==
  /\ AtCall("rayonJoin")
  /\ LET callees == ClosureArgs(Here) \cap functions
     IN  WaitRet(None, OneEach({StartPlace(g) : g \in callees}),
                 OneEach({EndPlace(g) : g \in callees}), "Function", "Join")

(* ordering_seg_arcs.  The segment advances in the order in which the       *)
(* operations are visited, once for all places the operation may access.    *)
Advances(x) == prog.segments /\ prog.order[x] # "Relaxed"

Synchronizes(x) == prog.segments /\ prog.order[x] = "SeqCst"

SegIn(x) ==
  IF prog.segments
    THEN OneEach({SegPlace(fn, seg)} \cup IF Synchronizes(x) THEN {SeqCstPlace(fn)} ELSE {})
    ELSE None

SegOut(x) ==
  IF prog.segments
    THEN OneEach({SegPlace(fn, IF Advances(x) THEN seg + 1 ELSE seg)}
                 \cup IF Synchronizes(x) THEN {SeqCstPlace(fn)} ELSE {})
    ELSE None

(* One transition for every place the operation may access. *)
AtomicCall ==
  /\ \/ AtCall("atomicLoad")
     \/ AtCall("atomicStore")
  /\ LET x == Here.args[1]
         operation == OperationPlace(fn, bb)
         seqCst == IF Synchronizes(x) THEN {SeqCstPlace(fn)} \ Place ELSE {}
         access(a) == T(One(operation) (+) One(AtomicPlace(a)) (+) SegIn(x),
                        Target(Here) (+) One(AtomicPlace(a)) (+) SegOut(x),
                        IF Here.api = "atomicLoad" THEN "AtomicLoad" ELSE "AtomicStore")
     IN  IF AtomicsOf(x) = {}
           THEN SimpleCall(None, None, "Function")
           ELSE /\ WithTokens({operation} \cup seqCst
                               \cup IF Advances(x) THEN {SegPlace(fn, seg + 1)} ELSE {}, seqCst)
                /\ trans' = Extend(trans,
                     [id \in {<<fn, bb, "call", 0>>} \cup {<<fn, bb, "atomic", a>> : a \in AtomicsOf(x)} |->
                        IF id[3] = "call" THEN T(One(LastPlace), One(operation), "Function")
                                          ELSE access(id[4])])
                /\ seg' = IF Advances(x) THEN seg + 1 ELSE seg
                /\ UNCHANGED <<ret, ordered, handle>>
                /\ EndBlock

PanicCall ==
  /\ AtCall("panic")
  /\ trans' = Extend(trans, [id \in {<<fn, bb, "call", 0>>} |->
                               T(One(LastPlace), One(MainEnd), "Function")])
  /\ UNCHANGED <<bodyVars, capacity, marking>>
  /\ EndBlock

(* A translated callee, else the first closure among the arguments, else    *)
(* nothing is called.                                                       *)
CalleeOf(t) ==
  IF t.callee \in functions THEN {t.callee}
  ELSE LET known == {i \in DOMAIN t.args : ClosureAt(t, i) \cap functions # {}}
       IN  IF known = {} THEN {} ELSE ClosureAt(t, Min(known))

NormalCall ==
  /\ AtCall("normal")
  /\ IF CalleeOf(Here) = {}
       THEN SimpleCall(None, None, "Function")
       ELSE LET ends == IF Here.targets = <<>> THEN {} ELSE {EndPlace(g) : g \in CalleeOf(Here)}
            IN  WaitRet(None, OneEach({StartPlace(g) : g \in CalleeOf(Here)}),
                        OneEach(ends), "Function", "Function")
-----------------------------------------------------------------------------
Call ==
  \/ DivergingCall \/ ConnectCall \/ LockCall \/ NotifyCall \/ WaitCall
  \/ DropCall \/ SendCall \/ RecvCall \/ SpawnCall \/ JoinCall
  \/ ScopeSpawnCall \/ RayonJoinCall \/ AtomicCall \/ PanicCall \/ NormalCall

Terminator ==
  \/ Goto \/ AssertGoto \/ Fallthrough \/ Terminal \/ Switch \/ Suspend \/ Return
  \/ Drop \/ Call

Translate ==
  \/ Construct \/ BeginBody \/ SkipBody \/ EndBody \/ Finish \/ SkipBlock
  \/ VisitStatements \/ StartBlock \/ Panic \/ Terminator
=============================================================================
