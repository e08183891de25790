----------------------- MODULE BodyToPetriNet_proofs -----------------------
(***************************************************************************)
(* Proofs about the translation of a program to a Petri net: where it may  *)
(* give up, and what net it builds, for every program of the kind below    *)
(* and whatever the channels and handles of a call may be.                 *)
(***************************************************************************)
EXTENDS BodyToPetriNet, Iteration

(* What MIR gives: a block that is reached by the edges of its function     *)
(* jumps to blocks that are reached.  An empty unreachable block is no      *)
(* target but of a switch or an imaginary edge.                             *)
JumpsLand ==
  \A f \in NodeFuncs : \A b \in BlocksOf(f) :
    ~Excluded(f, b) => \A c \in ExpectedBlocks(f, b) : ~Excluded(f, c)

Visiting == phase = "visit" /\ step # "body"

(* Where the visitor is. *)
VisitorPlaced ==
  /\ phase \in {"visit", "run", "panicked"} => functions = NodeFuncs \ prog.ignored
  /\ phase = "construct" => step = "body"
  /\ phase = "run" => step = "body"
  /\ step \in {"body", "stmts", "start", "term"}
  /\ step # "body" => node \in DOMAIN prog.nodes /\ bb \in Nat
  /\ step \in {"start", "term"} => bb \in BlocksOf(fn) /\ ~Excluded(fn, bb)
  /\ phase = "panicked" => step = "term" /\ ExpectFails

LEMMA PlacedInit == TransInit => VisitorPlaced
  BY DEF TransInit, VisitorPlaced

LEMMA PlacedKept ==
  ASSUME VisitorPlaced, Translate
  PROVE  VisitorPlaced' /\ prog' = prog
<1> USE DEF VisitorPlaced
<1>1. CASE Construct
  BY <1>1 DEF Construct, fn, NodeFuncs, Excluded, BlocksOf, Block, Term
<1>2. CASE BeginBody
  BY <1>2 DEF BeginBody, fn, NodeFuncs, Excluded, BlocksOf, Block, Term, WithTokens
<1>3. CASE SkipBody
  BY <1>3 DEF SkipBody, netVars, bodyVars, fn, NodeFuncs
<1>4. CASE EndBody
  BY <1>4 DEF EndBody, netVars, bodyVars, fn, NodeFuncs
<1>5. CASE Finish
  BY <1>5 DEF Finish, netVars, bodyVars, fn, NodeFuncs
<1>6. CASE SkipBlock
  BY <1>6 DEF SkipBlock, netVars, bodyVars, fn, NodeFuncs, BlocksOf
<1>7. CASE VisitStatements
  BY <1>7 DEF VisitStatements, netVars, fn, NodeFuncs, Excluded, BlocksOf, Block, Term
<1>8. CASE StartBlock
  BY <1>8 DEF StartBlock, netVars, bodyVars, fn, NodeFuncs, Excluded, BlocksOf, Block, Term
<1>9. CASE Panic
  BY <1>9 DEF Panic, netVars, bodyVars, fn, NodeFuncs, Excluded, BlocksOf, Block, Term,
             ExpectFails, ExpectedBlocks, Here, Suspends
<1>10. CASE Terminator
  <2>1. phase = "visit" /\ step = "term" /\ EndBlock
    BY <1>10 DEF Terminator, AtTerm, AtCall, Call, Goto, AssertGoto, Fallthrough, Terminal,
      Switch, Suspend, Return, Drop, DivergingCall, ConnectCall, LockCall, NotifyCall,
      WaitCall, DropCall, SendCall, RecvCall, SpawnCall, JoinCall, ScopeSpawnCall,
      RayonJoinCall, AtomicCall, PanicCall, NormalCall, SimpleCall, WaitRet
  <2> QED
    BY <2>1 DEF EndBlock, fn, NodeFuncs, BlocksOf
<1> QED
  BY <1>1, <1>2, <1>3, <1>4, <1>5, <1>6, <1>7, <1>8, <1>9, <1>10 DEF Translate

(* The translation gives up only at the return of an ignored function. *)
LEMMA PanicsAtIgnored ==
  ASSUME VisitorPlaced, JumpsLand, phase = "panicked"
  PROVE  fn \in prog.ignored
<1>1. fn \in NodeFuncs /\ bb \in BlocksOf(fn) /\ ~Excluded(fn, bb)
  BY DEF VisitorPlaced, fn, NodeFuncs
<1>2. \A c \in ExpectedBlocks(fn, bb) : ~Excluded(fn, c)
  BY <1>1 DEF JumpsLand
<1>3. fn \notin functions
  BY <1>2 DEF VisitorPlaced, ExpectFails
<1> QED
  BY <1>1, <1>3 DEF VisitorPlaced
-----------------------------------------------------------------------------
(* A block that has a place, unless its function is skipped. *)
HasPlace(f, b) == b \in BlocksOf(f) /\ ~Excluded(f, b)

(* The block ends the function, for good. *)
Returns(f, b) == HasPlace(f, b) /\ Term(f, b).op = "return" /\ ~Suspends(f, b)

Ops == {"goto", "assert", "fallthrough", "terminal", "switch", "return", "drop", "call"}

(* The programs whose nets are described: one return block a function, as   *)
(* rustc builds them, no scoped threads (they add to the return), and no    *)
(* memory orderings.  A body begins with a block.                           *)
Describable ==
  /\ ~prog.segments
  /\ prog.nodes \in Seq(NodeFuncs)
  /\ \A f \in NodeFuncs :
       /\ Len(prog.body[f]) \in Nat
       /\ HasPlace(f, 0)
       /\ \A b \in BlocksOf(f) :
            /\ Term(f, b).op \in Ops
            /\ Term(f, b).api \notin {"scopeSpawn", "scopeJoin"}
       /\ \A b, c \in BlocksOf(f) : Returns(f, b) /\ Returns(f, c) => b = c

(* A handle that is joined stands for the thread it really joins.           *)
HandlesFollowed ==
  AtCall("join") => JoinedEnds(Here) = {EndPlace(prog.thread[Here.args[1]])}

Accessed(f, b) == Term(f, b).op # "assert" /\ Merged(Block(f, b).accesses) # {}

(* Where the terminator of a block leaves from, and where it leads to. *)
Leaves(f, b) == IF Accessed(f, b) THEN ReadyPlace(f, b) ELSE BlockPlace(f, b)

Leads(f, t) == IF t.targets = <<>> THEN None ELSE One(BlockPlace(f, t.targets[1]))

Resumes(f, b) == {c \in Continuation(f, b) : ~Excluded(f, c)}

(* The call comes back by a transition of its own. *)
ComesBack(f, t) ==
  \/ Handler(f, t) \in {"wait", "rayonJoin"}
  \/ Handler(f, t) = "normal" /\ CalleeOf(t) # {}

OnAtomic(f, t) == Handler(f, t) \in {"atomicLoad", "atomicStore"} /\ AtomicsOf(t.args[1]) # {}

CallIds(f, b, t) ==
  IF Handler(f, t) = "unwind" THEN {<<f, b, "exit", 0>>}
  ELSE {<<f, b, "call", 0>>}
         \cup (IF ComesBack(f, t) THEN {<<f, b, "ret", 0>>} ELSE {})
         \cup (IF OnAtomic(f, t) THEN {<<f, b, "atomic", a>> : a \in AtomicsOf(t.args[1])} ELSE {})

TermIds(f, b) ==
  LET t == Term(f, b) IN
  CASE t.op = "return" /\ Suspends(f, b) -> IF Resumes(f, b) = {} THEN {} ELSE {<<f, b, "goto", 0>>}
    [] t.op = "return" /\ ~Suspends(f, b) -> {ReturnId(f)}
    [] t.op = "goto" -> IF Block(f, t.targets[1]).cleanup THEN {<<f, b, "exit", 0>>}
                                                          ELSE {<<f, b, "goto", 0>>}
    [] t.op = "assert" -> {<<f, b, "goto", 0>>}
    [] t.op = "fallthrough" -> IF Excluded(f, t.targets[1]) THEN {} ELSE {<<f, b, "goto", 0>>}
    [] t.op = "terminal" -> {<<f, b, "exit", 0>>}
    [] t.op = "switch" -> {<<f, b, "switch", i>> : i \in SwitchTargets(f, b)}
    [] t.op = "drop" -> {<<f, b, "drop", 0>>}
    [] t.op = "call" -> CallIds(f, b, t)

StmtIds(f, b) == IF Accessed(f, b) THEN {<<f, b, "unsafe", 0>>} ELSE {}
StartIds(f, b) == IF b = 0 THEN {<<f, 0, "start", 0>>} ELSE {}

(* The transitions of a block. *)
IdsOf(f, b) == StmtIds(f, b) \cup StartIds(f, b) \cup TermIds(f, b)

(* The places of the terminator of a block. *)
TermPlaces(f, b) ==
  LET t == Term(f, b) IN
  IF t.op # "call" THEN {}
  ELSE IF ComesBack(f, t) THEN {WaitPlace(f, b)}
  ELSE IF OnAtomic(f, t) THEN {OperationPlace(f, b)}
  ELSE {}
-----------------------------------------------------------------------------
(* The arcs of the transitions of a block, by what the transition is. *)

StartShape(f, tr) ==
  /\ tr.in = IF f \in functions THEN One(StartPlace(f)) ELSE None
  /\ tr.out = One(BlockPlace(f, 0))

AccessShape(f, b, tr) ==
  /\ tr.in = One(BlockPlace(f, b))
  /\ tr.out = One(ReadyPlace(f, b))
  /\ tr.ops = Merged(Block(f, b).accesses)

GotoShape(f, b, tr) ==
  /\ tr.in = One(Leaves(f, b))
  /\ tr.out = IF Term(f, b).op = "return" THEN OneEach({BlockPlace(f, c) : c \in Resumes(f, b)})
                                          ELSE Leads(f, Term(f, b))

SwitchShape(f, b, i, tr) ==
  /\ tr.in = One(Leaves(f, b))
  /\ tr.out = One(BlockPlace(f, Term(f, b).targets[i]))

DropShape(f, b, tr) ==
  /\ tr.in = One(Leaves(f, b))
  /\ tr.out = Leads(f, Term(f, b)) (+) Tokens(Term(f, b).args[1])

ExitShape(f, b, tr) ==
  /\ tr.in = One(Leaves(f, b))
  /\ tr.out = One(MainEnd)

ReturnShape(f, tr) ==
  \A b \in BlocksOf(f) :
    Returns(f, b) => tr.in = One(Leaves(f, b)) /\ tr.out = One(EndPlace(f))

Starts(fs) == OneEach({StartPlace(g) : g \in fs})
Ends(fs) == OneEach({EndPlace(g) : g \in fs})
Channels(t) == {One(ChannelPlace(c)) : c \in ChannelsOf(t)}
Condvars(t) == {None} \cup {One(CondvarPlace(c)) : c \in CondvarsOf(t)}
WaitLock(t) == One(LockPlace(prog.guard[t.args[2]].lock))

(* What a call may take besides the token of the block. *)
CallTakes(f, t) ==
  CASE Handler(f, t) = "lock" -> {Tokens(t.dest)}
    [] Handler(f, t) = "recv" -> Channels(t)
    [] Handler(f, t) = "join" -> {One(EndPlace(prog.thread[t.args[1]]))}
    [] OTHER -> {None}

(* What it may put besides the token of the place it leads to. *)
CallPuts(f, t) ==
  CASE Handler(f, t) = "notify" -> Condvars(t)
    [] Handler(f, t) = "wait" -> {WaitLock(t)}
    [] Handler(f, t) = "drop" -> {Tokens(t.args[1])}
    [] Handler(f, t) = "send" -> Channels(t)
    [] Handler(f, t) = "spawn" -> {Starts(ClosureAt(t, 1) \cap functions)}
    [] Handler(f, t) = "rayonJoin" -> {Starts(ClosureArgs(t) \cap functions)}
    [] Handler(f, t) = "normal" /\ CalleeOf(t) # {} -> {Starts(CalleeOf(t))}
    [] OTHER -> {None}

CallShape(f, b, tr) ==
  LET t == Term(f, b) IN
  IF OnAtomic(f, t) THEN tr.in = One(Leaves(f, b)) /\ tr.out = One(OperationPlace(f, b))
  ELSE IF Handler(f, t) = "panic" THEN tr.in = One(Leaves(f, b)) /\ tr.out = One(MainEnd)
  ELSE \E takes \in CallTakes(f, t), puts \in CallPuts(f, t) :
         /\ Handler(f, t) = "wait" => IsGuard(t.args[2])
         /\ tr.in = One(Leaves(f, b)) (+) takes
         /\ tr.out = IF ComesBack(f, t) THEN One(WaitPlace(f, b)) (+) puts
                                        ELSE puts (+) Leads(f, t)

(* What the return of a call takes besides the token of the wait place. *)
RetTakes(f, t) ==
  CASE Handler(f, t) = "wait" ->
         WaitLock(t) (+) OneEach({CondvarPlace(c) : c \in CondvarsOf(t)})
    [] Handler(f, t) = "rayonJoin" -> Ends(ClosureArgs(t) \cap functions)
    [] Handler(f, t) = "normal" -> Ends(IF t.targets = <<>> THEN {} ELSE CalleeOf(t))

RetShape(f, b, tr) ==
  /\ tr.in = One(WaitPlace(f, b)) (+) RetTakes(f, Term(f, b))
  /\ tr.out = Leads(f, Term(f, b))

AtomicShape(f, b, a, tr) ==
  /\ tr.in = (One(OperationPlace(f, b)) (+) One(AtomicPlace(a))) (+) None
  /\ tr.out = (Leads(f, Term(f, b)) (+) One(AtomicPlace(a))) (+) None

Shape(id, tr) ==
  /\ id[3] = "start" => StartShape(id[1], tr)
  /\ id[3] = "unsafe" => AccessShape(id[1], id[2], tr)
  /\ id[3] = "goto" => GotoShape(id[1], id[2], tr)
  /\ id[3] = "switch" => SwitchShape(id[1], id[2], id[4], tr)
  /\ id[3] = "drop" => DropShape(id[1], id[2], tr)
  /\ id[3] = "exit" => ExitShape(id[1], id[2], tr)
  /\ id[3] = "return" => ReturnShape(id[1], tr)
  /\ id[3] = "call" => CallShape(id[1], id[2], tr)
  /\ id[3] = "ret" => RetShape(id[1], id[2], tr)
  /\ id[3] = "atomic" => AtomicShape(id[1], id[2], id[4], tr)
  /\ tr.type = "UnsafeAccess" <=> id[3] = "unsafe"
-----------------------------------------------------------------------------
(* How far the translation has come. *)
Begun(f) == f \in seen \ prog.serde

Done(f, b) == Begun(f) /\ HasPlace(f, b) /\ (step # "body" /\ f = fn => b < bb)

(* What there is of the block that is being visited. *)
Current ==
  (IF step \in {"start", "term"} THEN StmtIds(fn, bb) ELSE {})
    \cup (IF step = "term" THEN StartIds(fn, bb) ELSE {})

SeenInOrder ==
  /\ seen \subseteq NodeFuncs
  /\ node \in Nat /\ node >= 1
  /\ \A i \in DOMAIN prog.nodes : i < node => prog.nodes[i] \in seen
  /\ step # "body" => Begun(fn)
  /\ step = "start" => bb = 0
  /\ phase = "run" => NodeFuncs \subseteq seen
  /\ step # "body" => (ret <=> \E b \in BlocksOf(fn) : b < bb /\ Returns(fn, b))

TransitionsDone ==
  /\ \A id \in DOMAIN trans :
       /\ id \in Current \/ \E f \in NodeFuncs : \E b \in BlocksOf(f) : Done(f, b) /\ id \in IdsOf(f, b)
       /\ Shape(id, trans[id])
  /\ Current \subseteq DOMAIN trans
  /\ \A f \in NodeFuncs : \A b \in BlocksOf(f) : Done(f, b) => IdsOf(f, b) \subseteq DOMAIN trans

(* Places by what they hold when the program starts, and at most. *)
CapacityOf(p) ==
  IF p[1] = "lock" THEN LockCapacity(p[2])
  ELSE IF p[1] = "channel" THEN ChannelCapacity ELSE 1

TokensAtStart(p) ==
  IF p[1] = "lock" THEN LockCapacity(p[2])
  ELSE IF p[1] \in {"condvar", "atomic"} \/ p = StartPlace(prog.main) THEN 1 ELSE 0

SharedPlaces ==
  {LockPlace(l) : l \in Locks}
    \cup {CondvarPlace(c) : c \in UNION Range(prog.condvar)}
    \cup {AtomicPlace(a) : a \in UNION Range(prog.atomic)}
    \cup {ChannelPlace(c) : c \in UNION Range(prog.channel)}
    \cup UNION {{StartPlace(f), EndPlace(f)} : f \in functions}

PlacesDone ==
  /\ DOMAIN marking = Place
  /\ marking = [p \in Place |-> marking[p]]
  /\ \A p \in Place : capacity[p] = CapacityOf(p)
  /\ phase = "visit" => \A p \in Place : marking[p] = TokensAtStart(p)
  /\ SharedPlaces \subseteq Place
  /\ \A f \in NodeFuncs : \A b \in BlocksOf(f) :
       /\ Begun(f) /\ HasPlace(f, b) => BlockPlace(f, b) \in Place
       /\ Done(f, b) => TermPlaces(f, b) \subseteq Place
       /\ ReadyPlace(f, b) \in Place =>
            /\ Accessed(f, b)
            /\ Done(f, b) \/ (step \in {"start", "term"} /\ f = fn /\ b = bb)
       /\ Accessed(f, b) /\ Done(f, b) => ReadyPlace(f, b) \in Place
  /\ step \in {"start", "term"} /\ Accessed(fn, bb) => ReadyPlace(fn, bb) \in Place

NothingBuilt ==
  /\ capacity = <<>> /\ marking = <<>> /\ trans = <<>>
  /\ seen = {} /\ node = 1 /\ step = "body"

BuildInv ==
  /\ VisitorPlaced
  /\ phase = "construct" => NothingBuilt
  /\ phase \in {"visit", "run"} => SeenInOrder /\ TransitionsDone /\ PlacesDone
-----------------------------------------------------------------------------
LEMMA Extending ==
  ASSUME NEW f, NEW g
  PROVE  /\ DOMAIN Extend(f, g) = DOMAIN f \cup DOMAIN g
         /\ Extend(f, g) = [x \in DOMAIN f \cup DOMAIN g |-> Extend(f, g)[x]]
         /\ \A x \in DOMAIN f : Extend(f, g)[x] = f[x]
         /\ \A x \in DOMAIN g : x \notin DOMAIN f => Extend(f, g)[x] = g[x]
  BY DEF Extend

(* What is said of a block depends on the program and on which functions    *)
(* have places, and so never changes.                                       *)
LEMMA StaticBlocks ==
  ASSUME prog' = prog, functions' = functions
  PROVE  /\ NodeFuncs' = NodeFuncs
         /\ \A f : BlocksOf(f)' = BlocksOf(f)
         /\ \A f, b : HasPlace(f, b)' = HasPlace(f, b)
         /\ \A f, b : Returns(f, b)' = Returns(f, b)
         /\ \A f, b : Accessed(f, b)' = Accessed(f, b)
         /\ \A f, b : Excluded(f, b)' = Excluded(f, b)
         /\ SharedPlaces' = SharedPlaces
         /\ \A p : CapacityOf(p)' = CapacityOf(p)
         /\ \A p : TokensAtStart(p)' = TokensAtStart(p)
  BY SMT DEF NodeFuncs, BlocksOf, HasPlace, Returns, Accessed, Excluded, Term, Block, Suspends,
    Merged, SharedPlaces, CapacityOf, TokensAtStart, Locks, LockPlace, CondvarPlace, AtomicPlace,
    ChannelPlace, StartPlace, EndPlace, LockCapacity, ChannelCapacity, RwLockCapacity, Range

LEMMA StaticIds ==
  ASSUME prog' = prog, functions' = functions
  PROVE  \A f, b : /\ StmtIds(f, b)' = StmtIds(f, b)
                   /\ StartIds(f, b)' = StartIds(f, b)
                   /\ TermIds(f, b)' = TermIds(f, b)
                   /\ IdsOf(f, b)' = IdsOf(f, b)
                   /\ TermPlaces(f, b)' = TermPlaces(f, b)
<1>1. ASSUME NEW f, NEW b
      PROVE  /\ StmtIds(f, b)' = StmtIds(f, b)
             /\ StartIds(f, b)' = StartIds(f, b)
  BY SMT DEF StmtIds, StartIds, Accessed, Block, Term, Merged
<1>2. ASSUME NEW f, NEW b
      PROVE  TermIds(f, b)' = TermIds(f, b)
  BY SMT DEF TermIds, CallIds, Resumes, Continuation, Others, Least, Block, Term,
    BlocksOf, Suspends, Excluded, ReturnId, SwitchTargets, Handler, Acquires, IsGuard, Recognised,
    ChannelsOf, CalleeOf, ClosureAt, Min, ComesBack, OnAtomic, AtomicsOf
<1>3. ASSUME NEW f, NEW b
      PROVE  TermPlaces(f, b)' = TermPlaces(f, b)
  BY SMT DEF TermPlaces, Block, Term, Handler, Acquires, IsGuard, Recognised,
    ChannelsOf, CalleeOf, ClosureAt, Min, ComesBack, OnAtomic, AtomicsOf, WaitPlace, OperationPlace
<1> QED
  BY <1>1, <1>2, <1>3 DEF IdsOf

LEMMA StaticShape ==
  ASSUME prog' = prog, functions' = functions
  PROVE  \A id, tr : Shape(id, tr)' = Shape(id, tr)
<1> SUFFICES ASSUME NEW id, NEW tr
             PROVE  Shape(id, tr)' = Shape(id, tr)
  OBVIOUS
<1>1. Leaves(id[1], id[2])' = Leaves(id[1], id[2])
  BY SMT DEF Leaves, Accessed, Block, Term, Merged, ReadyPlace, BlockPlace
<1>2. Leads(id[1], Term(id[1], id[2]))' = Leads(id[1], Term(id[1], id[2]))
  BY SMT DEF Leads, Block, Term, BlockPlace, None, One
<1>3. Term(id[1], id[2])' = Term(id[1], id[2]) /\ Block(id[1], id[2])' = Block(id[1], id[2])
  BY DEF Term, Block
<1>4. Resumes(id[1], id[2])' = Resumes(id[1], id[2])
  BY SMT DEF Resumes, Continuation, Others, Least, Block, Term, BlocksOf, Excluded
<1>5. \A t : Handler(id[1], t)' = Handler(id[1], t) /\ CalleeOf(t)' = CalleeOf(t)
             /\ OnAtomic(id[1], t)' = OnAtomic(id[1], t) /\ ComesBack(id[1], t)' = ComesBack(id[1], t)
  BY SMT DEF Handler, Acquires, IsGuard, Recognised, ChannelsOf, CalleeOf, ClosureAt, Min,
    ComesBack, OnAtomic, AtomicsOf, Block
<1>a. /\ \A t : WaitLock(t)' = WaitLock(t) /\ Tokens(t.dest)' = Tokens(t.dest)
      /\ \A t : Tokens(t.args[1])' = Tokens(t.args[1])
  BY SMT DEF WaitLock, Tokens, IsGuard, Times, LockPlace, Weight, RwLockCapacity, None, One
<1>b. \A t : /\ ChannelsOf(t)' = ChannelsOf(t)
             /\ CondvarsOf(t)' = CondvarsOf(t)
             /\ ClosureAt(t, 1)' = ClosureAt(t, 1)
             /\ ClosureArgs(t)' = ClosureArgs(t)
  BY SMT DEF ChannelsOf, CondvarsOf, ClosureAt, ClosureArgs
<1>6. ASSUME NEW t PROVE CallTakes(id[1], t)' = CallTakes(id[1], t)
  <2>1. Channels(t)' = Channels(t) /\ One(EndPlace(prog.thread[t.args[1]]))' = One(EndPlace(prog.thread[t.args[1]]))
    BY <1>b DEF Channels, One, ChannelPlace, EndPlace
  <2> QED
    BY <1>5, <1>a, <2>1 DEF CallTakes, None
<1>7. ASSUME NEW t PROVE CallPuts(id[1], t)' = CallPuts(id[1], t)
  <2>1. Channels(t)' = Channels(t) /\ Condvars(t)' = Condvars(t)
    BY <1>b DEF Channels, Condvars, One, None, ChannelPlace, CondvarPlace
  <2>2. /\ Starts(ClosureAt(t, 1) \cap functions)' = Starts(ClosureAt(t, 1) \cap functions)
        /\ Starts(ClosureArgs(t) \cap functions)' = Starts(ClosureArgs(t) \cap functions)
        /\ Starts(CalleeOf(t))' = Starts(CalleeOf(t))
    BY <1>b, <1>5
  <2>3. /\ WaitLock(t)' = WaitLock(t) /\ None' = None
        /\ Tokens(t.args[1])' = Tokens(t.args[1])
        /\ Handler(id[1], t)' = Handler(id[1], t)
        /\ CalleeOf(t)' = CalleeOf(t)
    BY <1>5, <1>a DEF None
  <2>4. CASE Handler(id[1], t) \in {"notify", "wait", "drop", "send"}
    BY <2>1, <2>3, <2>4 DEF CallPuts
  <2>5. CASE Handler(id[1], t) \in {"spawn", "rayonJoin", "normal"}
    BY <2>2, <2>3, <2>5 DEF CallPuts
  <2>6. CASE Handler(id[1], t) \notin {"notify", "wait", "drop", "send", "spawn", "rayonJoin", "normal"}
    BY <2>3, <2>6 DEF CallPuts
  <2> QED
    BY <2>4, <2>5, <2>6
<1>8. ASSUME NEW t PROVE RetTakes(id[1], t)' = RetTakes(id[1], t)
  <2>1. /\ OneEach({CondvarPlace(c) : c \in CondvarsOf(t)})' = OneEach({CondvarPlace(c) : c \in CondvarsOf(t)})
        /\ Ends(ClosureArgs(t) \cap functions)' = Ends(ClosureArgs(t) \cap functions)
        /\ Ends(IF t.targets = <<>> THEN {} ELSE CalleeOf(t))' = Ends(IF t.targets = <<>> THEN {} ELSE CalleeOf(t))
    BY <1>b, <1>5 DEF OneEach, CondvarPlace
  <2> QED
    BY <1>5, <1>a, <2>1 DEF RetTakes
<1>9. CallShape(id[1], id[2], tr)' = CallShape(id[1], id[2], tr)
  BY <1>1, <1>2, <1>3, <1>5, <1>6, <1>7 DEF CallShape, OperationPlace, MainEnd, EndPlace,
    WaitPlace, One, IsGuard
<1>10. RetShape(id[1], id[2], tr)' = RetShape(id[1], id[2], tr)
  BY <1>2, <1>3, <1>8 DEF RetShape, WaitPlace, One
<1>11. AtomicShape(id[1], id[2], id[4], tr)' = AtomicShape(id[1], id[2], id[4], tr)
  BY <1>2, <1>3 DEF AtomicShape, OperationPlace, AtomicPlace, One, None
<1>12. ReturnShape(id[1], tr)' = ReturnShape(id[1], tr)
  <2>1. \A b : Leaves(id[1], b)' = Leaves(id[1], b)
    BY StaticBlocks DEF Leaves, ReadyPlace, BlockPlace
  <2> QED
    BY <2>1, StaticBlocks DEF ReturnShape, EndPlace, One
<1>13. /\ StartShape(id[1], tr)' = StartShape(id[1], tr)
       /\ AccessShape(id[1], id[2], tr)' = AccessShape(id[1], id[2], tr)
  BY <1>3 DEF StartShape, AccessShape, StartPlace, BlockPlace, ReadyPlace, One, None, Merged
<1>14. /\ GotoShape(id[1], id[2], tr)' = GotoShape(id[1], id[2], tr)
       /\ SwitchShape(id[1], id[2], id[4], tr)' = SwitchShape(id[1], id[2], id[4], tr)
       /\ ExitShape(id[1], id[2], tr)' = ExitShape(id[1], id[2], tr)
  BY <1>1, <1>2, <1>3, <1>4 DEF GotoShape, SwitchShape, ExitShape, BlockPlace, One, OneEach,
    MainEnd, EndPlace
<1>15. DropShape(id[1], id[2], tr)' = DropShape(id[1], id[2], tr)
  BY <1>1, <1>2, <1>3 DEF DropShape, Tokens, IsGuard, Times, LockPlace, Weight, RwLockCapacity, None
<1> QED
  BY <1>9, <1>10, <1>11, <1>12, <1>13, <1>14, <1>15 DEF Shape
-----------------------------------------------------------------------------
LEMMA NodesInOrder ==
  ASSUME Describable
  PROVE  \E n \in Nat : DOMAIN prog.nodes = 1 .. n
  BY DEF Describable

LEMMA BuildInit == TransInit => BuildInv
  BY PlacedInit DEF TransInit, BuildInv, NothingBuilt

LEMMA BuildConstruct ==
  ASSUME BuildInv, Construct
  PROVE  BuildInv'
<1> USE DEF Construct
<1>1. VisitorPlaced' /\ phase' = "visit" /\ prog' = prog
  BY PlacedKept DEF BuildInv, Translate
<1>2. seen' = {} /\ node' = 1 /\ step' = "body" /\ trans' = <<>>
  BY DEF BuildInv, NothingBuilt
<1>3. SeenInOrder'
  BY <1>1, <1>2 DEF SeenInOrder
<1>4. TransitionsDone'
  BY <1>1, <1>2 DEF TransitionsDone, Current, Done, Begun
<1>5. PlacesDone'
  <2> DEFINE funcs == UNION {{StartPlace(f), EndPlace(f)} : f \in functions'}
             locks == {LockPlace(l) : l \in Locks}
             ones == {CondvarPlace(c) : c \in UNION Range(prog.condvar)}
                       \cup {AtomicPlace(a) : a \in UNION Range(prog.atomic)}
             chans == {ChannelPlace(c) : c \in UNION Range(prog.channel)}
             all == funcs \cup locks \cup ones \cup chans
  <2>1. /\ capacity' = [p \in all |-> IF p \in locks THEN LockCapacity(p[2])
                                      ELSE IF p \in chans THEN ChannelCapacity ELSE 1]
        /\ marking' = [p \in all |-> IF p \in locks THEN LockCapacity(p[2])
                                     ELSE IF p \in ones \cup {StartPlace(prog.main)} THEN 1 ELSE 0]
    OBVIOUS
  <2>2. /\ \A p \in locks : p[1] = "lock"
        /\ \A p \in chans : p[1] = "channel"
        /\ \A p \in ones : p[1] \in {"condvar", "atomic"}
        /\ \A p \in funcs : p[1] \in {"start", "end"}
    BY DEF LockPlace, ChannelPlace, CondvarPlace, AtomicPlace, StartPlace, EndPlace
  <2>3. SharedPlaces' = all
    BY <1>1 DEF SharedPlaces, Locks, LockPlace, ChannelPlace, CondvarPlace, AtomicPlace,
      StartPlace, EndPlace, Range
  <2>4. /\ \A p : CapacityOf(p)' = CapacityOf(p)
        /\ \A p : TokensAtStart(p)' = TokensAtStart(p)
    BY <1>1, SMT DEF CapacityOf, TokensAtStart, LockCapacity, ChannelCapacity, RwLockCapacity, StartPlace
  <2>5. \A f, b : ReadyPlace(f, b) \notin all
    BY <2>2 DEF ReadyPlace
  <2>6. Place' = all /\ DOMAIN marking' = all /\ marking' = [p \in all |-> marking'[p]]
    BY <2>1 DEF Place
  <2>7. \A p \in all : capacity'[p] = CapacityOf(p)
    BY <2>1, <2>2 DEF CapacityOf
  <2>8. \A p \in all : marking'[p] = TokensAtStart(p)
    BY <2>1, <2>2 DEF TokensAtStart, StartPlace
  <2> HIDE DEF all
  <2>9. \A f, b : ~Begun(f)' /\ ~Done(f, b)'
    BY <1>2 DEF Done, Begun
  <2> QED
    BY <1>1, <1>2, <2>3, <2>4, <2>5, <2>6, <2>7, <2>8, <2>9 DEF PlacesDone, ReadyPlace
<1> QED
  BY <1>1, <1>3, <1>4, <1>5 DEF BuildInv

(* Steps that only move the visitor on: the same blocks are done, or those  *)
(* that are done in addition have nothing to add.                           *)
LEMMA BuildMoves ==
  ASSUME BuildInv, phase = "visit", VisitorPlaced', prog' = prog, functions' = functions,
         phase' \in {"visit", "run"}, UNCHANGED netVars, SeenInOrder',
         \A f \in NodeFuncs : \A b \in BlocksOf(f) : Done(f, b)' <=> Done(f, b),
         \A f \in NodeFuncs : Begun(f)' <=> Begun(f),
         step \in {"body", "stmts"}, step' \in {"body", "stmts"}
  PROVE  BuildInv'
<1> USE StaticBlocks, StaticIds, StaticShape DEF BuildInv
<1>1. Current' = {} /\ Current = {}
  BY DEF Current
<1>2. TransitionsDone'
  BY <1>1 DEF TransitionsDone, netVars
<1>3. PlacesDone'
  BY DEF PlacesDone, netVars, Place, ReadyPlace, BlockPlace
<1> QED
  BY <1>2, <1>3

LEMMA BuildSkipBody ==
  ASSUME BuildInv, SkipBody, Describable
  PROVE  BuildInv'
<1>1. VisitorPlaced' /\ phase' = "visit" /\ prog' = prog /\ functions' = functions
      /\ phase = "visit" /\ step = "body" /\ step' = "body" /\ UNCHANGED netVars
  BY PlacedKept DEF BuildInv, Translate, SkipBody, netVars
<1>2. SeenInOrder'
  BY <1>1, NodesInOrder DEF BuildInv, SkipBody, SeenInOrder, fn, NodeFuncs
<1>3. \A f : Begun(f)' <=> Begun(f)
  BY <1>1 DEF SkipBody, Begun
<1>4. \A f, b : Done(f, b)' <=> Done(f, b)
  BY <1>1, <1>3, StaticBlocks DEF Done
<1> QED
  BY <1>1, <1>2, <1>3, <1>4, BuildMoves

LEMMA BuildEndBody ==
  ASSUME BuildInv, EndBody, Describable
  PROVE  BuildInv'
<1>1. VisitorPlaced' /\ phase' = "visit" /\ prog' = prog /\ functions' = functions
      /\ phase = "visit" /\ step = "stmts" /\ step' = "body" /\ UNCHANGED netVars
      /\ fn \in NodeFuncs
  BY PlacedKept DEF BuildInv, VisitorPlaced, Translate, EndBody, netVars, fn, NodeFuncs
<1>2. SeenInOrder'
  BY <1>1, NodesInOrder DEF BuildInv, EndBody, SeenInOrder, fn, NodeFuncs, Begun
<1>3. \A f : Begun(f)' <=> Begun(f)
  BY <1>1 DEF EndBody, Begun
<1>4. \A b : HasPlace(fn, b) => b < bb
  BY <1>1 DEF EndBody, BuildInv, VisitorPlaced, HasPlace, BlocksOf, Describable
<1>5. \A f, b : Done(f, b)' <=> Done(f, b)
  BY <1>1, <1>3, <1>4, StaticBlocks DEF Done
<1> QED
  BY <1>1, <1>2, <1>3, <1>5, BuildMoves

LEMMA BuildFinish ==
  ASSUME BuildInv, Finish, Describable
  PROVE  BuildInv'
<1>1. VisitorPlaced' /\ phase' = "run" /\ prog' = prog /\ functions' = functions
      /\ phase = "visit" /\ step = "body" /\ step' = "body" /\ UNCHANGED netVars
  BY PlacedKept DEF BuildInv, VisitorPlaced, Translate, Finish, netVars
<1>2. SeenInOrder'
  BY <1>1, NodesInOrder DEF BuildInv, Finish, SeenInOrder, NodeFuncs
<1>3. \A f : Begun(f)' <=> Begun(f)
  BY <1>1 DEF Finish, Begun
<1>4. \A f, b : Done(f, b)' <=> Done(f, b)
  BY <1>1, <1>3, StaticBlocks DEF Done
<1> QED
  BY <1>1, <1>2, <1>3, <1>4, BuildMoves

LEMMA BuildSkipBlock ==
  ASSUME BuildInv, SkipBlock
  PROVE  BuildInv'
<1>1. VisitorPlaced' /\ phase' = "visit" /\ prog' = prog /\ functions' = functions
      /\ phase = "visit" /\ step = "stmts" /\ step' = "stmts" /\ UNCHANGED netVars
      /\ fn' = fn /\ bb \in Nat /\ bb' = bb + 1 /\ seen' = seen
  BY PlacedKept DEF BuildInv, VisitorPlaced, Translate, SkipBlock, netVars, fn
<1>2. ~HasPlace(fn, bb) /\ ~Returns(fn, bb)
  BY DEF SkipBlock, HasPlace, Returns
<1>3. \A b \in BlocksOf(fn) : b < bb + 1 <=> b < bb \/ b = bb
  BY <1>1 DEF BlocksOf
<1>4. SeenInOrder'
  BY <1>1, <1>2, <1>3, StaticBlocks DEF BuildInv, SkipBlock, SeenInOrder, NodeFuncs, bodyVars, Begun
<1>5. \A f : Begun(f)' <=> Begun(f)
  BY <1>1 DEF Begun
<1>6. \A f : \A b \in BlocksOf(f) : Done(f, b)' <=> Done(f, b)
  BY <1>1, <1>2, <1>3, <1>5, StaticBlocks DEF Done, HasPlace
<1> QED
  BY <1>1, <1>4, <1>5, <1>6, BuildMoves

LEMMA Marked ==
  ASSUME NEW ps, NEW marked, WithTokens(ps, marked), PlacesDone
  PROVE  /\ Place' = Place \cup ps
         /\ DOMAIN marking' = Place'
         /\ marking' = [p \in Place' |-> marking'[p]]
         /\ \A p \in Place : capacity'[p] = capacity[p] /\ marking'[p] = marking[p]
         /\ \A p \in ps \ Place :
              /\ capacity'[p] = 1
              /\ marking'[p] = IF p \in marked THEN 1 ELSE 0
<1> DEFINE c == [p \in ps |-> 1]
           m == [p \in ps |-> IF p \in marked THEN 1 ELSE 0]
<1>1. capacity' = Extend(capacity, c) /\ marking' = Extend(marking, m)
  BY DEF WithTokens
<1>2. DOMAIN marking = Place /\ DOMAIN capacity = Place
  BY DEF PlacesDone, Place
<1>3. DOMAIN c = ps /\ DOMAIN m = ps
  OBVIOUS
<1>4. /\ \A p \in ps : c[p] = 1
      /\ \A p \in ps : m[p] = IF p \in marked THEN 1 ELSE 0
  OBVIOUS
<1> HIDE DEF c, m
<1>5. DOMAIN capacity' = Place \cup ps /\ DOMAIN marking' = Place \cup ps
  BY <1>1, <1>2, <1>3 DEF Extend
<1>6. marking' = [p \in Place \cup ps |-> marking'[p]]
  BY <1>1, <1>2, <1>3 DEF Extend
<1>7. \A p \in Place : capacity'[p] = capacity[p] /\ marking'[p] = marking[p]
  BY <1>1, <1>2, <1>3 DEF Extend
<1>8. \A p \in ps \ Place :
        /\ capacity'[p] = 1
        /\ marking'[p] = IF p \in marked THEN 1 ELSE 0
  BY <1>1, <1>2, <1>3, <1>4 DEF Extend
<1> QED
  BY <1>5, <1>6, <1>7, <1>8 DEF Place

LEMMA BuildBeginBody ==
  ASSUME BuildInv, BeginBody, Describable
  PROVE  BuildInv'
<1> DEFINE blocks == {BlockPlace(fn, b) : b \in {c \in BlocksOf(fn) : ~Excluded(fn, c)}}
<1>1. VisitorPlaced' /\ phase' = "visit" /\ prog' = prog /\ functions' = functions
      /\ phase = "visit" /\ step = "body" /\ step' = "stmts" /\ trans' = trans
      /\ fn' = fn /\ fn \in NodeFuncs /\ fn \notin seen \cup prog.serde /\ seen' = seen \cup {fn}
      /\ bb' = 0 /\ node' = node /\ ret' = FALSE
  BY PlacedKept DEF BuildInv, VisitorPlaced, Translate, BeginBody, fn, NodeFuncs
<1>2. SeenInOrder /\ TransitionsDone /\ PlacesDone
  BY <1>1 DEF BuildInv
<1>3. WithTokens(blocks, {})
  BY DEF BeginBody, Describable
<1>4. SeenInOrder'
  <2>1. Begun(fn)'
    BY <1>1 DEF Begun
  <2>2. ~(\E b \in BlocksOf(fn) : b < 0 /\ Returns(fn, b))'
    BY <1>1, StaticBlocks DEF BlocksOf
  <2> QED
    BY <1>1, <1>2, <2>1, <2>2, StaticBlocks DEF SeenInOrder
<1>5. \A f : Begun(f)' <=> Begun(f) \/ f = fn
  BY <1>1 DEF Begun
<1>6. ~Begun(fn) /\ \A b : ~Done(fn, b)
  BY <1>1 DEF Begun, Done
<1>7. \A f : \A b \in BlocksOf(f) : Done(f, b)' <=> Done(f, b)
  BY <1>1, <1>5, <1>6, StaticBlocks DEF Done, BlocksOf
<1>8. TransitionsDone'
  <2>1. Current' = {} /\ Current = {}
    BY <1>1 DEF Current
  <2> QED
    BY <1>1, <1>2, <1>7, <2>1, StaticBlocks, StaticIds, StaticShape DEF TransitionsDone
<1>9. PlacesDone'
  <2>1. \A p \in blocks : p[1] = "bb" /\ CapacityOf(p) = 1 /\ TokensAtStart(p) = 0
    BY DEF BlockPlace, CapacityOf, TokensAtStart, StartPlace
  <2>2. \A f, b : ReadyPlace(f, b)' = ReadyPlace(f, b) /\ BlockPlace(f, b)' = BlockPlace(f, b)
                   /\ ReadyPlace(f, b) \notin blocks
    BY <2>1 DEF ReadyPlace, BlockPlace
  <2>3. \A b : HasPlace(fn, b) => BlockPlace(fn, b) \in blocks
    BY DEF HasPlace
  <2> HIDE DEF blocks
  <2>4. /\ Place' = Place \cup blocks
        /\ DOMAIN marking' = Place'
        /\ marking' = [p \in Place' |-> marking'[p]]
        /\ \A p \in Place : capacity'[p] = capacity[p] /\ marking'[p] = marking[p]
        /\ \A p \in blocks \ Place : capacity'[p] = 1 /\ marking'[p] = 0
    BY <1>2, <1>3, Marked
  <2> QED
    BY <1>1, <1>2, <1>5, <1>7, <2>1, <2>2, <2>3, <2>4, StaticBlocks, StaticIds DEF PlacesDone
<1> QED
  BY <1>1, <1>4, <1>8, <1>9 DEF BuildInv

(* Transitions are named after their block, but for the return, of which a  *)
(* function has one.                                                        *)
LEMMA IdsNamed ==
  ASSUME Describable, NEW f \in NodeFuncs, NEW b \in BlocksOf(f), HasPlace(f, b),
         NEW id \in IdsOf(f, b)
  PROVE  /\ id[1] = f
         /\ id[3] = "return" => Returns(f, b)
         /\ id[3] # "return" => id[2] = b
<1>1. CASE id \in StmtIds(f, b)
  BY <1>1 DEF StmtIds
<1>2. CASE id \in StartIds(f, b)
  BY <1>2 DEF StartIds
<1>3. CASE id \in TermIds(f, b)
  <2>1. Term(f, b).op \in Ops
    BY DEF Describable
  <2>2. CASE Term(f, b).op = "call"
    BY <1>3, <2>2 DEF TermIds, CallIds
  <2>3. CASE Term(f, b).op = "return"
    BY <1>3, <2>3 DEF TermIds, ReturnId, Returns
  <2>4. CASE Term(f, b).op = "switch"
    BY <1>3, <2>4 DEF TermIds
  <2>5. CASE Term(f, b).op \in Ops \ {"call", "return", "switch"}
    BY <1>3, <2>5 DEF TermIds, Ops
  <2> QED
    BY <2>1, <2>2, <2>3, <2>4, <2>5
<1> QED
  BY <1>1, <1>2, <1>3 DEF IdsOf

LEMMA Kinds ==
  ASSUME Describable, NEW f \in NodeFuncs, NEW b \in BlocksOf(f), NEW id \in TermIds(f, b)
  PROVE  id[3] \notin {"unsafe", "start"}
<1>1. Term(f, b).op \in Ops
  BY DEF Describable
<1>2. CASE Term(f, b).op = "call"
  BY <1>2 DEF TermIds, CallIds
<1>3. CASE Term(f, b).op = "return"
  BY <1>3 DEF TermIds, ReturnId
<1>4. CASE Term(f, b).op = "switch"
  BY <1>4 DEF TermIds
<1>5. CASE Term(f, b).op \in Ops \ {"call", "return", "switch"}
  BY <1>5 DEF TermIds, Ops
<1> QED
  BY <1>1, <1>2, <1>3, <1>4, <1>5

(* What a block still has to add is new. *)
LEMMA Fresh ==
  ASSUME BuildInv, Describable, phase = "visit", step # "body", bb \in BlocksOf(fn),
         ~Excluded(fn, bb), NEW id \in IdsOf(fn, bb), id \notin Current
  PROVE  id \notin DOMAIN trans
<1> SUFFICES ASSUME id \in DOMAIN trans PROVE FALSE
  OBVIOUS
<1>1. fn \in NodeFuncs /\ HasPlace(fn, bb) /\ bb \in Nat
  BY DEF BuildInv, VisitorPlaced, fn, NodeFuncs, HasPlace
<1>2. PICK f \in NodeFuncs : \E b \in BlocksOf(f) : Done(f, b) /\ id \in IdsOf(f, b)
  BY DEF BuildInv, TransitionsDone
<1>3. PICK b \in BlocksOf(f) : Done(f, b) /\ id \in IdsOf(f, b)
  BY <1>2
<1>4. HasPlace(f, b) /\ (f = fn => b < bb)
  BY <1>3 DEF Done
<1>5. /\ id[1] = f
      /\ id[3] = "return" => Returns(f, b)
      /\ id[3] # "return" => id[2] = b
  BY <1>3, <1>4, IdsNamed
<1>6. /\ id[1] = fn
      /\ id[3] = "return" => Returns(fn, bb)
      /\ id[3] # "return" => id[2] = bb
  BY <1>1, IdsNamed
<1>7. f = fn /\ b < bb /\ b \in BlocksOf(fn)
  BY <1>4, <1>5, <1>6
<1>8. b = bb
  BY <1>1, <1>5, <1>6, <1>7 DEF Describable
<1> QED
  BY <1>1, <1>7, <1>8

LEMMA Added ==
  ASSUME NEW g, trans' = Extend(trans, g), \A x \in DOMAIN g : x \notin DOMAIN trans
  PROVE  /\ DOMAIN trans' = DOMAIN trans \cup DOMAIN g
         /\ \A x \in DOMAIN trans : trans'[x] = trans[x]
         /\ \A x \in DOMAIN g : trans'[x] = g[x]
  BY DEF Extend

(* Transitions are added, and what is done is done.                         *)
LEMMA MoreTransitions ==
  ASSUME TransitionsDone, prog' = prog, functions' = functions,
         DOMAIN trans \subseteq DOMAIN trans',
         \A x \in DOMAIN trans : trans'[x] = trans[x],
         \A x \in DOMAIN trans' \ DOMAIN trans : Shape(x, trans'[x]),
         \A f \in NodeFuncs : \A b \in BlocksOf(f) :
           /\ Done(f, b) => Done(f, b)'
           /\ Done(f, b)' => Done(f, b) \/ IdsOf(f, b) \subseteq DOMAIN trans',
         Current' \subseteq DOMAIN trans',
         \A x \in Current \cup (DOMAIN trans' \ DOMAIN trans) :
           x \in Current' \/ \E f \in NodeFuncs : \E b \in BlocksOf(f) : Done(f, b)' /\ x \in IdsOf(f, b)
  PROVE  TransitionsDone'
<1>1. \A f : BlocksOf(f)' = BlocksOf(f) /\ NodeFuncs' = NodeFuncs
  BY StaticBlocks
<1>2. \A f, b : IdsOf(f, b)' = IdsOf(f, b)
  BY StaticIds
<1>3. \A f \in NodeFuncs : \A b \in BlocksOf(f) : Done(f, b)' => IdsOf(f, b) \subseteq DOMAIN trans'
  BY DEF TransitionsDone
<1>4. \A x \in DOMAIN trans' : Shape(x, trans'[x])
  BY DEF TransitionsDone
<1>5. (\A x \in DOMAIN trans : Shape(x, trans[x]))'
  BY <1>4, StaticShape
<1>6. ASSUME NEW x \in DOMAIN trans'
      PROVE  x \in Current' \/ \E f \in NodeFuncs : \E b \in BlocksOf(f) : Done(f, b)' /\ x \in IdsOf(f, b)
  <2>1. CASE x \in Current \cup (DOMAIN trans' \ DOMAIN trans)
    BY <2>1
  <2>2. CASE x \in DOMAIN trans \ Current
    BY <2>2 DEF TransitionsDone
  <2> QED
    BY <2>1, <2>2
<1> QED
  BY <1>1, <1>2, <1>3, <1>5, <1>6 DEF TransitionsDone

LEMMA BuildVisitStatements ==
  ASSUME BuildInv, VisitStatements, Describable
  PROVE  BuildInv'
<1>1. /\ VisitorPlaced' /\ phase' = "visit" /\ prog' = prog /\ functions' = functions
      /\ phase = "visit" /\ step = "stmts" /\ step' \in {"start", "term"} /\ (step' = "start" => bb = 0)
      /\ (step' = "term" => bb # 0)
      /\ fn' = fn /\ fn \in NodeFuncs /\ bb' = bb /\ seen' = seen /\ node' = node /\ ret' = ret
      /\ bb \in BlocksOf(fn) /\ ~Excluded(fn, bb) /\ bb \in Nat
  BY PlacedKept DEF BuildInv, VisitorPlaced, Translate, VisitStatements, fn, NodeFuncs
<1>2. SeenInOrder /\ TransitionsDone /\ PlacesDone
  BY <1>1 DEF BuildInv
<1>3. \A f : Begun(f)' <=> Begun(f)
  BY <1>1 DEF Begun
<1>4. \A f, b : Done(f, b)' <=> Done(f, b)
  BY <1>1, <1>3, StaticBlocks DEF Done
<1>5. SeenInOrder'
  BY <1>1, <1>2, <1>3, StaticBlocks DEF SeenInOrder
<1>6. Current = {} /\ Current' = StmtIds(fn, bb)
  BY <1>1, StaticIds DEF Current, StartIds
<1>7. CASE ~Accessed(fn, bb)
  <2>1. UNCHANGED netVars
    BY <1>7 DEF VisitStatements, Accessed, Here
  <2>2. StmtIds(fn, bb) = {}
    BY <1>7 DEF StmtIds
  <2>3. \A p : CapacityOf(p)' = CapacityOf(p) /\ TokensAtStart(p)' = TokensAtStart(p)
    BY <1>1, StaticBlocks
  <2>4. TransitionsDone'
    <3>1. trans' = trans /\ DOMAIN trans' = DOMAIN trans \cup {}
      BY <2>1 DEF netVars
    <3> QED
      BY <1>1, <1>2, <1>4, <1>6, <2>2, <3>1, MoreTransitions
  <2>5. PlacesDone'
    BY <1>1, <1>2, <1>3, <1>4, <1>7, <2>1, <2>3, StaticBlocks, StaticIds
      DEF PlacesDone, netVars, Place, ReadyPlace, BlockPlace
  <2> QED
    BY <1>1, <1>5, <2>4, <2>5 DEF BuildInv
<1>8. CASE Accessed(fn, bb)
  <2> DEFINE id == <<fn, bb, "unsafe", 0>>
             new == [T(One(LastPlace), One(ReadyPlace(fn, bb)), "UnsafeAccess")
                           EXCEPT !.ops = Merged(Block(fn, bb).accesses)]
             added == [x \in {id} |-> new]
  <2>1. WithPlaces({ReadyPlace(fn, bb)}) /\ trans' = Extend(trans, added)
    BY <1>8 DEF VisitStatements, Accessed, Here
  <2>2. ReadyPlace(fn, bb) \notin Place
    BY <1>1, <1>2 DEF PlacesDone, Done
  <2>3. LastPlace = BlockPlace(fn, bb)
    BY <2>2 DEF LastPlace
  <2>4. StmtIds(fn, bb) = {id}
    BY <1>8 DEF StmtIds
  <2>5. id \notin DOMAIN trans
    BY <1>1, <1>6, <2>4, Fresh DEF IdsOf
  <2>6. Shape(id, new)
    BY <2>3 DEF Shape, AccessShape, T
  <2>7. DOMAIN trans' = DOMAIN trans \cup {id} /\ trans'[id] = new
        /\ \A x \in DOMAIN trans : trans'[x] = trans[x]
    <3>1. DOMAIN added = {id} /\ added[id] = new
      OBVIOUS
    <3> HIDE DEF added
    <3>2. \A x \in DOMAIN added : x \notin DOMAIN trans
      BY <2>5, <3>1
    <3>3. trans' = Extend(trans, added)
      BY <2>1
    <3> QED
      BY <3>1, <3>2, <3>3, Added
  <2> HIDE DEF id, new, added
  <2>8. TransitionsDone'
    BY <1>1, <1>2, <1>4, <1>6, <2>4, <2>6, <2>7, MoreTransitions
  <2>9. PlacesDone'
    <3>1. /\ Place' = Place \cup {ReadyPlace(fn, bb)}
          /\ DOMAIN marking' = Place'
          /\ marking' = [p \in Place' |-> marking'[p]]
          /\ \A p \in Place : capacity'[p] = capacity[p] /\ marking'[p] = marking[p]
          /\ capacity'[ReadyPlace(fn, bb)] = 1
          /\ marking'[ReadyPlace(fn, bb)] = 0
      BY <1>2, <2>1, <2>2, Marked DEF WithPlaces
    <3>2. CapacityOf(ReadyPlace(fn, bb)) = 1 /\ TokensAtStart(ReadyPlace(fn, bb)) = 0
      BY DEF ReadyPlace, CapacityOf, TokensAtStart, StartPlace
    <3>3. \A f, b : ReadyPlace(f, b)' = ReadyPlace(f, b) /\ BlockPlace(f, b)' = BlockPlace(f, b)
                     /\ (ReadyPlace(f, b) = ReadyPlace(fn, bb) => f = fn /\ b = bb)
      BY DEF ReadyPlace, BlockPlace
    <3> QED
      BY <1>1, <1>2, <1>3, <1>4, <1>8, <3>1, <3>2, <3>3, StaticBlocks, StaticIds DEF PlacesDone
  <2> QED
    BY <1>1, <1>5, <2>8, <2>9 DEF BuildInv
<1> QED
  BY <1>7, <1>8

LEMMA BuildStartBlock ==
  ASSUME BuildInv, StartBlock, Describable
  PROVE  BuildInv'
<1>1. /\ VisitorPlaced' /\ phase' = "visit" /\ prog' = prog /\ functions' = functions
      /\ phase = "visit" /\ step = "start" /\ step' = "term"
      /\ fn' = fn /\ fn \in NodeFuncs /\ bb' = bb /\ seen' = seen /\ node' = node /\ ret' = ret
      /\ bb \in BlocksOf(fn) /\ ~Excluded(fn, bb) /\ bb \in Nat
      /\ capacity' = capacity /\ marking' = marking
  BY PlacedKept DEF BuildInv, VisitorPlaced, Translate, StartBlock, bodyVars, fn, NodeFuncs
<1>2. SeenInOrder /\ TransitionsDone /\ PlacesDone /\ bb = 0
  BY <1>1 DEF BuildInv, SeenInOrder
<1>3. \A f : Begun(f)' <=> Begun(f)
  BY <1>1 DEF Begun
<1>4. \A f, b : Done(f, b)' <=> Done(f, b)
  BY <1>1, <1>3, StaticBlocks DEF Done
<1>5. SeenInOrder'
  BY <1>1, <1>2, <1>3, StaticBlocks DEF SeenInOrder
<1> DEFINE id == <<fn, 0, "start", 0>>
           new == T(IF fn \in functions THEN One(StartPlace(fn)) ELSE None,
                    One(BlockPlace(fn, 0)), "Start")
           added == [x \in {id} |-> new]
<1>6. Current = StmtIds(fn, bb) /\ Current' = Current \cup {id} /\ id \in IdsOf(fn, bb)
  BY <1>1, <1>2, StaticIds DEF Current, StartIds, IdsOf
<1>7. trans' = Extend(trans, added)
  BY DEF StartBlock
<1>8. id \notin DOMAIN trans
  <2>1. id \notin Current
    BY <1>6 DEF StmtIds
  <2> QED
    BY <1>1, <1>6, <2>1, Fresh
<1>9. Shape(id, new)
  BY DEF Shape, StartShape, T
<1>10. DOMAIN trans' = DOMAIN trans \cup {id} /\ trans'[id] = new
       /\ \A x \in DOMAIN trans : trans'[x] = trans[x]
  <2>1. DOMAIN added = {id} /\ added[id] = new
    OBVIOUS
  <2> HIDE DEF added
  <2>2. \A x \in DOMAIN added : x \notin DOMAIN trans
    BY <1>8, <2>1
  <2> QED
    BY <1>7, <2>1, <2>2, Added
<1> HIDE DEF id, new, added
<1>11. TransitionsDone'
  <2>1. Current \subseteq DOMAIN trans
    BY <1>2 DEF TransitionsDone
  <2>2. \A x \in {id} : Shape(x, trans'[x])
    BY <1>9, <1>10
  <2>3. Current' \subseteq DOMAIN trans' /\ \A x \in Current \cup {id} : x \in Current'
    BY <1>6, <1>10, <2>1
  <2>4. /\ DOMAIN trans' = DOMAIN trans \cup {id}
        /\ \A x \in DOMAIN trans : trans'[x] = trans[x]
    BY <1>10
  <2> QED
    BY <1>1, <1>2, <1>4, <2>2, <2>3, <2>4, MoreTransitions
<1>12. PlacesDone'
  BY <1>1, <1>2, <1>3, <1>4, StaticBlocks, StaticIds DEF PlacesDone, Place, ReadyPlace, BlockPlace
<1> QED
  BY <1>1, <1>5, <1>11, <1>12 DEF BuildInv

(* The step that ends a block: it adds what the terminator is said to add.  *)
LEMMA TermStep ==
  ASSUME BuildInv, Describable, phase = "visit", step = "term", EndBlock, VisitorPlaced',
         NEW added, DOMAIN added = TermIds(fn, bb),
         trans' = Extend(trans, added) \/ (TermIds(fn, bb) = {} /\ trans' = trans),
         \A id \in TermIds(fn, bb) : Shape(id, added[id]),
         \/ WithPlaces(TermPlaces(fn, bb))
         \/ TermPlaces(fn, bb) = {} /\ UNCHANGED <<capacity, marking>>,
         ret' <=> (ret \/ Returns(fn, bb))
  PROVE  BuildInv'
<1>1. /\ phase' = "visit" /\ prog' = prog /\ functions' = functions
      /\ phase = "visit" /\ step = "term" /\ step' = "stmts"
      /\ fn' = fn /\ fn \in NodeFuncs /\ bb' = bb + 1 /\ seen' = seen /\ node' = node
      /\ bb \in BlocksOf(fn) /\ ~Excluded(fn, bb) /\ bb \in Nat /\ HasPlace(fn, bb)
  BY DEF BuildInv, VisitorPlaced, EndBlock, fn, NodeFuncs, HasPlace
<1>2. SeenInOrder /\ TransitionsDone /\ PlacesDone
  BY <1>1 DEF BuildInv
<1>3. (\A f : Begun(f)' <=> Begun(f)) /\ Begun(fn)
  BY <1>1, <1>2 DEF Begun, SeenInOrder
<1>4. \A f : \A b \in BlocksOf(f) : Done(f, b)' <=> Done(f, b) \/ (f = fn /\ b = bb)
  BY <1>1, <1>3, StaticBlocks DEF Done, BlocksOf
<1>5. SeenInOrder'
  <2>1. \A b \in BlocksOf(fn) : b < bb + 1 <=> b < bb \/ b = bb
    BY <1>1 DEF BlocksOf
  <2>2. (\E b \in BlocksOf(fn) : b < bb + 1 /\ Returns(fn, b))
          <=> (\E b \in BlocksOf(fn) : b < bb /\ Returns(fn, b)) \/ Returns(fn, bb)
    BY <1>1, <2>1
  <2>3. ret' <=> (\E b \in BlocksOf(fn) : b < bb + 1 /\ Returns(fn, b))
    BY <1>1, <1>2, <2>2 DEF SeenInOrder
  <2> QED
    BY <1>1, <1>2, <1>3, <2>3, StaticBlocks DEF SeenInOrder
<1>6. Current' = {} /\ IdsOf(fn, bb) = Current \cup TermIds(fn, bb)
  BY <1>1 DEF Current, IdsOf
<1>7. \A id \in TermIds(fn, bb) : id \notin DOMAIN trans
  <2> SUFFICES ASSUME NEW id \in TermIds(fn, bb) PROVE id \notin DOMAIN trans
    OBVIOUS
  <2>1. id \notin Current
    BY <1>1, Kinds DEF Current, StmtIds, StartIds
  <2> QED
    BY <1>1, <1>6, <2>1, Fresh
<1>8. /\ DOMAIN trans' = DOMAIN trans \cup TermIds(fn, bb)
      /\ \A id \in TermIds(fn, bb) : trans'[id] = added[id]
      /\ \A x \in DOMAIN trans : trans'[x] = trans[x]
  <2>1. \A x \in DOMAIN added : x \notin DOMAIN trans
    BY <1>7
  <2>2. CASE trans' = Extend(trans, added)
    BY <2>1, <2>2, Added
  <2>3. CASE TermIds(fn, bb) = {} /\ trans' = trans
    BY <2>3
  <2> QED
    BY <2>2, <2>3
<1>9. TransitionsDone'
  <2>1. Current \subseteq DOMAIN trans
    BY <1>2 DEF TransitionsDone
  <2>2. \A x \in TermIds(fn, bb) : Shape(x, trans'[x])
    BY <1>8
  <2>3. \A x \in Current \cup TermIds(fn, bb) :
          \E f \in NodeFuncs : \E b \in BlocksOf(f) : Done(f, b)' /\ x \in IdsOf(f, b)
    BY <1>1, <1>4, <1>6
  <2>4. IdsOf(fn, bb) \subseteq DOMAIN trans'
    BY <1>6, <1>8, <2>1
  <2>5. \A f \in NodeFuncs : \A b \in BlocksOf(f) :
          /\ Done(f, b) => Done(f, b)'
          /\ Done(f, b)' => Done(f, b) \/ IdsOf(f, b) \subseteq DOMAIN trans'
    BY <1>4, <2>4
  <2>6. Current' \subseteq DOMAIN trans'
    BY <1>6
  <2>7. DOMAIN trans' \ DOMAIN trans \subseteq TermIds(fn, bb) /\ DOMAIN trans \subseteq DOMAIN trans'
    BY <1>8
  <2>8. \A x \in DOMAIN trans' \ DOMAIN trans : Shape(x, trans'[x])
    BY <2>2, <2>7
  <2>9. \A x \in Current \cup (DOMAIN trans' \ DOMAIN trans) :
          \E f \in NodeFuncs : \E b \in BlocksOf(f) : Done(f, b)' /\ x \in IdsOf(f, b)
    BY <2>3, <2>7
  <2> QED
    BY <1>1, <1>2, <1>8, <2>5, <2>6, <2>7, <2>8, <2>9, MoreTransitions
<1>10. PlacesDone'
  <2> DEFINE ps == TermPlaces(fn, bb)
  <2>1. \A p \in ps : p[1] \in {"wait", "operation"}
    BY DEF TermPlaces, WaitPlace, OperationPlace
  <2>2. \A p \in ps : CapacityOf(p) = 1 /\ TokensAtStart(p) = 0
    BY <2>1 DEF CapacityOf, TokensAtStart, StartPlace
  <2>3. \A f, b : ReadyPlace(f, b)' = ReadyPlace(f, b) /\ BlockPlace(f, b)' = BlockPlace(f, b)
                  /\ ReadyPlace(f, b) \notin ps
    BY <2>1 DEF ReadyPlace, BlockPlace
  <2> HIDE DEF ps
  <2>4. /\ Place' = Place \cup ps
        /\ DOMAIN marking' = Place'
        /\ marking' = [p \in Place' |-> marking'[p]]
        /\ \A p \in Place : capacity'[p] = capacity[p] /\ marking'[p] = marking[p]
        /\ \A p \in ps \ Place : capacity'[p] = 1 /\ marking'[p] = 0
    <3>1. CASE WithPlaces(ps)
      BY <1>2, <3>1, Marked DEF WithPlaces
    <3>2. CASE ps = {} /\ UNCHANGED <<capacity, marking>>
      BY <1>2, <3>2 DEF PlacesDone, Place
    <3> QED
      BY <3>1, <3>2 DEF ps
  <2>5. ps = TermPlaces(fn, bb)
    BY DEF ps
  <2> QED
    BY <1>1, <1>2, <1>3, <1>4, <2>2, <2>3, <2>4, <2>5, StaticBlocks, StaticIds DEF PlacesDone
<1> QED
  BY <1>1, <1>5, <1>9, <1>10 DEF BuildInv

-----------------------------------------------------------------------------
(* The terminators. *)
EndingBlock ==
  BuildInv /\ Describable /\ VisitorPlaced' /\ phase = "visit" /\ step = "term" /\ EndBlock

LEMMA LeavesBlock ==
  ASSUME EndingBlock
  PROVE  /\ LastPlace = Leaves(fn, bb)
         /\ Target(Here) = Leads(fn, Term(fn, bb))
         /\ Here = Term(fn, bb)
         /\ fn \in NodeFuncs /\ bb \in BlocksOf(fn) /\ HasPlace(fn, bb)
<1>1. fn \in NodeFuncs /\ bb \in BlocksOf(fn) /\ HasPlace(fn, bb) /\ PlacesDone
  BY DEF EndingBlock, BuildInv, VisitorPlaced, fn, NodeFuncs, HasPlace
<1>2. ReadyPlace(fn, bb) \in Place <=> Accessed(fn, bb)
  BY <1>1 DEF EndingBlock, PlacesDone
<1> QED
  BY <1>1, <1>2 DEF LastPlace, Leaves, Target, Leads, Here

LEMMA EmitStep ==
  ASSUME EndingBlock, NEW kind, NEW out, NEW type, Emit(kind, out, type),
         TermIds(fn, bb) = {<<fn, bb, kind, 0>>}, TermPlaces(fn, bb) = {}, ~Returns(fn, bb),
         Shape(<<fn, bb, kind, 0>>, T(One(LastPlace), out, type))
  PROVE  BuildInv'
<1> DEFINE added == [id \in {<<fn, bb, kind, 0>>} |-> T(One(LastPlace), out, type)]
<1>1. trans' = Extend(trans, added) /\ UNCHANGED <<capacity, marking>> /\ ret' = ret
  BY DEF Emit, bodyVars
<1>2. DOMAIN added = TermIds(fn, bb) /\ \A id \in TermIds(fn, bb) : Shape(id, added[id])
  OBVIOUS
<1> HIDE DEF added
<1> QED
  BY <1>1, <1>2, TermStep DEF EndingBlock

LEMMA BuildGoto == EndingBlock /\ Goto => BuildInv'
<1> SUFFICES ASSUME EndingBlock, Goto PROVE BuildInv'
  OBVIOUS
<1>1. Term(fn, bb).op = "goto" /\ Here = Term(fn, bb)
  BY DEF Goto, AtTerm, Here
<1>2. TermPlaces(fn, bb) = {} /\ ~Returns(fn, bb)
  BY <1>1 DEF TermPlaces, Returns
<1>3. CASE Block(fn, Here.targets[1]).cleanup
  <2>1. Emit("exit", One(MainEnd), "Return")
    BY <1>3 DEF Goto, EmitTerminal
  <2>2. TermIds(fn, bb) = {<<fn, bb, "exit", 0>>}
    BY <1>1, <1>3 DEF TermIds
  <2>3. Shape(<<fn, bb, "exit", 0>>, T(One(LastPlace), One(MainEnd), "Return"))
    BY LeavesBlock DEF Shape, ExitShape, T
  <2> QED
    BY <1>2, <2>1, <2>2, <2>3, EmitStep
<1>4. CASE ~Block(fn, Here.targets[1]).cleanup
  <2>1. Emit("goto", Target(Here), "Goto")
    BY <1>4 DEF Goto
  <2>2. TermIds(fn, bb) = {<<fn, bb, "goto", 0>>}
    BY <1>1, <1>4 DEF TermIds
  <2>3. Shape(<<fn, bb, "goto", 0>>, T(One(LastPlace), Target(Here), "Goto"))
    BY <1>1, LeavesBlock DEF Shape, GotoShape, T
  <2> QED
    BY <1>2, <2>1, <2>2, <2>3, EmitStep
<1> QED
  BY <1>3, <1>4

LEMMA BuildAssertGoto == EndingBlock /\ AssertGoto => BuildInv'
<1> SUFFICES ASSUME EndingBlock, AssertGoto PROVE BuildInv'
  OBVIOUS
<1>1. Term(fn, bb).op = "assert" /\ Here = Term(fn, bb)
  BY DEF AssertGoto, AtTerm, Here
<1>2. TermPlaces(fn, bb) = {} /\ ~Returns(fn, bb) /\ TermIds(fn, bb) = {<<fn, bb, "goto", 0>>}
  BY <1>1 DEF TermPlaces, Returns, TermIds
<1>3. Emit("goto", Target(Here), "Assert")
  BY DEF AssertGoto
<1>4. Shape(<<fn, bb, "goto", 0>>, T(One(LastPlace), Target(Here), "Assert"))
  BY <1>1, LeavesBlock DEF Shape, GotoShape, T
<1> QED
  BY <1>2, <1>3, <1>4, EmitStep

(* Nothing is added. *)
LEMMA NoStep ==
  ASSUME EndingBlock, UNCHANGED <<bodyVars, netVars>>, TermIds(fn, bb) = {},
         TermPlaces(fn, bb) = {}, ~Returns(fn, bb)
  PROVE  BuildInv'
<1> DEFINE added == [id \in {} |-> 0]
<1>1. trans' = trans /\ UNCHANGED <<capacity, marking>> /\ ret' = ret
  BY DEF netVars, bodyVars
<1>2. DOMAIN added = TermIds(fn, bb)
  OBVIOUS
<1> HIDE DEF added
<1> QED
  BY <1>1, <1>2, TermStep DEF EndingBlock

LEMMA BuildFallthrough == EndingBlock /\ Fallthrough => BuildInv'
<1> SUFFICES ASSUME EndingBlock, Fallthrough PROVE BuildInv'
  OBVIOUS
<1>1. Term(fn, bb).op = "fallthrough" /\ Here = Term(fn, bb)
  BY DEF Fallthrough, AtTerm, Here
<1>2. TermPlaces(fn, bb) = {} /\ ~Returns(fn, bb)
  BY <1>1 DEF TermPlaces, Returns
<1>3. CASE Excluded(fn, Here.targets[1])
  <2>1. TermIds(fn, bb) = {}
    BY <1>1, <1>3 DEF TermIds
  <2> QED
    BY <1>2, <1>3, <2>1, NoStep DEF Fallthrough
<1>4. CASE ~Excluded(fn, Here.targets[1])
  <2>1. Emit("goto", Target(Here), "Goto")
    BY <1>4 DEF Fallthrough
  <2>2. TermIds(fn, bb) = {<<fn, bb, "goto", 0>>}
    BY <1>1, <1>4 DEF TermIds
  <2>3. Shape(<<fn, bb, "goto", 0>>, T(One(LastPlace), Target(Here), "Goto"))
    BY <1>1, LeavesBlock DEF Shape, GotoShape, T
  <2> QED
    BY <1>2, <2>1, <2>2, <2>3, EmitStep
<1> QED
  BY <1>3, <1>4

LEMMA BuildTerminal == EndingBlock /\ Terminal => BuildInv'
<1> SUFFICES ASSUME EndingBlock, Terminal PROVE BuildInv'
  OBVIOUS
<1>1. Term(fn, bb).op = "terminal" /\ Here = Term(fn, bb)
  BY DEF Terminal, AtTerm, Here
<1>2. TermPlaces(fn, bb) = {} /\ ~Returns(fn, bb) /\ TermIds(fn, bb) = {<<fn, bb, "exit", 0>>}
  BY <1>1 DEF TermPlaces, Returns, TermIds
<1>3. Emit("exit", One(MainEnd), "Return")
  BY DEF Terminal, EmitTerminal
<1>4. Shape(<<fn, bb, "exit", 0>>, T(One(LastPlace), One(MainEnd), "Return"))
  BY LeavesBlock DEF Shape, ExitShape, T
<1> QED
  BY <1>2, <1>3, <1>4, EmitStep

LEMMA BuildSwitch == EndingBlock /\ Switch => BuildInv'
<1> SUFFICES ASSUME EndingBlock, Switch PROVE BuildInv'
  OBVIOUS
<1>1. Term(fn, bb).op = "switch" /\ Here = Term(fn, bb)
  BY DEF Switch, AtTerm, Here
<1>2. TermPlaces(fn, bb) = {} /\ ~Returns(fn, bb)
      /\ TermIds(fn, bb) = {<<fn, bb, "switch", i>> : i \in SwitchTargets(fn, bb)}
  BY <1>1 DEF TermPlaces, Returns, TermIds
<1> DEFINE added == [id \in {<<fn, bb, "switch", i>> : i \in SwitchTargets(fn, bb)} |->
                   T(One(LastPlace), One(BlockPlace(fn, Here.targets[id[4]])), "Switch")]
<1>3. trans' = Extend(trans, added) /\ UNCHANGED <<capacity, marking>> /\ ret' = ret
  BY DEF Switch, bodyVars
<1>4. DOMAIN added = TermIds(fn, bb)
  BY <1>2
<1>5. ASSUME NEW id \in TermIds(fn, bb) PROVE Shape(id, added[id])
  <2>1. PICK i \in SwitchTargets(fn, bb) : id = <<fn, bb, "switch", i>>
    BY <1>2
  <2>2. added[id] = T(One(LastPlace), One(BlockPlace(fn, Here.targets[i])), "Switch")
    BY <1>2, <2>1
  <2> HIDE DEF added
  <2> QED
    BY <1>1, <2>1, <2>2, LeavesBlock DEF Shape, SwitchShape, T
<1> HIDE DEF added
<1> QED
  BY <1>2, <1>3, <1>4, <1>5, TermStep DEF EndingBlock

LEMMA BuildSuspend == EndingBlock /\ Suspend => BuildInv'
<1> SUFFICES ASSUME EndingBlock, Suspend PROVE BuildInv'
  OBVIOUS
<1>1. Term(fn, bb).op = "return" /\ Here = Term(fn, bb) /\ Suspends(fn, bb)
  BY DEF Suspend, AtTerm, Here
<1>2. TermPlaces(fn, bb) = {} /\ ~Returns(fn, bb)
  BY <1>1 DEF TermPlaces, Returns
<1>3. CASE Resumes(fn, bb) = {}
  <2>1. TermIds(fn, bb) = {}
    BY <1>1, <1>3 DEF TermIds
  <2> QED
    BY <1>2, <1>3, <2>1, NoStep DEF Suspend, Resumes
<1>4. CASE Resumes(fn, bb) # {}
  <2> DEFINE out == OneEach({BlockPlace(fn, c) : c \in Resumes(fn, bb)})
  <2>1. Emit("goto", out, "Goto")
    BY <1>4 DEF Suspend, Resumes
  <2>2. TermIds(fn, bb) = {<<fn, bb, "goto", 0>>}
    BY <1>1, <1>4 DEF TermIds
  <2>3. Shape(<<fn, bb, "goto", 0>>, T(One(LastPlace), out, "Goto"))
    BY <1>1, LeavesBlock DEF Shape, GotoShape, T
  <2> QED
    BY <1>2, <2>1, <2>2, <2>3, EmitStep
<1> QED
  BY <1>3, <1>4

LEMMA BuildReturn == EndingBlock /\ Return => BuildInv'
<1> SUFFICES ASSUME EndingBlock, Return PROVE BuildInv'
  OBVIOUS
<1>1. /\ Term(fn, bb).op = "return" /\ Here = Term(fn, bb) /\ ~Suspends(fn, bb)
      /\ fn \in NodeFuncs /\ bb \in BlocksOf(fn) /\ HasPlace(fn, bb)
  BY LeavesBlock DEF Return, AtTerm
<1>2. TermPlaces(fn, bb) = {} /\ Returns(fn, bb) /\ TermIds(fn, bb) = {ReturnId(fn)}
  BY <1>1 DEF TermPlaces, Returns, TermIds
<1>3. ~ret
  <2>1. SeenInOrder /\ step # "body" /\ bb \in Nat
    BY DEF EndingBlock, BuildInv, VisitorPlaced
  <2>2. SUFFICES ASSUME NEW b \in BlocksOf(fn), b < bb, Returns(fn, b) PROVE FALSE
    BY <2>1 DEF SeenInOrder
  <2>3. b = bb
    BY <1>1, <1>2, <2>2 DEF EndingBlock, Describable
  <2> QED
    BY <2>1, <2>2, <2>3
<1> DEFINE added == [id \in {ReturnId(fn)} |-> T(One(LastPlace), One(EndPlace(fn)), "Return")]
<1>4. trans' = Extend(trans, added) /\ UNCHANGED <<capacity, marking>> /\ ret'
  BY <1>3 DEF Return, ReturnWith
<1>5. DOMAIN added = TermIds(fn, bb)
  BY <1>2
<1>6. ASSUME NEW id \in TermIds(fn, bb) PROVE Shape(id, added[id])
  <2>1. id = ReturnId(fn) /\ added[id] = T(One(LastPlace), One(EndPlace(fn)), "Return")
    BY <1>2
  <2> HIDE DEF added
  <2>2. \A b \in BlocksOf(fn) : Returns(fn, b) => b = bb
    BY <1>1, <1>2 DEF EndingBlock, Describable
  <2>3. ReturnShape(fn, added[id])
    BY <2>1, <2>2, LeavesBlock DEF ReturnShape, T
  <2> QED
    BY <2>1, <2>3 DEF Shape, ReturnId, T
<1> HIDE DEF added
<1> QED
  BY <1>2, <1>4, <1>5, <1>6, TermStep DEF EndingBlock

LEMMA BuildDrop == EndingBlock /\ Drop => BuildInv'
<1> SUFFICES ASSUME EndingBlock, Drop PROVE BuildInv'
  OBVIOUS
<1>1. Term(fn, bb).op = "drop" /\ Here = Term(fn, bb)
  BY DEF Drop, AtTerm, Here
<1>2. TermPlaces(fn, bb) = {} /\ ~Returns(fn, bb) /\ TermIds(fn, bb) = {<<fn, bb, "drop", 0>>}
  BY <1>1 DEF TermPlaces, Returns, TermIds
<1> DEFINE type == IF IsGuard(Here.args[1]) THEN "Unlock" ELSE "Drop"
           out == Target(Here) (+) Tokens(Here.args[1])
<1>3. Emit("drop", out, type)
  BY DEF Drop
<1>4. type # "UnsafeAccess"
  OBVIOUS
<1>5. out = Leads(fn, Term(fn, bb)) (+) Tokens(Term(fn, bb).args[1])
  BY LeavesBlock
<1> HIDE DEF type, out
<1>6. Shape(<<fn, bb, "drop", 0>>, T(One(LastPlace), out, type))
  BY <1>4, <1>5, LeavesBlock DEF Shape, DropShape, T
<1> QED
  BY <1>2, <1>3, <1>6, EmitStep

-----------------------------------------------------------------------------
(* The calls. *)
LEMMA CallsBlock ==
  ASSUME EndingBlock, NEW h, AtCall(h)
  PROVE  /\ Term(fn, bb).op = "call" /\ Here = Term(fn, bb) /\ Handler(fn, Here) = h
         /\ ~Returns(fn, bb) /\ TermIds(fn, bb) = CallIds(fn, bb, Here)
  BY DEF AtCall, AtTerm, Here, Returns, TermIds

(* A call that comes back at once. *)
LEMMA EmitCallStep ==
  ASSUME EndingBlock, NEW h, AtCall(h), NEW takes, NEW puts, NEW type, EmitCall(takes, puts, type),
         UNCHANGED <<ret, capacity, marking>>,
         h \notin {"unwind", "panic"}, ~ComesBack(fn, Here), ~OnAtomic(fn, Here),
         takes \in CallTakes(fn, Here), puts \in CallPuts(fn, Here),
         type \in {"Function", "Notify", "Unlock", "Spawn", "Join"}
  PROVE  BuildInv'
<1>1. /\ Term(fn, bb).op = "call" /\ Here = Term(fn, bb) /\ Handler(fn, Here) = h
      /\ ~Returns(fn, bb) /\ TermIds(fn, bb) = CallIds(fn, bb, Here)
  BY CallsBlock
<1> DEFINE new == T(One(LastPlace) (+) takes, puts (+) Target(Here), type)
           added == [id \in {<<fn, bb, "call", 0>>} |-> new]
<1>2. trans' = Extend(trans, added) /\ UNCHANGED <<capacity, marking>> /\ ret' = ret
  BY DEF EmitCall
<1>3. TermIds(fn, bb) = {<<fn, bb, "call", 0>>} /\ TermPlaces(fn, bb) = {}
  BY <1>1 DEF CallIds, TermPlaces
<1>4. CallShape(fn, bb, new)
  <2>1. h # "wait"
    BY <1>1 DEF ComesBack
  <2>2. new.in = One(Leaves(fn, bb)) (+) takes /\ new.out = puts (+) Leads(fn, Here)
    BY <1>1, LeavesBlock DEF T
  <2> HIDE DEF new
  <2> QED
    BY <1>1, <2>1, <2>2 DEF CallShape
<1>5. new.type = type
  BY DEF T
<1> HIDE DEF new
<1>6. Shape(<<fn, bb, "call", 0>>, new)
  BY <1>4, <1>5 DEF Shape
<1>7. DOMAIN added = TermIds(fn, bb) /\ \A id \in TermIds(fn, bb) : Shape(id, added[id])
  BY <1>3, <1>6
<1> HIDE DEF added
<1> QED
  BY <1>1, <1>2, <1>3, <1>7, TermStep DEF EndingBlock

LEMMA SimpleStep ==
  ASSUME EndingBlock, NEW h, AtCall(h), NEW takes, NEW puts, NEW type, SimpleCall(takes, puts, type),
         h \notin {"unwind", "panic"}, ~ComesBack(fn, Here), ~OnAtomic(fn, Here),
         takes \in CallTakes(fn, Here), puts \in CallPuts(fn, Here),
         type \in {"Function", "Notify", "Unlock"}
  PROVE  BuildInv'
<1>1. EmitCall(takes, puts, type) /\ UNCHANGED <<ret, capacity, marking>>
  BY DEF SimpleCall, bodyVars
<1> QED
  BY <1>1, EmitCallStep

(* A call that waits for its return. *)
LEMMA WaitRetStep ==
  ASSUME EndingBlock, NEW h, AtCall(h), NEW callOut, NEW retIn, NEW type, NEW retType,
         WaitRet(None, callOut, retIn, type, retType), h # "unwind",
         ComesBack(fn, Here), h = "wait" => IsGuard(Here.args[2]), None \in CallTakes(fn, Here),
         callOut \in CallPuts(fn, Here), retIn = RetTakes(fn, Here),
         type # "UnsafeAccess", retType # "UnsafeAccess"
  PROVE  BuildInv'
<1>1. /\ Term(fn, bb).op = "call" /\ Here = Term(fn, bb) /\ Handler(fn, Here) = h
      /\ ~Returns(fn, bb) /\ TermIds(fn, bb) = CallIds(fn, bb, Here)
  BY CallsBlock
<1> DEFINE call == T(One(LastPlace) (+) None, One(WaitPlace(fn, bb)) (+) callOut, type)
           back == T(One(WaitPlace(fn, bb)) (+) retIn, Target(Here), retType)
           added == [id \in {<<fn, bb, "call", 0>>, <<fn, bb, "ret", 0>>} |->
                       IF id[3] = "call" THEN call ELSE back]
<1>2. trans' = Extend(trans, added) /\ WithPlaces({WaitPlace(fn, bb)}) /\ ret' = ret
  BY DEF WaitRet, bodyVars
<1>3. h \notin {"panic"} /\ ~OnAtomic(fn, Here)
  BY <1>1 DEF ComesBack, OnAtomic
<1>4. /\ TermIds(fn, bb) = {<<fn, bb, "call", 0>>, <<fn, bb, "ret", 0>>}
      /\ TermPlaces(fn, bb) = {WaitPlace(fn, bb)}
  BY <1>1, <1>3 DEF CallIds, TermPlaces
<1>5. /\ call.in = One(Leaves(fn, bb)) (+) None
      /\ call.out = One(WaitPlace(fn, bb)) (+) callOut
      /\ call.type = type
      /\ back.in = One(WaitPlace(fn, bb)) (+) RetTakes(fn, Here)
      /\ back.out = Leads(fn, Here)
      /\ back.type = retType
  BY <1>1, LeavesBlock DEF T
<1>6. added[<<fn, bb, "call", 0>>] = call /\ added[<<fn, bb, "ret", 0>>] = back
  OBVIOUS
<1>7. DOMAIN added = TermIds(fn, bb)
  BY <1>4
<1> HIDE DEF call, back, added
<1>8. Shape(<<fn, bb, "call", 0>>, call)
  <2>1. CallShape(fn, bb, call)
    BY <1>1, <1>3, <1>5 DEF CallShape
  <2> QED
    BY <1>5, <2>1 DEF Shape
<1>9. Shape(<<fn, bb, "ret", 0>>, back)
  BY <1>1, <1>5 DEF Shape, RetShape
<1>10. \A id \in TermIds(fn, bb) : Shape(id, added[id])
  BY <1>4, <1>6, <1>8, <1>9
<1> QED
  BY <1>1, <1>2, <1>4, <1>7, <1>10, TermStep DEF EndingBlock

LEMMA BuildDivergingCall == EndingBlock /\ DivergingCall => BuildInv'
<1> SUFFICES ASSUME EndingBlock, DivergingCall PROVE BuildInv'
  OBVIOUS
<1>1. AtCall("unwind") /\ Emit("exit", One(MainEnd), "Return")
  BY DEF DivergingCall, EmitTerminal
<1>2. /\ Term(fn, bb).op = "call" /\ Here = Term(fn, bb) /\ Handler(fn, Here) = "unwind"
      /\ ~Returns(fn, bb) /\ TermIds(fn, bb) = CallIds(fn, bb, Here)
  BY <1>1, CallsBlock
<1>3. TermPlaces(fn, bb) = {} /\ TermIds(fn, bb) = {<<fn, bb, "exit", 0>>}
  BY <1>2 DEF TermPlaces, CallIds, ComesBack, OnAtomic
<1>4. Shape(<<fn, bb, "exit", 0>>, T(One(LastPlace), One(MainEnd), "Return"))
  BY LeavesBlock DEF Shape, ExitShape, T
<1> QED
  BY <1>1, <1>2, <1>3, <1>4, EmitStep

LEMMA BuildConnectCall == EndingBlock /\ ConnectCall => BuildInv'
<1> SUFFICES ASSUME EndingBlock, ConnectCall PROVE BuildInv'
  OBVIOUS
<1>1. AtCall("connect") /\ SimpleCall(None, None, "Function")
  BY DEF ConnectCall
<1>2. Handler(fn, Here) = "connect"
  BY <1>1 DEF AtCall
<1>3. /\ ~ComesBack(fn, Here) /\ ~OnAtomic(fn, Here)
      /\ None \in CallTakes(fn, Here) /\ None \in CallPuts(fn, Here)
  BY <1>2 DEF ComesBack, OnAtomic, CallTakes, CallPuts
<1> QED
  BY <1>1, <1>3, SimpleStep

LEMMA BuildLockCall == EndingBlock /\ LockCall => BuildInv'
<1> SUFFICES ASSUME EndingBlock, LockCall PROVE BuildInv'
  OBVIOUS
<1>1. AtCall("lock") /\ SimpleCall(Tokens(Here.dest), None, "Function")
  BY DEF LockCall
<1>2. Handler(fn, Here) = "lock"
  BY <1>1 DEF AtCall
<1>3. /\ ~ComesBack(fn, Here) /\ ~OnAtomic(fn, Here)
      /\ Tokens(Here.dest) \in CallTakes(fn, Here) /\ None \in CallPuts(fn, Here)
  BY <1>2 DEF ComesBack, OnAtomic, CallTakes, CallPuts
<1> QED
  BY <1>1, <1>3, SimpleStep

LEMMA BuildNotifyCall == EndingBlock /\ NotifyCall => BuildInv'
<1> SUFFICES ASSUME EndingBlock, NotifyCall PROVE BuildInv'
  OBVIOUS
<1>1. AtCall("notify")
  BY DEF NotifyCall
<1>2. Handler(fn, Here) = "notify"
  BY <1>1 DEF AtCall
<1>3. /\ ~ComesBack(fn, Here) /\ ~OnAtomic(fn, Here) /\ None \in CallTakes(fn, Here)
      /\ CallPuts(fn, Here) = Condvars(Here)
  BY <1>2 DEF ComesBack, OnAtomic, CallTakes, CallPuts
<1>4. CASE CondvarsOf(Here) = {}
  <2>1. SimpleCall(None, None, "Function") /\ None \in CallPuts(fn, Here)
    BY <1>3, <1>4 DEF NotifyCall, Condvars
  <2> QED
    BY <1>1, <1>3, <2>1, SimpleStep
<1>5. CASE CondvarsOf(Here) # {}
  <2>1. PICK c \in CondvarsOf(Here) : SimpleCall(None, One(CondvarPlace(c)), "Notify")
    BY <1>5 DEF NotifyCall
  <2>2. One(CondvarPlace(c)) \in CallPuts(fn, Here)
    BY <1>3 DEF Condvars
  <2> QED
    BY <1>1, <1>3, <2>1, <2>2, SimpleStep
<1> QED
  BY <1>4, <1>5

LEMMA BuildWaitCall == EndingBlock /\ WaitCall => BuildInv'
<1> SUFFICES ASSUME EndingBlock, WaitCall PROVE BuildInv'
  OBVIOUS
<1>1. /\ AtCall("wait") /\ IsGuard(Here.args[2])
      /\ WaitRet(None, WaitLock(Here),
                 WaitLock(Here) (+) OneEach({CondvarPlace(c) : c \in CondvarsOf(Here)}),
                 "Function", "Wait")
  BY DEF WaitCall, WaitLock
<1>2. Handler(fn, Here) = "wait"
  BY <1>1 DEF AtCall
<1>3. /\ ComesBack(fn, Here) /\ None \in CallTakes(fn, Here)
      /\ WaitLock(Here) \in CallPuts(fn, Here)
      /\ RetTakes(fn, Here) = WaitLock(Here) (+) OneEach({CondvarPlace(c) : c \in CondvarsOf(Here)})
  BY <1>2 DEF ComesBack, CallTakes, CallPuts, RetTakes
<1> QED
  BY <1>1, <1>3, WaitRetStep

LEMMA BuildDropCall == EndingBlock /\ DropCall => BuildInv'
<1> SUFFICES ASSUME EndingBlock, DropCall PROVE BuildInv'
  OBVIOUS
<1> DEFINE type == IF IsGuard(Here.args[1]) THEN "Unlock" ELSE "Function"
<1>1. AtCall("drop") /\ SimpleCall(None, Tokens(Here.args[1]), type)
  BY DEF DropCall
<1>2. Handler(fn, Here) = "drop"
  BY <1>1 DEF AtCall
<1>3. /\ ~ComesBack(fn, Here) /\ ~OnAtomic(fn, Here) /\ None \in CallTakes(fn, Here)
      /\ Tokens(Here.args[1]) \in CallPuts(fn, Here)
  BY <1>2 DEF ComesBack, OnAtomic, CallTakes, CallPuts
<1>4. type \in {"Function", "Notify", "Unlock"}
  OBVIOUS
<1> HIDE DEF type
<1> QED
  BY <1>1, <1>3, <1>4, SimpleStep

LEMMA BuildSendCall == EndingBlock /\ SendCall => BuildInv'
<1> SUFFICES ASSUME EndingBlock, SendCall PROVE BuildInv'
  OBVIOUS
<1>1. AtCall("send")
  BY DEF SendCall
<1>2. PICK c \in ChannelsOf(Here) : SimpleCall(None, One(ChannelPlace(c)), "Function")
  BY DEF SendCall
<1>3. Handler(fn, Here) = "send"
  BY <1>1 DEF AtCall
<1>4. CallPuts(fn, Here) = Channels(Here)
  BY <1>3 DEF CallPuts
<1>5. /\ ~ComesBack(fn, Here) /\ ~OnAtomic(fn, Here) /\ None \in CallTakes(fn, Here)
      /\ One(ChannelPlace(c)) \in CallPuts(fn, Here)
  BY <1>3, <1>4 DEF ComesBack, OnAtomic, CallTakes, Channels
<1> QED
  BY <1>1, <1>2, <1>5, SimpleStep

LEMMA BuildRecvCall == EndingBlock /\ RecvCall => BuildInv'
<1> SUFFICES ASSUME EndingBlock, RecvCall PROVE BuildInv'
  OBVIOUS
<1>1. AtCall("recv")
  BY DEF RecvCall
<1>2. PICK c \in ChannelsOf(Here) : SimpleCall(One(ChannelPlace(c)), None, "Function")
  BY DEF RecvCall
<1>3. Handler(fn, Here) = "recv"
  BY <1>1 DEF AtCall
<1>4. CallTakes(fn, Here) = Channels(Here)
  BY <1>3 DEF CallTakes
<1>5. /\ ~ComesBack(fn, Here) /\ ~OnAtomic(fn, Here) /\ None \in CallPuts(fn, Here)
      /\ One(ChannelPlace(c)) \in CallTakes(fn, Here)
  BY <1>3, <1>4 DEF ComesBack, OnAtomic, CallPuts, Channels
<1> QED
  BY <1>1, <1>2, <1>5, SimpleStep

LEMMA BuildSpawnCall == EndingBlock /\ SpawnCall => BuildInv'
<1> SUFFICES ASSUME EndingBlock, SpawnCall PROVE BuildInv'
  OBVIOUS
<1>1. /\ AtCall("spawn")
      /\ EmitCall(None, Starts(ClosureAt(Here, 1) \cap functions), "Spawn")
      /\ UNCHANGED <<ret, capacity, marking>>
  BY DEF SpawnCall, Starts
<1>2. Handler(fn, Here) = "spawn"
  BY <1>1 DEF AtCall
<1>3. /\ ~ComesBack(fn, Here) /\ ~OnAtomic(fn, Here) /\ None \in CallTakes(fn, Here)
      /\ Starts(ClosureAt(Here, 1) \cap functions) \in CallPuts(fn, Here)
  BY <1>2 DEF ComesBack, OnAtomic, CallTakes, CallPuts
<1> QED
  BY <1>1, <1>3, EmitCallStep

LEMMA HandledCalls ==
  ASSUME EndingBlock, NEW h, AtCall(h)
  PROVE  h \notin {"scopeSpawn", "scopeJoin"}
<1>1. Handler(fn, Here) = h /\ Here.api \notin {"scopeSpawn", "scopeJoin"}
  BY LeavesBlock DEF EndingBlock, Describable, AtCall
<1> QED
  BY <1>1 DEF Handler

LEMMA BuildJoinCall == EndingBlock /\ HandlesFollowed /\ JoinCall => BuildInv'
<1> SUFFICES ASSUME EndingBlock, HandlesFollowed, JoinCall PROVE BuildInv'
  OBVIOUS
<1> DEFINE takes == OneEach(JoinedEnds(Here))
<1>1. /\ AtCall("join") /\ EmitCall(takes, None, "Join")
      /\ UNCHANGED <<ret, capacity, marking>>
  BY HandledCalls DEF JoinCall
<1>2. Handler(fn, Here) = "join"
  BY <1>1 DEF AtCall
<1>3. takes = One(EndPlace(prog.thread[Here.args[1]]))
  BY <1>1 DEF HandlesFollowed, One, OneEach
<1>4. /\ ~ComesBack(fn, Here) /\ ~OnAtomic(fn, Here) /\ None \in CallPuts(fn, Here)
      /\ takes \in CallTakes(fn, Here)
  BY <1>2, <1>3 DEF ComesBack, OnAtomic, CallTakes, CallPuts
<1> HIDE DEF takes
<1> QED
  BY <1>1, <1>4, EmitCallStep

LEMMA BuildRayonJoinCall == EndingBlock /\ RayonJoinCall => BuildInv'
<1> SUFFICES ASSUME EndingBlock, RayonJoinCall PROVE BuildInv'
  OBVIOUS
<1> DEFINE callees == ClosureArgs(Here) \cap functions
<1>1. /\ AtCall("rayonJoin")
      /\ WaitRet(None, Starts(callees), Ends(callees), "Function", "Join")
  BY DEF RayonJoinCall, Starts, Ends
<1>2. Handler(fn, Here) = "rayonJoin"
  BY <1>1 DEF AtCall
<1>3. /\ ComesBack(fn, Here) /\ None \in CallTakes(fn, Here)
      /\ Starts(callees) \in CallPuts(fn, Here)
      /\ Ends(callees) = RetTakes(fn, Here)
  BY <1>2 DEF ComesBack, CallTakes, CallPuts, RetTakes
<1> HIDE DEF callees
<1> QED
  BY <1>1, <1>3, WaitRetStep

LEMMA BuildNormalCall == EndingBlock /\ NormalCall => BuildInv'
<1> SUFFICES ASSUME EndingBlock, NormalCall PROVE BuildInv'
  OBVIOUS
<1>1. AtCall("normal")
  BY DEF NormalCall
<1>2. Handler(fn, Here) = "normal"
  BY <1>1 DEF AtCall
<1>3. None \in CallTakes(fn, Here) /\ ~OnAtomic(fn, Here)
  BY <1>2 DEF CallTakes, OnAtomic
<1>4. CASE CalleeOf(Here) = {}
  <2>1. SimpleCall(None, None, "Function")
    BY <1>4 DEF NormalCall
  <2>2. ~ComesBack(fn, Here) /\ None \in CallPuts(fn, Here)
    BY <1>2, <1>4 DEF ComesBack, CallPuts
  <2> QED
    BY <1>1, <1>3, <2>1, <2>2, SimpleStep
<1>5. CASE CalleeOf(Here) # {}
  <2> DEFINE ends == Ends(IF Here.targets = <<>> THEN {} ELSE CalleeOf(Here))
  <2>1. WaitRet(None, Starts(CalleeOf(Here)), ends, "Function", "Function")
    <3>1. (IF Here.targets = <<>> THEN {} ELSE {EndPlace(g) : g \in CalleeOf(Here)})
            = {EndPlace(g) : g \in (IF Here.targets = <<>> THEN {} ELSE CalleeOf(Here))}
      BY DEF EndPlace
    <3> QED
      BY <1>5, <3>1 DEF NormalCall, Starts, Ends
  <2>2. ComesBack(fn, Here) /\ Starts(CalleeOf(Here)) \in CallPuts(fn, Here)
        /\ ends = RetTakes(fn, Here)
    BY <1>2, <1>5 DEF ComesBack, CallPuts, RetTakes
  <2> HIDE DEF ends
  <2> QED
    BY <1>1, <1>3, <2>1, <2>2, WaitRetStep
<1> QED
  BY <1>4, <1>5

LEMMA BuildPanicCall == EndingBlock /\ PanicCall => BuildInv'
<1> SUFFICES ASSUME EndingBlock, PanicCall PROVE BuildInv'
  OBVIOUS
<1>1. AtCall("panic") /\ UNCHANGED <<bodyVars, capacity, marking>>
  BY DEF PanicCall
<1>2. /\ Term(fn, bb).op = "call" /\ Here = Term(fn, bb) /\ Handler(fn, Here) = "panic"
      /\ ~Returns(fn, bb) /\ TermIds(fn, bb) = CallIds(fn, bb, Here)
  BY <1>1, CallsBlock
<1>3. /\ TermPlaces(fn, bb) = {} /\ TermIds(fn, bb) = {<<fn, bb, "call", 0>>}
      /\ ~OnAtomic(fn, Here)
  BY <1>2 DEF TermPlaces, CallIds, ComesBack, OnAtomic
<1> DEFINE new == T(One(LastPlace), One(MainEnd), "Function")
           added == [id \in {<<fn, bb, "call", 0>>} |-> new]
<1>4. trans' = Extend(trans, added)
  BY DEF PanicCall
<1>5. new.in = One(Leaves(fn, bb)) /\ new.out = One(MainEnd) /\ new.type = "Function"
  BY LeavesBlock DEF T
<1> HIDE DEF new
<1>6. Shape(<<fn, bb, "call", 0>>, new)
  <2>1. CallShape(fn, bb, new)
    BY <1>2, <1>3, <1>5 DEF CallShape
  <2> QED
    BY <1>5, <2>1 DEF Shape
<1>7. DOMAIN added = TermIds(fn, bb) /\ \A id \in TermIds(fn, bb) : Shape(id, added[id])
  BY <1>3, <1>6
<1> HIDE DEF added
<1> QED
  BY <1>1, <1>2, <1>3, <1>4, <1>7, TermStep DEF EndingBlock, bodyVars

LEMMA BuildAtomicCall == EndingBlock /\ AtomicCall => BuildInv'
<1> SUFFICES ASSUME EndingBlock, AtomicCall PROVE BuildInv'
  OBVIOUS
<1>1. PICK h \in {"atomicLoad", "atomicStore"} : AtCall(h)
  BY DEF AtomicCall
<1>2. /\ Term(fn, bb).op = "call" /\ Here = Term(fn, bb) /\ Handler(fn, Here) = h
      /\ ~Returns(fn, bb) /\ TermIds(fn, bb) = CallIds(fn, bb, Here)
  BY <1>1, CallsBlock
<1>3. ~ComesBack(fn, Here)
  BY <1>2 DEF ComesBack
<1> DEFINE x == Here.args[1]
<1>4. CASE AtomicsOf(x) = {}
  <2>1. SimpleCall(None, None, "Function")
    BY <1>4 DEF AtomicCall
  <2>2. ~OnAtomic(fn, Here) /\ None \in CallPuts(fn, Here) /\ None \in CallTakes(fn, Here)
    BY <1>2, <1>4 DEF OnAtomic, CallPuts, CallTakes
  <2> QED
    BY <1>1, <1>3, <2>1, <2>2, SimpleStep
<1>5. CASE AtomicsOf(x) # {}
  <2> DEFINE operation == OperationPlace(fn, bb)
             type == IF Here.api = "atomicLoad" THEN "AtomicLoad" ELSE "AtomicStore"
             access(a) == T(One(operation) (+) One(AtomicPlace(a)) (+) None,
                            Target(Here) (+) One(AtomicPlace(a)) (+) None, type)
             call == T(One(LastPlace), One(operation), "Function")
             ids == {<<fn, bb, "call", 0>>} \cup {<<fn, bb, "atomic", a>> : a \in AtomicsOf(x)}
             added == [id \in ids |-> IF id[3] = "call" THEN call ELSE access(id[4])]
  <2>1. ~prog.segments
    BY DEF EndingBlock, Describable
  <2>2. ~Synchronizes(x) /\ ~Advances(x) /\ SegIn(x) = None /\ SegOut(x) = None
    BY <2>1 DEF Synchronizes, Advances, SegIn, SegOut
  <2>3. WithPlaces({operation}) /\ trans' = Extend(trans, added) /\ ret' = ret
    BY <1>5, <2>2 DEF AtomicCall, WithPlaces
  <2>4. OnAtomic(fn, Here)
    BY <1>2, <1>5 DEF OnAtomic
  <2>5. TermIds(fn, bb) = ids /\ TermPlaces(fn, bb) = {operation}
    BY <1>2, <1>3, <2>4 DEF CallIds, TermPlaces
  <2>6. ASSUME NEW id \in ids PROVE Shape(id, added[id])
    <3>1. CASE id = <<fn, bb, "call", 0>>
      <4>1. added[id] = call
        BY <3>1
      <4>2. call.in = One(Leaves(fn, bb)) /\ call.out = One(operation) /\ call.type = "Function"
        BY LeavesBlock DEF T
      <4> HIDE DEF call, added, operation
      <4>3. CallShape(fn, bb, call)
        BY <1>2, <2>4, <4>2 DEF CallShape, operation
      <4> QED
        BY <3>1, <4>1, <4>2, <4>3 DEF Shape
    <3>2. CASE \E a \in AtomicsOf(x) : id = <<fn, bb, "atomic", a>>
      <4>1. PICK a \in AtomicsOf(x) : id = <<fn, bb, "atomic", a>>
        BY <3>2
      <4>2. added[id] = access(a)
        BY <4>1
      <4>3. /\ access(a).in = (One(operation) (+) One(AtomicPlace(a))) (+) None
            /\ access(a).out = (Leads(fn, Here) (+) One(AtomicPlace(a))) (+) None
            /\ access(a).type # "UnsafeAccess"
        BY <1>2, LeavesBlock DEF T
      <4> HIDE DEF access, added, operation
      <4>4. AtomicShape(fn, bb, a, access(a))
        BY <1>2, <4>3 DEF AtomicShape, operation
      <4> QED
        BY <4>1, <4>2, <4>3, <4>4 DEF Shape
    <3> QED
      BY <3>1, <3>2
  <2>7. DOMAIN added = ids
    OBVIOUS
  <2> HIDE DEF added, ids
  <2> QED
    BY <1>2, <2>3, <2>5, <2>6, <2>7, TermStep DEF EndingBlock
<1> QED
  BY <1>4, <1>5
-----------------------------------------------------------------------------
LEMMA BuildTerminator ==
  ASSUME BuildInv, Terminator, Describable, HandlesFollowed
  PROVE  BuildInv'
<1>1. EndingBlock
  <2>1. phase = "visit" /\ step = "term" /\ EndBlock
    BY DEF Terminator, AtTerm, AtCall, Call, Goto, AssertGoto, Fallthrough, Terminal,
      Switch, Suspend, Return, Drop, DivergingCall, ConnectCall, LockCall, NotifyCall,
      WaitCall, DropCall, SendCall, RecvCall, SpawnCall, JoinCall, ScopeSpawnCall,
      RayonJoinCall, AtomicCall, PanicCall, NormalCall, SimpleCall, WaitRet
  <2> QED
    BY <2>1, PlacedKept DEF EndingBlock, BuildInv, Translate
<1>2. ~ScopeSpawnCall
  BY <1>1, HandledCalls DEF ScopeSpawnCall
<1> QED
  BY <1>1, <1>2, BuildGoto, BuildAssertGoto, BuildFallthrough, BuildTerminal, BuildSwitch,
    BuildSuspend, BuildReturn, BuildDrop, BuildDivergingCall, BuildConnectCall, BuildLockCall,
    BuildNotifyCall, BuildWaitCall, BuildDropCall, BuildSendCall, BuildRecvCall, BuildSpawnCall,
    BuildJoinCall, BuildRayonJoinCall, BuildAtomicCall, BuildPanicCall, BuildNormalCall
  DEF Terminator, Call

(* Every step of the translation keeps to the description. *)
LEMMA BuildKept ==
  ASSUME BuildInv, Translate, Describable, HandlesFollowed
  PROVE  BuildInv'
<1>1. ASSUME Panic PROVE BuildInv'
  <2>1. VisitorPlaced' /\ phase' = "panicked"
    BY <1>1, PlacedKept DEF BuildInv, Translate, Panic
  <2> QED
    BY <2>1 DEF BuildInv
<1> QED
  BY <1>1, BuildConstruct, BuildBeginBody, BuildSkipBody, BuildEndBody, BuildFinish, BuildSkipBlock,
    BuildVisitStatements, BuildStartBlock, BuildTerminator DEF Translate
-----------------------------------------------------------------------------
(* That handles are followed to their threads, through moves and blocks, of *)
(* the programs that HandlesInOrder describes.                              *)

(* The moves of a block that is scanned. *)
HandleMoves(f, b) == IF Term(f, b).op = "assert" THEN <<>> ELSE Block(f, b).moves

Spawns(f, b) == HasPlace(f, b) /\ Term(f, b).op = "call" /\ Handler(f, Term(f, b)) = "spawn"

Joins(f, b) == HasPlace(f, b) /\ Term(f, b).op = "call" /\ Handler(f, Term(f, b)) = "join"

IsHandle(x) == x \in DOMAIN prog.thread

Move(f, b, i) == HandleMoves(f, b)[i]

(* The local has been given its handle before move k of block b: by a spawn *)
(* or by another move.                                                      *)
Given(f, b, k, x) ==
  \/ \E c \in BlocksOf(f) : c < b /\ Spawns(f, c) /\ Term(f, c).dest = x
  \/ \E c \in BlocksOf(f) : \E i \in 1 .. Len(HandleMoves(f, c)) :
       /\ HasPlace(f, c)
       /\ c < b \/ (c = b /\ i < k)
       /\ Move(f, c, i)[1] = x
       /\ IsHandle(Move(f, c, i)[2])

(* Programs that use a handle, to move or to join it, only after it was     *)
(* given, in the order of the blocks.  A handle stays with its thread.      *)
HandlesInOrder ==
  \A f \in NodeFuncs \ prog.serde : \A b \in BlocksOf(f) :
    /\ Spawns(f, b) =>
         /\ IsHandle(Term(f, b).dest)
         /\ ClosureAt(Term(f, b), 1) \ prog.ignored = {prog.thread[Term(f, b).dest]}
         /\ ClosureAt(Term(f, b), 1) \subseteq NodeFuncs
    /\ Len(HandleMoves(f, b)) \in Nat
    /\ HasPlace(f, b) => \A i \in 1 .. Len(HandleMoves(f, b)) :
         LET dst == Move(f, b, i)[1]
             src == Move(f, b, i)[2]
         IN  IsHandle(src) =>
               /\ IsHandle(dst) /\ prog.thread[dst] = prog.thread[src]
               /\ Given(f, b, i, src)
    /\ Joins(f, b) => /\ IsHandle(Term(f, b).args[1])
                      /\ Given(f, b, Len(HandleMoves(f, b)) + 1, Term(f, b).args[1])

(* Handles that stand for the threads they are handles of. *)
Stands(ends) == \A x \in DOMAIN ends : IsHandle(x) /\ ends[x] = EndPlace(prog.thread[x])

MovesKnown(ends, f, b) ==
  \A i \in 1 .. Len(HandleMoves(f, b)) :
    IsHandle(Move(f, b, i)[2]) => Move(f, b, i)[1] \in DOMAIN ends

(* Every handle that was given before the point the visitor has reached is  *)
(* known, and known to stand for its thread.                                *)
HandlesKnown ==
  Visiting =>
    /\ fn \notin prog.serde
    /\ Stands(handle)
    /\ \A c \in BlocksOf(fn) : c < bb /\ Spawns(fn, c) => Term(fn, c).dest \in DOMAIN handle
    /\ \A c \in BlocksOf(fn) :
         HasPlace(fn, c) /\ (c < bb \/ (c = bb /\ step # "stmts")) => MovesKnown(handle, fn, c)
-----------------------------------------------------------------------------
(* The moves of a block, one after another. *)
FollowMove(m, e) == IF m[2] \in DOMAIN e THEN Extend([x \in {m[1]} |-> e[m[2]]], e) ELSE e

IsFollowing(followed, ends, moves, n) ==
  followed = [k \in 0 .. n |->
    IF k = 0 THEN ends
    ELSE IF moves[k][2] \in DOMAIN followed[k - 1]
      THEN Extend([x \in {moves[k][1]} |-> followed[k - 1][moves[k][2]]], followed[k - 1])
    ELSE followed[k - 1]]

MoveByMove(followed, ends, moves, n) ==
  /\ followed = [k \in 0 .. n |-> followed[k]]
  /\ followed[0] = ends
  /\ \A k \in 1 .. n : followed[k] = FollowMove(moves[k], followed[k - 1])

LEMMA FollowingSteps ==
  ASSUME NEW followed, NEW ends, NEW moves, NEW n \in Nat
  PROVE  IsFollowing(followed, ends, moves, n) <=> MoveByMove(followed, ends, moves, n)
<1> DEFINE value(k) ==
      IF k = 0 THEN ends
      ELSE IF moves[k][2] \in DOMAIN followed[k - 1]
        THEN Extend([x \in {moves[k][1]} |-> followed[k - 1][moves[k][2]]], followed[k - 1])
      ELSE followed[k - 1]
<1>0. IsFollowing(followed, ends, moves, n) <=> followed = [k \in 0 .. n |-> value(k)]
  BY Zenon DEF IsFollowing
<1>1. value(0) = ends
  OBVIOUS
<1>2. \A k \in 1 .. n : value(k) = FollowMove(moves[k], followed[k - 1])
  <2> TAKE k \in 1 .. n
  <2>1. k # 0
    OBVIOUS
  <2> QED
    BY <2>1, Zenon DEF FollowMove
<1> HIDE DEF value
<1>3. 0 \in 0 .. n /\ (\A k \in 1 .. n : k \in 0 .. n) /\ (\A k \in 0 .. n : k = 0 \/ k \in 1 .. n)
  OBVIOUS
<1> QED
  BY <1>0, <1>1, <1>2, <1>3, Zenon DEF MoveByMove

LEMMA FollowingExists ==
  ASSUME NEW ends, NEW moves, NEW n \in Nat
  PROVE  \E followed : IsFollowing(followed, ends, moves, n)
<1> DEFINE S == {k \in Nat : \E followed : IsFollowing(followed, ends, moves, k)}
<1>1. 0 \in S
  <2> DEFINE h == [k \in 0 .. 0 |-> ends]
  <2>1. MoveByMove(h, ends, moves, 0)
    BY DEF MoveByMove
  <2> HIDE DEF h
  <2>2. IsFollowing(h, ends, moves, 0)
    BY <2>1, FollowingSteps
  <2> QED
    BY <2>2
<1>2. \A k \in Nat : k \in S => k + 1 \in S
  <2> SUFFICES ASSUME NEW k \in Nat, NEW h, IsFollowing(h, ends, moves, k)
               PROVE  \E followed : IsFollowing(followed, ends, moves, k + 1)
    OBVIOUS
  <2>1. h[0] = ends /\ \A i \in 1 .. k : h[i] = FollowMove(moves[i], h[i - 1])
    <3>1. MoveByMove(h, ends, moves, k)
      BY FollowingSteps
    <3> QED
      BY <3>1 DEF MoveByMove
  <2> DEFINE g == [i \in 0 .. k + 1 |-> IF i = k + 1 THEN FollowMove(moves[k + 1], h[k]) ELSE h[i]]
  <2>2. g = [i \in 0 .. k + 1 |-> g[i]] /\ g[0] = ends
    BY <2>1
  <2>3. ASSUME NEW i \in 1 .. k + 1 PROVE g[i] = FollowMove(moves[i], g[i - 1])
    <3>1. CASE i = k + 1
      <4>1. g[i] = FollowMove(moves[i], h[i - 1]) /\ g[i - 1] = h[i - 1]
        BY <3>1
      <4> QED
        BY <4>1
    <3>2. CASE i # k + 1
      <4>1. i \in 1 .. k /\ i \in 0 .. k + 1 /\ i - 1 \in 0 .. k + 1 /\ i - 1 # k + 1
        BY <2>3, <3>2
      <4>2. g[i] = h[i] /\ g[i - 1] = h[i - 1]
        BY <3>2, <4>1
      <4> QED
        BY <2>1, <4>1, <4>2
    <3> QED
      BY <3>1, <3>2
  <2> HIDE DEF g
  <2>4. k + 1 \in Nat
    OBVIOUS
  <2>5. MoveByMove(g, ends, moves, k + 1)
    BY <2>2, <2>3 DEF MoveByMove
  <2>6. IsFollowing(g, ends, moves, k + 1)
    BY <2>4, <2>5, FollowingSteps
  <2> QED
    BY <2>6
<1> HIDE DEF S
<1>3. n \in S
  BY <1>1, <1>2, NatSet
<1> QED
  BY <1>3 DEF S

(* What one move does to handles that stand for their threads. *)
LEMMA OneFollowed ==
  ASSUME NEW e, NEW m, Stands(e),
         IsHandle(m[2]) => IsHandle(m[1]) /\ prog.thread[m[1]] = prog.thread[m[2]] /\ m[2] \in DOMAIN e
  PROVE  /\ Stands(FollowMove(m, e))
         /\ DOMAIN e \subseteq DOMAIN FollowMove(m, e)
         /\ IsHandle(m[2]) => m[1] \in DOMAIN FollowMove(m, e)
<1>1. CASE m[2] \notin DOMAIN e
  BY <1>1 DEF FollowMove
<1>2. CASE m[2] \in DOMAIN e
  <2> DEFINE d == [x \in {m[1]} |-> e[m[2]]]
             r == Extend(d, e)
  <2>1. FollowMove(m, e) = r
    BY <1>2 DEF FollowMove
  <2>2. DOMAIN r = {m[1]} \cup DOMAIN e /\ \A x \in DOMAIN r : r[x] = IF x = m[1] THEN e[m[2]] ELSE e[x]
    BY DEF Extend
  <2> HIDE DEF r
  <2>3. IsHandle(m[1]) /\ e[m[2]] = EndPlace(prog.thread[m[1]])
    BY <1>2 DEF Stands
  <2> QED
    BY <2>1, <2>2, <2>3 DEF Stands
<1> QED
  BY <1>1, <1>2

(* What the moves of a block do: when handles are given before they are     *)
(* moved, all of them are known in the end.                                 *)
LEMMA MovedStands ==
  ASSUME NEW ends, NEW moves, Len(moves) \in Nat, Stands(ends),
         \A i \in 1 .. Len(moves) : IsHandle(moves[i][2]) =>
           /\ IsHandle(moves[i][1]) /\ prog.thread[moves[i][1]] = prog.thread[moves[i][2]]
           /\ \/ moves[i][2] \in DOMAIN ends
              \/ \E j \in 1 .. Len(moves) : j < i /\ moves[j][1] = moves[i][2] /\ IsHandle(moves[j][2])
  PROVE  /\ Stands(Moved(ends, moves))
         /\ DOMAIN ends \subseteq DOMAIN Moved(ends, moves)
         /\ \A i \in 1 .. Len(moves) : IsHandle(moves[i][2]) => moves[i][1] \in DOMAIN Moved(ends, moves)
<1> DEFINE n == Len(moves)
<1>1. PICK followed : IsFollowing(followed, ends, moves, n) /\ Moved(ends, moves) = followed[n]
  <2>1. \E f : IsFollowing(f, ends, moves, n)
    BY FollowingExists
  <2> DEFINE f == CHOOSE f : IsFollowing(f, ends, moves, n)
  <2>2. IsFollowing(f, ends, moves, n)
    BY <2>1
  <2>3. Moved(ends, moves) = f[n]
    BY DEF Moved, IsFollowing
  <2> HIDE DEF f
  <2> QED
    BY <2>2, <2>3
<1> DEFINE AfterMoves(k) ==
      /\ Stands(followed[k])
      /\ DOMAIN ends \subseteq DOMAIN followed[k]
      /\ \A i \in 1 .. n : i =< k /\ IsHandle(moves[i][2]) => moves[i][1] \in DOMAIN followed[k]
           S == {k \in Nat : k =< n => AfterMoves(k)}
<1>2. n \in Nat /\ followed[0] = ends /\ \A k \in 1 .. n : followed[k] = FollowMove(moves[k], followed[k - 1])
  BY <1>1, FollowingSteps DEF MoveByMove
<1>3. 0 \in S
  <2>1. \A i \in 1 .. n : ~(i =< 0)
    BY <1>2
  <2> QED
    BY <1>2, <2>1
<1>4. ASSUME NEW k \in Nat, k \in S PROVE k + 1 \in S
  <2> SUFFICES ASSUME k + 1 =< n PROVE AfterMoves(k + 1)
    OBVIOUS
  <2>1. k =< n /\ k + 1 \in 1 .. n /\ (k + 1) - 1 = k /\ k + 1 \in Nat
    BY <1>2
  <2>2. AfterMoves(k)
    BY <1>4, <2>1
  <2> DEFINE m == moves[k + 1]
             e == followed[k]
  <2>3. followed[k + 1] = FollowMove(m, e)
    BY <1>2, <2>1
  <2>4. IsHandle(m[2]) => IsHandle(m[1]) /\ prog.thread[m[1]] = prog.thread[m[2]] /\ m[2] \in DOMAIN e
    <3> SUFFICES ASSUME IsHandle(m[2]) PROVE m[2] \in DOMAIN e
      BY <2>1
    <3>1. \/ m[2] \in DOMAIN ends
          \/ \E j \in 1 .. n : j < k + 1 /\ moves[j][1] = m[2] /\ IsHandle(moves[j][2])
      BY <2>1
    <3>2. \A j \in 1 .. n : j < k + 1 => j =< k
      BY <1>2
    <3> QED
      BY <2>2, <3>1, <3>2
  <2>5. Stands(e)
    BY <2>2
  <2> HIDE DEF m, e
  <2>6. /\ Stands(FollowMove(m, e)) /\ DOMAIN e \subseteq DOMAIN FollowMove(m, e)
        /\ IsHandle(m[2]) => m[1] \in DOMAIN FollowMove(m, e)
    BY <2>4, <2>5, OneFollowed
  <2>7. ASSUME NEW i \in 1 .. n, i =< k + 1, IsHandle(moves[i][2])
        PROVE  moves[i][1] \in DOMAIN followed[k + 1]
    <3>1. CASE i = k + 1
      BY <2>3, <2>6, <2>7, <3>1 DEF m
    <3>2. CASE i # k + 1
      <4>1. i =< k
        BY <1>2, <2>7, <3>2
      <4>2. moves[i][1] \in DOMAIN followed[k]
        BY <2>2, <2>7, <4>1
      <4> QED
        BY <2>3, <2>6, <4>2 DEF e
    <3> QED
      BY <3>1, <3>2
  <2>8. Stands(followed[k + 1]) /\ DOMAIN ends \subseteq DOMAIN followed[k + 1]
    BY <2>2, <2>3, <2>6 DEF e
  <2> QED
    BY <2>7, <2>8
<1> HIDE DEF S, AfterMoves
<1>5. n \in S
  BY <1>2, <1>3, <1>4, NatSet
<1>6. AfterMoves(n)
  BY <1>2, <1>5 DEF S
<1>7. \A i \in 1 .. n : i =< n
  BY <1>2
<1> QED
  BY <1>1, <1>6, <1>7 DEF AfterMoves

LEMMA StaticHandles ==
  ASSUME prog' = prog
  PROVE  /\ \A f : BlocksOf(f)' = BlocksOf(f)
         /\ \A f, b : Term(f, b)' = Term(f, b)
         /\ \A f, b : HasPlace(f, b)' = HasPlace(f, b)
         /\ \A f, b : Spawns(f, b)' = Spawns(f, b)
         /\ \A e : Stands(e)' = Stands(e)
         /\ \A e, f, b : MovesKnown(e, f, b)' = MovesKnown(e, f, b)
<1>1. \A f, b : Term(f, b)' = Term(f, b) /\ Block(f, b)' = Block(f, b) /\ BlocksOf(f)' = BlocksOf(f)
  BY DEF Term, Block, BlocksOf
<1>2. \A f, b : HasPlace(f, b)' = HasPlace(f, b)
  BY <1>1 DEF HasPlace, Excluded
<1>3. \A f, t : Handler(f, t)' = Handler(f, t)
  BY SMT DEF Handler, Acquires, IsGuard, Recognised, ChannelsOf, Block
<1>4. \A f, b : Spawns(f, b)' = Spawns(f, b)
  BY <1>1, <1>2, <1>3 DEF Spawns
<1>5. \A e : Stands(e)' = Stands(e)
  BY DEF Stands, IsHandle, EndPlace
<1>6. \A e, f, b : MovesKnown(e, f, b)' = MovesKnown(e, f, b)
  BY DEF MovesKnown, IsHandle, Move, HandleMoves, Term, Block
<1> QED
  BY <1>1, <1>2, <1>4, <1>5, <1>6

LEMMA HandlesInit == TransInit => HandlesKnown
  BY DEF TransInit, HandlesKnown, Visiting

(* The visitor goes on to the next block with the handles it knows. *)
LEMMA HandlesPass ==
  ASSUME VisitorPlaced, HandlesKnown, Visiting, prog' = prog,
         handle' = handle, bb' = bb + 1, step' = "stmts", node' = node, ~Spawns(fn, bb),
         step = "term" \/ ~HasPlace(fn, bb)
  PROVE  HandlesKnown'
<1>1. fn' = fn /\ bb \in Nat /\ \A c \in BlocksOf(fn) : c < bb + 1 => c < bb \/ c = bb
  BY DEF fn, VisitorPlaced, Visiting, BlocksOf
<1>2. /\ fn \notin prog.serde /\ Stands(handle)
      /\ \A c \in BlocksOf(fn) : c < bb /\ Spawns(fn, c) => Term(fn, c).dest \in DOMAIN handle
      /\ \A c \in BlocksOf(fn) :
           HasPlace(fn, c) /\ (c < bb \/ (c = bb /\ step # "stmts")) => MovesKnown(handle, fn, c)
  BY DEF HandlesKnown
<1>3. \A c \in BlocksOf(fn) : c < bb + 1 /\ Spawns(fn, c) => Term(fn, c).dest \in DOMAIN handle
  BY <1>1, <1>2
<1>4. \A c \in BlocksOf(fn) : HasPlace(fn, c) /\ c < bb + 1 => MovesKnown(handle, fn, c)
  BY <1>1, <1>2
<1> QED
  BY <1>1, <1>2, <1>3, <1>4, StaticHandles DEF HandlesKnown

LEMMA HandlesBeginBody ==
  ASSUME BeginBody, prog' = prog
  PROVE  HandlesKnown'
<1>1. fn' = fn /\ fn \notin prog.serde /\ bb' = 0 /\ handle' = <<>> /\ step' = "stmts"
  BY DEF BeginBody, fn
<1>2. \A c \in BlocksOf(fn) : ~(c < 0)
  BY DEF BlocksOf
<1>3. Stands(handle')
  BY <1>1 DEF Stands
<1> QED
  BY <1>1, <1>2, <1>3, StaticHandles DEF HandlesKnown

LEMMA HandlesVisitStatements ==
  ASSUME VisitorPlaced, HandlesInOrder, HandlesKnown, VisitStatements
  PROVE  HandlesKnown'
<1>1. /\ prog' = prog /\ node' = node /\ bb' = bb /\ fn' = fn /\ Here = Term(fn, bb)
      /\ Visiting /\ step = "stmts" /\ step' # "stmts" /\ bb \in Nat
      /\ fn \in NodeFuncs /\ bb \in BlocksOf(fn) /\ HasPlace(fn, bb)
  BY DEF VisitStatements, fn, Visiting, VisitorPlaced, NodeFuncs, HasPlace, Here
<1>2. /\ fn \notin prog.serde /\ Stands(handle)
      /\ \A c \in BlocksOf(fn) : c < bb /\ Spawns(fn, c) => Term(fn, c).dest \in DOMAIN handle
      /\ \A c \in BlocksOf(fn) : HasPlace(fn, c) /\ c < bb => MovesKnown(handle, fn, c)
  BY <1>1 DEF HandlesKnown
<1> DEFINE moves == HandleMoves(fn, bb)
<1>3. Stands(handle') /\ DOMAIN handle \subseteq DOMAIN handle' /\ MovesKnown(handle', fn, bb)
  <2>1. CASE Here.op = "assert"
    <3>1. handle' = handle /\ moves = <<>>
      BY <1>1, <2>1 DEF VisitStatements, HandleMoves
    <3>2. \A i : i \notin 1 .. Len(moves)
      BY <3>1
    <3> QED
      BY <1>2, <3>1, <3>2 DEF MovesKnown
  <2>2. CASE Here.op # "assert"
    <3>1. handle' = Moved(handle, moves)
      BY <1>1, <2>2 DEF VisitStatements, HandleMoves
    <3>2. /\ Len(moves) \in Nat
          /\ \A i \in 1 .. Len(moves) : IsHandle(moves[i][2]) =>
               /\ IsHandle(moves[i][1]) /\ prog.thread[moves[i][1]] = prog.thread[moves[i][2]]
               /\ Given(fn, bb, i, moves[i][2])
      BY <1>1, <1>2 DEF HandlesInOrder, Move
    <3>3. ASSUME NEW i \in 1 .. Len(moves), IsHandle(moves[i][2])
          PROVE  \/ moves[i][2] \in DOMAIN handle
                 \/ \E j \in 1 .. Len(moves) : j < i /\ moves[j][1] = moves[i][2] /\ IsHandle(moves[j][2])
      <4>1. Given(fn, bb, i, moves[i][2])
        BY <3>2, <3>3
      <4>2. CASE \E c \in BlocksOf(fn) : c < bb /\ Spawns(fn, c) /\ Term(fn, c).dest = moves[i][2]
        BY <1>2, <4>2
      <4>3. CASE \E c \in BlocksOf(fn) : \E j \in 1 .. Len(HandleMoves(fn, c)) :
                   /\ HasPlace(fn, c)
                   /\ c < bb \/ (c = bb /\ j < i)
                   /\ Move(fn, c, j)[1] = moves[i][2]
                   /\ IsHandle(Move(fn, c, j)[2])
        <5>0. PICK c \in BlocksOf(fn) : \E j \in 1 .. Len(HandleMoves(fn, c)) :
                /\ HasPlace(fn, c)
                /\ c < bb \/ (c = bb /\ j < i)
                /\ Move(fn, c, j)[1] = moves[i][2]
                /\ IsHandle(Move(fn, c, j)[2])
          BY <4>3
        <5>1. PICK j \in 1 .. Len(HandleMoves(fn, c)) :
                /\ HasPlace(fn, c)
                /\ c < bb \/ (c = bb /\ j < i)
                /\ Move(fn, c, j)[1] = moves[i][2]
                /\ IsHandle(Move(fn, c, j)[2])
          BY <5>0
        <5>2. CASE c < bb
          BY <1>2, <5>1, <5>2 DEF MovesKnown
        <5>3. CASE c = bb /\ j < i
          BY <5>1, <5>3 DEF Move
        <5> QED
          BY <5>1, <5>2, <5>3
      <4> QED
        BY <4>1, <4>2, <4>3 DEF Given
    <3> HIDE DEF moves
    <3>4. /\ Stands(Moved(handle, moves))
          /\ DOMAIN handle \subseteq DOMAIN Moved(handle, moves)
          /\ \A i \in 1 .. Len(moves) :
               IsHandle(moves[i][2]) => moves[i][1] \in DOMAIN Moved(handle, moves)
      BY <1>2, <3>2, <3>3, MovedStands
    <3>5. MovesKnown(Moved(handle, moves), fn, bb)
      BY <3>4 DEF MovesKnown, Move, moves
    <3> QED
      BY <3>1, <3>4, <3>5
  <2> QED
    BY <2>1, <2>2
<1>4. \A c \in BlocksOf(fn) : c < bb /\ Spawns(fn, c) => Term(fn, c).dest \in DOMAIN handle'
  BY <1>2, <1>3
<1>5. \A c \in BlocksOf(fn) : HasPlace(fn, c) /\ (c < bb \/ c = bb) => MovesKnown(handle', fn, c)
  BY <1>2, <1>3 DEF MovesKnown
<1>6. (fn \notin prog.serde /\ Stands(handle))'
  <2>1. Stands(handle)' = Stands(handle')
    BY <1>1, StaticHandles DEF Stands, IsHandle, EndPlace
  <2> QED
    BY <1>1, <1>2, <1>3, <2>1
<1>7. (\A c \in BlocksOf(fn) : c < bb /\ Spawns(fn, c) => Term(fn, c).dest \in DOMAIN handle)'
  BY <1>1, <1>4, StaticHandles
<1>8. (\A c \in BlocksOf(fn) :
         HasPlace(fn, c) /\ (c < bb \/ (c = bb /\ step # "stmts")) => MovesKnown(handle, fn, c))'
  <2>1. \A c : MovesKnown(handle, fn, c)' = MovesKnown(handle', fn, c)
    BY <1>1 DEF MovesKnown, IsHandle, Move, HandleMoves, Term, Block
  <2> QED
    BY <1>1, <1>5, <2>1, StaticHandles
<1> QED
  BY <1>6, <1>7, <1>8 DEF HandlesKnown

LEMMA HandlesSpawnCall ==
  ASSUME VisitorPlaced, HandlesInOrder, HandlesKnown, SpawnCall
  PROVE  HandlesKnown'
<1>1. /\ prog' = prog /\ node' = node /\ bb' = bb + 1 /\ fn' = fn /\ Here = Term(fn, bb)
      /\ Visiting /\ step = "term" /\ step' = "stmts" /\ bb \in Nat
      /\ fn \in NodeFuncs /\ bb \in BlocksOf(fn) /\ HasPlace(fn, bb) /\ Spawns(fn, bb)
  BY DEF SpawnCall, AtCall, AtTerm, EndBlock, fn, Visiting, VisitorPlaced, NodeFuncs, HasPlace, Here, Spawns
<1>2. /\ fn \notin prog.serde /\ Stands(handle)
      /\ \A c \in BlocksOf(fn) : c < bb /\ Spawns(fn, c) => Term(fn, c).dest \in DOMAIN handle
      /\ \A c \in BlocksOf(fn) : HasPlace(fn, c) /\ (c < bb \/ c = bb) => MovesKnown(handle, fn, c)
  BY <1>1 DEF HandlesKnown
<1> DEFINE x == Here.dest
           g == prog.thread[x]
<1>3. IsHandle(x) /\ ClosureAt(Here, 1) \cap functions = {g}
  <2>1. /\ IsHandle(x) /\ ClosureAt(Here, 1) \ prog.ignored = {g}
        /\ ClosureAt(Here, 1) \subseteq NodeFuncs
    BY <1>1, <1>2 DEF HandlesInOrder
  <2>2. functions = NodeFuncs \ prog.ignored
    BY DEF SpawnCall, AtCall, AtTerm, VisitorPlaced
  <2> QED
    BY <2>1, <2>2
<1>4. handle' = Extend([y \in {x} |-> EndPlace(g)], handle)
  <2>1. ClosureAt(Here, 1) \cap functions # {} /\ \A h \in ClosureAt(Here, 1) \cap functions : h = g
    BY <1>3
  <2> QED
    BY <2>1 DEF SpawnCall
<1> HIDE DEF g, x
<1>5. DOMAIN handle' = {x} \cup DOMAIN handle
      /\ \A y \in DOMAIN handle' : handle'[y] = IF y = x THEN EndPlace(g) ELSE handle[y]
  BY <1>4 DEF Extend
<1>6. Stands(handle') /\ DOMAIN handle \subseteq DOMAIN handle' /\ x \in DOMAIN handle'
  BY <1>2, <1>3, <1>5 DEF Stands, g
<1>7. \A c \in BlocksOf(fn) : c < bb + 1 => c < bb \/ c = bb
  BY <1>1 DEF BlocksOf
<1>8. \A c \in BlocksOf(fn) : c < bb + 1 /\ Spawns(fn, c) => Term(fn, c).dest \in DOMAIN handle'
  BY <1>1, <1>2, <1>6, <1>7 DEF x
<1>9. \A c \in BlocksOf(fn) : HasPlace(fn, c) /\ c < bb + 1 => MovesKnown(handle', fn, c)
  BY <1>2, <1>6, <1>7 DEF MovesKnown
<1>10. (fn \notin prog.serde /\ Stands(handle))'
  <2>1. Stands(handle)' = Stands(handle')
    BY <1>1, StaticHandles DEF Stands, IsHandle, EndPlace
  <2> QED
    BY <1>1, <1>2, <1>6, <2>1
<1>11. (\A c \in BlocksOf(fn) : c < bb /\ Spawns(fn, c) => Term(fn, c).dest \in DOMAIN handle)'
  BY <1>1, <1>8, StaticHandles
<1>12. (\A c \in BlocksOf(fn) :
         HasPlace(fn, c) /\ (c < bb \/ (c = bb /\ step # "stmts")) => MovesKnown(handle, fn, c))'
  <2>1. \A c : MovesKnown(handle, fn, c)' = MovesKnown(handle', fn, c)
    BY <1>1 DEF MovesKnown, IsHandle, Move, HandleMoves, Term, Block
  <2> QED
    BY <1>1, <1>9, <2>1, StaticHandles
<1> QED
  BY <1>10, <1>11, <1>12 DEF HandlesKnown

(* No other handler of a terminator gives a handle. *)
LEMMA HandlesTerminator ==
  ASSUME VisitorPlaced, HandlesInOrder, HandlesKnown, Terminator
  PROVE  HandlesKnown'
<1>1. CASE SpawnCall
  BY <1>1, HandlesSpawnCall
<1>2. CASE ~SpawnCall
  <2>1. /\ phase = "visit" /\ step = "term" /\ EndBlock /\ handle' = handle
        /\ Here.op = "call" => \E h : Handler(fn, Here) = h /\ h # "spawn"
    BY <1>2 DEF Terminator, AtTerm, AtCall, Call, Goto, AssertGoto, Fallthrough, Terminal,
      Switch, Suspend, Return, Drop, DivergingCall, ConnectCall, LockCall, NotifyCall,
      WaitCall, DropCall, SendCall, RecvCall, JoinCall, ScopeSpawnCall,
      RayonJoinCall, AtomicCall, PanicCall, NormalCall, SimpleCall, WaitRet, Emit, EmitTerminal, bodyVars
  <2>2. ~Spawns(fn, bb) /\ Visiting
    BY <2>1 DEF Spawns, Here, Visiting
  <2> QED
    BY <2>1, <2>2, HandlesPass DEF EndBlock
<1> QED
  BY <1>1, <1>2

LEMMA HandlesStep ==
  ASSUME VisitorPlaced, HandlesInOrder, HandlesKnown, Translate
  PROVE  HandlesKnown'
<1>0. prog' = prog
  BY PlacedKept
<1>1. CASE SkipBlock
  <2>1. Visiting /\ ~HasPlace(fn, bb) /\ ~Spawns(fn, bb)
    BY <1>1 DEF SkipBlock, Visiting, HasPlace, Spawns
  <2> QED
    BY <1>0, <1>1, <2>1, HandlesPass DEF SkipBlock, bodyVars
<1>2. CASE StartBlock
  <2>1. /\ Visiting /\ fn' = fn /\ bb' = bb /\ handle' = handle /\ step # "stmts"
    BY <1>2 DEF StartBlock, Visiting, bodyVars, fn
  <2> QED
    BY <1>0, <2>1, StaticHandles DEF HandlesKnown
<1>3. CASE Construct \/ SkipBody \/ EndBody \/ Finish \/ Panic
  BY <1>3 DEF Construct, SkipBody, EndBody, Finish, Panic, HandlesKnown, Visiting, VisitorPlaced
<1> QED
  BY <1>0, <1>1, <1>2, <1>3, HandlesBeginBody, HandlesVisitStatements, HandlesTerminator DEF Translate

(* A join is given the end of the thread whose handle it has. *)
LEMMA JoinFollowed == VisitorPlaced /\ HandlesInOrder /\ HandlesKnown => HandlesFollowed
<1> SUFFICES ASSUME VisitorPlaced, HandlesInOrder, HandlesKnown, AtCall("join")
             PROVE  JoinedEnds(Here) = {EndPlace(prog.thread[Here.args[1]])}
  BY DEF HandlesFollowed
<1> DEFINE x == Here.args[1]
           k == Len(HandleMoves(fn, bb)) + 1
<1>1. /\ Visiting /\ step = "term" /\ fn \in NodeFuncs /\ bb \in BlocksOf(fn)
      /\ Here = Term(fn, bb) /\ Joins(fn, bb) /\ Here.api = "join"
  BY DEF AtCall, AtTerm, VisitorPlaced, Visiting, fn, NodeFuncs, Here, Joins, HasPlace, Handler
<1>2. /\ fn \notin prog.serde /\ Stands(handle)
      /\ \A c \in BlocksOf(fn) : c < bb /\ Spawns(fn, c) => Term(fn, c).dest \in DOMAIN handle
      /\ \A c \in BlocksOf(fn) : HasPlace(fn, c) /\ (c < bb \/ c = bb) => MovesKnown(handle, fn, c)
  BY <1>1 DEF HandlesKnown
<1>3. Given(fn, bb, k, x)
  BY <1>1, <1>2 DEF HandlesInOrder
<1> HIDE DEF x, k
<1>4. x \in DOMAIN handle
  <2>1. CASE \E c \in BlocksOf(fn) : c < bb /\ Spawns(fn, c) /\ Term(fn, c).dest = x
    BY <1>2, <2>1
  <2>2. CASE \E c \in BlocksOf(fn) : \E i \in 1 .. Len(HandleMoves(fn, c)) :
               /\ HasPlace(fn, c)
               /\ c < bb \/ (c = bb /\ i < k)
               /\ Move(fn, c, i)[1] = x
               /\ IsHandle(Move(fn, c, i)[2])
    BY <1>2, <2>2 DEF MovesKnown
  <2> QED
    BY <1>3, <2>1, <2>2 DEF Given
<1>5. Known(Here) /\ handle[x] = EndPlace(prog.thread[x])
  BY <1>1, <1>2, <1>4 DEF Known, Stands, x
<1> QED
  BY <1>5 DEF JoinedEnds, x

LEMMA OrderStays ==
  ASSUME HandlesInOrder, prog' = prog
  PROVE  HandlesInOrder'
<1>1. \A f, b : /\ Term(f, b)' = Term(f, b) /\ HandleMoves(f, b)' = HandleMoves(f, b)
               /\ BlocksOf(f)' = BlocksOf(f)
  BY DEF Term, Block, BlocksOf, HandleMoves
<1>2. \A f, b : /\ HasPlace(f, b)' = HasPlace(f, b) /\ Spawns(f, b)' = Spawns(f, b)
               /\ Joins(f, b)' = Joins(f, b)
  <2>1. \A f, t : Handler(f, t)' = Handler(f, t)
    BY SMT DEF Handler, Acquires, IsGuard, Recognised, ChannelsOf, Block
  <2> QED
    BY <1>1, <2>1, StaticHandles DEF Joins
<1>3. \A x : IsHandle(x)' = IsHandle(x)
  BY DEF IsHandle
<1>4. \A t : ClosureAt(t, 1)' = ClosureAt(t, 1)
  BY DEF ClosureAt
<1>5. \A f, b, i : Move(f, b, i)' = Move(f, b, i)
  BY <1>1 DEF Move
<1>6. \A f, b, k, x : Given(f, b, k, x)' = Given(f, b, k, x)
  BY <1>1, <1>2, <1>3, <1>5, SMT DEF Given
<1>7. NodeFuncs' = NodeFuncs
  BY DEF NodeFuncs
<1> QED
  BY <1>1, <1>2, <1>3, <1>4, <1>5, <1>6, <1>7, SMT DEF HandlesInOrder
=============================================================================
