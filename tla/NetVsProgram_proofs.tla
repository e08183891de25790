------------------------- MODULE NetVsProgram_proofs -------------------------
(***************************************************************************)
(* Proofs about the net of a program and the program itself: run side by   *)
(* side, they offer the same steps, and the marking tells where the        *)
(* threads are, what they hold and what was sent.                          *)
(*                                                                         *)
(* This is so for the programs described by Regular, which says what the   *)
(* collectors and MIR give, as long as they behave as Orderly says: what   *)
(* the borrow checker gives, and the limits of the net.                    *)
(***************************************************************************)
EXTENDS NetVsProgram, BodyToPetriNet_proofs, Iteration, SequenceTheorems

(* Functions that have places and are visited. *)
Translated == NodeFuncs \ (prog.ignored \cup prog.serde)

Lands(f, t) == t.targets # <<>> /\ HasPlace(f, t.targets[1])

(* Functions that are the first of a thread. *)
Threads ==
  {prog.main} \cup {prog.thread[h] : h \in DOMAIN prog.thread}
    \cup UNION {UNION {Started(<<f, b, "call", 0>>) : b \in BlocksOf(f)} : f \in NodeFuncs}

(* The call is what its name and its arguments make the visitor take it for. *)
CallRegular(f, b) ==
  LET t == Term(f, b) IN
  /\ t.api \in {"lock", "plain", "fnptr", "send", "recv", "notify", "wait", "drop", "spawn",
                 "join", "rayonJoin", "atomicLoad", "atomicStore", "panic"}
  /\ Handler(f, t) = CASE t.api = "fnptr" -> "connect"
                       [] t.api = "plain" -> "normal"
                       [] OTHER -> t.api
  /\ t.api = "panic" \/ Lands(f, t)
  /\ t.args \in Seq(Range(t.args))
  /\ t.api = "drop" => Range(t.args) = {t.args[1]}
  /\ t.api \in {"send", "recv"} => \E c \in ChannelsOf(t) : ChannelsOf(t) = {c}
  /\ t.api = "wait" => /\ IsGuard(t.args[2])
                       /\ Owner(t.args[2]).kind = "mutex"
                       /\ Owner(t.dest) = Owner(t.args[2])
  /\ t.api = "join" => prog.thread[t.args[1]] \in Translated /\ t.args[1] \in DOMAIN prog.thread
  /\ ClosureArgs(t) \subseteq Translated
  /\ t.callee \in NodeFuncs \cup DOMAIN prog.body => t.callee \in Translated
  /\ Callee(t) \cap Threads = {}

TermRegular(f, b) ==
  LET t == Term(f, b) IN
  /\ t.op \in {"assert", "drop"} => Lands(f, t)
  /\ t.op = "goto" => ExitsProgram(f, t) \/ Lands(f, t)
  /\ t.op = "fallthrough" => t.targets # <<>> /\ (Excluded(f, t.targets[1]) \/ Lands(f, t))
  /\ t.op = "switch" => \A i \in DOMAIN t.targets : Excluded(f, t.targets[i]) \/ HasPlace(f, t.targets[i])
  /\ t.op = "switch" /\ b = 0 /\ f \in prog.coroutine =>
       /\ 1 \in DOMAIN t.targets /\ HasPlace(f, t.targets[1])
       /\ DOMAIN t.targets \subseteq Nat \ {0}
  /\ t.op = "return" /\ Block(f, b).pending =>
       f \in prog.coroutine /\ \E c \in Continuation(f, b) : Continuation(f, b) = {c} /\ HasPlace(f, c)
  /\ t.op = "call" /\ ~ExitsProgram(f, t) => CallRegular(f, b)
  /\ Block(f, b).accesses # {} => t.op # "assert"
  /\ Len(Block(f, b).moves) \in Nat

Regular ==
  /\ Describable
  /\ NodeFuncs \subseteq DOMAIN prog.body
  /\ prog.main \in Translated
  /\ NodeFuncs \cap prog.ignored \subseteq prog.serde
  /\ \A f \in Translated : \A b \in BlocksOf(f) : HasPlace(f, b) => TermRegular(f, b)
  /\ \A x \in DOMAIN prog.guard : prog.guard[x].kind \in {"mutex", "read", "write"}
  /\ \A x, y \in DOMAIN prog.guard :
       prog.guard[x].lock = prog.guard[y].lock /\ prog.guard[x].kind = "mutex" => prog.guard[y].kind = "mutex"

(* What the step enters. *)
Entered(id) == Started(id) \cup (IF id[3] = "call" THEN Callee(TermOf(id)) ELSE {})

(* A guard is moved to a local that owns nothing, and of the same lock.     *)
GuardsMoved(id) ==
  LET moves == Block(id[1], id[2]).moves
      own == OwnersAfter(moves)
  IN  id[3] \notin {"start", "unsafe", "ret", "return", "atomic"} =>
        \A k \in 1 .. Len(moves) :
          moves[k][2] \in own[k - 1] =>
            moves[k][1] \notin own[k - 1] /\ Owner(moves[k][1]) = Owner(moves[k][2])

(* What the thread's next step, if it is not blocked, does not do.          *)
Orderly ==
  Comparable => \A th \in NodeFuncs : \A id \in Labels(th) : Ready(th, id) =>
    /\ id[3] = "exit" \/ (id[3] = "call" /\ TermOf(id).api = "panic") => th = prog.main
    /\ \A g \in Entered(id) : \A other \in NodeFuncs : \A i \in DOMAIN stack[other] : stack[other][i].f # g
    /\ GuardsMoved(id)
    /\ \A x \in Released(id) : x \in MovedOwners(id) <=> IsGuard(x)
    /\ \A x \in Acquired(id) :
         /\ x \notin MovedOwners(id)
         /\ Owner(x).kind = "read" => Held(Owner(x).lock, {"read"}) < RwLockCapacity
    /\ id[3] = "call" /\ TermOf(id).api = "send" =>
         \A c \in prog.channel[TermOf(id).args[1]] : sent[c] < ChannelCapacity

Assumed == Regular /\ HandlesFollowed /\ Orderly
-----------------------------------------------------------------------------
(* Where a frame may be. *)
FrameOk(fr) ==
  /\ HasPlace(fr.f, fr.b)
  /\ fr.at = "accessed" => Accessed(fr.f, fr.b)
  /\ fr.at \in {"operation", "await"} =>
       Term(fr.f, fr.b).op = "call" /\ ~ExitsProgram(fr.f, Term(fr.f, fr.b))
  /\ fr.at = "operation" => OnAtomic(fr.f, Term(fr.f, fr.b))
  /\ fr.at = "await" => ComesBack(fr.f, Term(fr.f, fr.b))

Frames ==
  [f : Translated, b : Nat, at : {"entry", "block", "accessed", "operation", "await", "end"}]

(* The stacks: a function is entered once, threads begin with their own     *)
(* function, and a frame below the top waits for the one above it.          *)
SpotOk(th, i) ==
  LET fr == stack[th][i] IN
  /\ FrameOk(fr)
  /\ i = 1 => fr.f = th
  /\ i = 1 <=> fr.f \in Threads
  /\ i < Len(stack[th]) => fr.at = "await" /\ Callee(Term(fr.f, fr.b)) = {stack[th][i + 1].f}
  /\ i = Len(stack[th]) /\ fr.at = "await" => Term(fr.f, fr.b).api \in {"wait", "rayonJoin"}

Stacks ==
  /\ stack \in [NodeFuncs -> Seq(Frames)]
  /\ \A th \in NodeFuncs : \A i \in DOMAIN stack[th] : SpotOk(th, i)
  /\ \A th, other \in NodeFuncs : \A i \in DOMAIN stack[th] : \A j \in DOMAIN stack[other] :
       stack[other][j].f = stack[th][i].f => other = th /\ j = i

ControlKinds == {"start", "bb", "ready", "operation", "wait", "end"}

Mirrored ==
  /\ OccupiedPlaces \subseteq Place
  /\ \A p \in Place : p[1] \in ControlKinds => marking[p] = IF p \in OccupiedPlaces THEN 1 ELSE 0
  /\ \A a \in UNION Range(prog.atomic) : marking[AtomicPlace(a)] = 1
  /\ \A p \in Place : marking[p] \in Nat /\ marking[p] =< capacity[p]

LocksMirrored ==
  /\ IsFiniteSet(live)
  /\ \A x \in live : Owner(x) \in {prog.guard[g] : g \in DOMAIN prog.guard}
  /\ \A l \in Locks :
       marking[LockPlace(l)] + Held(l, {"mutex", "read"})
                             + Weight("write") * Held(l, {"write"}) = LockCapacity(l)

ChannelsMirrored ==
  /\ DOMAIN sent = UNION Range(prog.channel)
  /\ \A c \in DOMAIN sent : sent[c] \in Nat /\ marking[ChannelPlace(c)] = sent[c]

Alike == Comparable => Stacks /\ Mirrored /\ LocksMirrored /\ ChannelsMirrored

Sim ==
  /\ BuildInv
  /\ phase \in {"construct", "visit"} => ProgInit
  /\ Alike

(* The theorems speak of the programs that are checked: the regular ones    *)
(* meet the other hypotheses in every state, net and program are alike in   *)
(* every state, every block jumps to translated blocks, and handles that    *)
(* are used in order are known where they are used.                         *)
RegularAreAlike ==
  /\ JumpsLand
  /\ Regular => HandlesFollowed /\ Orderly /\ Sim
  /\ HandlesInOrder => HandlesKnown /\ HandlesFollowed

-----------------------------------------------------------------------------
(* Bags of places. *)
LEMMA ArcNone ==
  ASSUME NEW p
  PROVE  Arc(p, None) = 0
  BY DEF Arc, None, EmptyBag, SetToBag

LEMMA ArcOneEach ==
  ASSUME NEW p, NEW S
  PROVE  Arc(p, OneEach(S)) = IF p \in S THEN 1 ELSE 0
  BY DEF Arc, OneEach, SetToBag

LEMMA ArcOne ==
  ASSUME NEW p, NEW q
  PROVE  Arc(p, One(q)) = IF p = q THEN 1 ELSE 0
  BY DEF Arc, One, SetToBag

LEMMA ArcTimes ==
  ASSUME NEW p, NEW q, NEW n
  PROVE  Arc(p, Times(q, n)) = IF p = q THEN n ELSE 0
  BY DEF Arc, Times

LEMMA ArcSum ==
  ASSUME NEW p, NEW B, NEW C
  PROVE  Arc(p, B (+) C) = Arc(p, B) + Arc(p, C)
  BY DEF Arc, (+)

LEMMA Domains ==
  ASSUME NEW B, NEW C
  PROVE  /\ DOMAIN (B (+) C) = DOMAIN B \cup DOMAIN C
         /\ DOMAIN None = {}
         /\ \A S : DOMAIN OneEach(S) = S
         /\ \A q : DOMAIN One(q) = {q}
         /\ \A q, n : DOMAIN Times(q, n) = {q}
  BY DEF None, EmptyBag, OneEach, One, Times, SetToBag, (+)

(* Stacks. *)
LEMMA Replaced ==
  ASSUME NEW S, NEW s \in Seq(S), s # <<>>, NEW e \in S
  PROVE  /\ Append(Front(s), e) \in Seq(S)
         /\ Len(s) \in Nat \ {0}
         /\ Len(Append(Front(s), e)) = Len(s)
         /\ \A i \in 1 .. Len(s) - 1 : Append(Front(s), e)[i] = s[i]
         /\ Append(Front(s), e)[Len(s)] = e
         /\ Last(s) = s[Len(s)]
<1>1. Len(s) \in Nat \ {0} /\ s = [i \in 1 .. Len(s) |-> s[i]] /\ \A i \in 1 .. Len(s) : s[i] \in S
  OBVIOUS
<1> DEFINE r == [i \in 1 .. Len(s) - 1 |-> s[i]]
<1>2. r \in Seq(S) /\ Len(r) = Len(s) - 1
  BY <1>1
<1>3. Front(s) = r
  BY <1>1 DEF Front
<1> HIDE DEF r
<1>4. \A i \in 1 .. Len(s) - 1 : r[i] = s[i]
  BY DEF r
<1>5. /\ Append(r, e) \in Seq(S) /\ Len(Append(r, e)) = Len(s)
      /\ Append(r, e)[Len(s)] = e
      /\ \A i \in 1 .. Len(s) - 1 : Append(r, e)[i] = r[i]
  <2>1. /\ Append(r, e) \in Seq(S)
        /\ Len(Append(r, e)) = Len(r) + 1
        /\ \A i \in 1 .. Len(r) : Append(r, e)[i] = r[i]
        /\ Append(r, e)[Len(r) + 1] = e
    BY <1>2, AppendProperties
  <2>2. Len(r) + 1 = Len(s)
    BY <1>1, <1>2
  <2> QED
    BY <1>2, <2>1, <2>2
<1> QED
  BY <1>1, <1>3, <1>4, <1>5 DEF Last

LEMMA Popped ==
  ASSUME NEW S, NEW s \in Seq(S), Len(s) > 1, NEW e \in S
  PROVE  LET r == Append(Front(Front(s)), e) IN
         /\ r \in Seq(S)
         /\ Len(r) = Len(s) - 1
         /\ \A i \in 1 .. Len(s) - 2 : r[i] = s[i]
         /\ r[Len(s) - 1] = e
<1>1. Front(s) \in Seq(S) /\ Len(Front(s)) = Len(s) - 1 /\ \A i \in 1 .. Len(s) - 1 : Front(s)[i] = s[i]
  BY DEF Front
<1>2. Front(s) # <<>>
  BY <1>1
<1> QED
  BY <1>1, <1>2, Replaced
-----------------------------------------------------------------------------
(* The net that is run. *)
LEMMA RunNet ==
  ASSUME BuildInv, Regular, phase = "run"
  PROVE  /\ functions = NodeFuncs \ prog.ignored
         /\ Translated \subseteq functions
         /\ \A id \in DOMAIN trans : Shape(id, trans[id])
         /\ \A id \in DOMAIN trans : \E f \in NodeFuncs \ prog.serde : \E b \in BlocksOf(f) :
              HasPlace(f, b) /\ id \in IdsOf(f, b)
         /\ \A f \in Translated : \A b \in BlocksOf(f) : HasPlace(f, b) =>
              /\ IdsOf(f, b) \subseteq DOMAIN trans
              /\ BlockPlace(f, b) \in Place
              /\ Accessed(f, b) => ReadyPlace(f, b) \in Place
              /\ TermPlaces(f, b) \subseteq Place
         /\ SharedPlaces \subseteq Place
         /\ \A f, b : ReadyPlace(f, b) \in Place /\ f \in Translated /\ b \in BlocksOf(f) => Accessed(f, b)
<1>1. step = "body" /\ functions = NodeFuncs \ prog.ignored /\ SeenInOrder /\ TransitionsDone /\ PlacesDone
  BY DEF BuildInv, VisitorPlaced
<1>2. Current = {} /\ NodeFuncs \subseteq seen
  BY <1>1 DEF Current, SeenInOrder
<1>3. \A f \in NodeFuncs : Begun(f) <=> f \notin prog.serde
  BY <1>2 DEF Begun
<1>4. \A f \in NodeFuncs : \A b \in BlocksOf(f) : Done(f, b) <=> f \notin prog.serde /\ HasPlace(f, b)
  BY <1>1, <1>3 DEF Done
<1>5. Translated \subseteq functions /\ Translated \subseteq NodeFuncs /\ Translated \cap prog.serde = {}
  BY <1>1 DEF Translated
<1>6. \A id \in DOMAIN trans : Shape(id, trans[id])
  BY <1>1 DEF TransitionsDone
<1>7. \A id \in DOMAIN trans : \E f \in NodeFuncs \ prog.serde : \E b \in BlocksOf(f) :
         HasPlace(f, b) /\ id \in IdsOf(f, b)
  BY <1>1, <1>2, <1>4 DEF TransitionsDone
<1>8. \A f \in Translated : \A b \in BlocksOf(f) : HasPlace(f, b) =>
              /\ IdsOf(f, b) \subseteq DOMAIN trans
              /\ BlockPlace(f, b) \in Place
              /\ Accessed(f, b) => ReadyPlace(f, b) \in Place
              /\ TermPlaces(f, b) \subseteq Place
  BY <1>1, <1>3, <1>4, <1>5 DEF TransitionsDone, PlacesDone
<1>9. \A f, b : ReadyPlace(f, b) \in Place /\ f \in Translated /\ b \in BlocksOf(f) => Accessed(f, b)
  BY <1>1, <1>5 DEF PlacesDone
<1> QED
  BY <1>1, <1>5, <1>6, <1>7, <1>8, <1>9 DEF PlacesDone

-----------------------------------------------------------------------------
(* What is said of the program never changes. *)
LEMMA StaticProgram ==
  ASSUME prog' = prog, functions' = functions
  PROVE  /\ NodeFuncs' = NodeFuncs /\ Translated' = Translated /\ Frames' = Frames
         /\ Threads' = Threads
         /\ \A fr : FrameOk(fr)' = FrameOk(fr)
         /\ \A t : Callee(t)' = Callee(t)
         /\ \A f, b : Term(f, b)' = Term(f, b)
         /\ \A fr : FramePlace(fr)' = FramePlace(fr)
<1>1. NodeFuncs' = NodeFuncs /\ Translated' = Translated /\ Frames' = Frames
  BY DEF NodeFuncs, Translated, Frames
<1>2. \A f, b : Term(f, b)' = Term(f, b) /\ Block(f, b)' = Block(f, b) /\ BlocksOf(f)' = BlocksOf(f)
  BY DEF Term, Block, BlocksOf
<1>3. Threads' = Threads
  BY <1>1, SMT DEF Threads, Started, TermOf, Term, Block, ClosureAt, ClosureArgs, BlocksOf
<1>4. \A f, t : ComesBack(f, t)' = ComesBack(f, t) /\ OnAtomic(f, t)' = OnAtomic(f, t)
  BY SMT DEF Handler, Acquires, IsGuard, Recognised, ChannelsOf, CalleeOf, ClosureAt, Min,
    ComesBack, OnAtomic, AtomicsOf, Block
<1>5. \A f, t : ExitsProgram(f, t)' = ExitsProgram(f, t)
  BY DEF ExitsProgram, Block
<1>6. \A fr : FrameOk(fr)' = FrameOk(fr)
  BY <1>2, <1>4, <1>5, StaticBlocks DEF FrameOk
<1>7. \A t : Callee(t)' = Callee(t)
  BY SMT DEF Callee, ClosureAt
<1>8. \A fr : FramePlace(fr)' = FramePlace(fr)
  BY DEF FramePlace, StartPlace, BlockPlace, ReadyPlace, OperationPlace, WaitPlace, EndPlace
<1> QED
  BY <1>1, <1>2, <1>3, <1>6, <1>7, <1>8

LEMMA Placed ==
  ASSUME NEW fr \in Frames
  PROVE  /\ FramePlace(fr)[1] \in ControlKinds /\ FramePlace(fr)[2] = fr.f
         /\ fr.at = "entry" => FramePlace(fr) = StartPlace(fr.f)
         /\ fr.at = "end" => FramePlace(fr) = EndPlace(fr.f)
         /\ fr.at = "await" => FramePlace(fr) = WaitPlace(fr.f, fr.b)
  BY DEF Frames, FramePlace, ControlKinds, StartPlace, BlockPlace, ReadyPlace, OperationPlace,
    WaitPlace, EndPlace

(* No thread has the function on its stack. *)
Absent(g) == \A other \in NodeFuncs : \A i \in DOMAIN stack[other] : stack[other][i].f # g

(* Threads whose stacks are as a step leaves them. *)
StacksAfter(th, s, S, C) ==
  stack' = [g \in NodeFuncs |-> IF g = th THEN s
                                ELSE IF g \in S THEN <<Entry(g)>>
                                ELSE IF g \in C THEN <<>> ELSE stack[g]]

MayBegin(g) == g \in Translated /\ HasPlace(g, 0) /\ Absent(g)

MayEnter(th, S) ==
  \A g \in S : /\ MayBegin(g)
               /\ g # th => g \in Threads

(* The stack may be that of the thread, S being entered at the same time. *)
Fits(th, s, S) ==
  \A i \in DOMAIN s :
    /\ FrameOk(s[i])
    /\ i = 1 => s[i].f = th
    /\ i = 1 <=> s[i].f \in Threads
    /\ i < Len(s) => s[i].at = "await" /\ Callee(Term(s[i].f, s[i].b)) = {s[i + 1].f}
    /\ i = Len(s) /\ s[i].at = "await" => Term(s[i].f, s[i].b).api \in {"wait", "rayonJoin"}
    /\ \A j \in DOMAIN s : s[j].f = s[i].f => j = i
    /\ s[i].f \notin S
    /\ \A other \in NodeFuncs : \A j \in DOMAIN stack[other] : stack[other][j].f = s[i].f => other = th

LEMMA StacksMove ==
  ASSUME Stacks, prog' = prog, functions' = functions,
         NEW th \in NodeFuncs, NEW s \in Seq(Frames), NEW S, NEW C,
         StacksAfter(th, s, S, C), MayEnter(th, S), th \notin S, Fits(th, s, S)
  PROVE  Stacks'
<1>1. stack' \in [NodeFuncs -> Seq(Frames)]
  <2>1. \A g \in S : Entry(g) \in Frames
    BY DEF Entry, Frame, Frames, MayEnter, MayBegin, HasPlace, BlocksOf
  <2>2. \A g \in S : <<Entry(g)>> \in Seq(Frames)
    BY <2>1
  <2>3. stack \in [NodeFuncs -> Seq(Frames)] /\ <<>> \in Seq(Frames)
    BY DEF Stacks
  <2> QED
    BY <2>2, <2>3 DEF StacksAfter
<1>2. ASSUME NEW x \in NodeFuncs, NEW i \in DOMAIN stack'[x]
      PROVE  SpotOk(x, i)'
  <2> DEFINE fr == stack'[x][i]
  <2>0. SUFFICES /\ FrameOk(fr)
                 /\ i = 1 => fr.f = x
                 /\ i = 1 <=> fr.f \in Threads
                 /\ i < Len(stack'[x]) => fr.at = "await" /\ Callee(Term(fr.f, fr.b)) = {stack'[x][i + 1].f}
                 /\ i = Len(stack'[x]) /\ fr.at = "await" => Term(fr.f, fr.b).api \in {"wait", "rayonJoin"}
    BY StaticProgram DEF SpotOk
  <2> USE DEF StacksAfter
  <2>1. CASE x = th
    BY <2>1 DEF Fits
  <2>2. CASE x # th /\ x \in S
    <3>0. stack'[x] = <<Entry(x)>>
      BY <2>2
    <3>1. i = 1 /\ Len(stack'[x]) = 1 /\ stack'[x][i] = Entry(x)
      <4>1. DOMAIN stack'[x] = {1} /\ Len(stack'[x]) = 1 /\ stack'[x][1] = Entry(x)
        BY ONLY <3>0
      <4> QED
        BY <1>2, <4>1
    <3>2. FrameOk(Entry(x)) /\ Entry(x).f = x /\ Entry(x).at = "entry" /\ x \in Threads
      BY <2>2 DEF FrameOk, Entry, Frame, MayEnter, MayBegin
    <3> QED
      BY ONLY <3>1, <3>2 DEF fr
  <2>3. CASE x # th /\ x \notin S
    <3>1. stack'[x] = stack[x] /\ i \in DOMAIN stack[x]
      BY <2>3
    <3>2. SpotOk(x, i)
      BY <3>1 DEF Stacks
    <3> QED
      BY ONLY <3>1, <3>2 DEF SpotOk
  <2> QED
    BY <2>1, <2>2, <2>3
<1>3. ASSUME NEW x \in NodeFuncs, NEW i \in DOMAIN stack'[x],
             NEW y \in NodeFuncs, NEW j \in DOMAIN stack'[y], stack'[y][j].f = stack'[x][i].f
      PROVE  y = x /\ j = i
  <2>1. \A z \in NodeFuncs : \A k \in DOMAIN stack'[z] :
           \/ z = th /\ stack'[z][k] = s[k] /\ k \in DOMAIN s
           \/ z # th /\ z \in S /\ k = 1 /\ stack'[z][k].f = z
           \/ z # th /\ z \notin S /\ k \in DOMAIN stack[z] /\ stack'[z][k] = stack[z][k]
    BY DEF Entry, Frame, StacksAfter
  <2>2. \A z \in NodeFuncs : \A k \in DOMAIN stack[z] : \A other \in NodeFuncs : \A l \in DOMAIN stack[other] :
            stack[other][l].f = stack[z][k].f => other = z /\ l = k
    BY DEF Stacks
  <2> QED
    BY <1>3, <2>1, <2>2 DEF MayEnter, MayBegin, Absent, Fits
<1> QED
  BY <1>1, <1>2, <1>3, StaticProgram DEF Stacks

Occupies(p, th, i) == FramePlace(stack[th][i]) = p

OccupiedIs ==
  \A p : p \in OccupiedPlaces <=> \E th \in NodeFuncs : \E i \in DOMAIN stack[th] : Occupies(p, th, i)

LEMMA OccupiedAre == OccupiedIs
  BY DEF OccupiedIs, OccupiedPlaces, Occupies

LEMMA OccupiedNext == OccupiedIs'
  BY OccupiedAre, PTL

(* A function has one frame, so a place has one. *)
LEMMA OnePlace ==
  ASSUME Stacks, NEW th \in NodeFuncs, NEW i \in DOMAIN stack[th]
  PROVE  /\ stack[th] \in Seq(Frames) /\ stack[th][i] \in Frames /\ SpotOk(th, i)
         /\ stack[th][i].f \in Translated /\ i \in 1 .. Len(stack[th]) /\ Len(stack[th]) \in Nat
         /\ FramePlace(stack[th][i])[2] = stack[th][i].f
         /\ FramePlace(stack[th][i]) \in OccupiedPlaces
         /\ \A other \in NodeFuncs : \A j \in DOMAIN stack[other] :
              FramePlace(stack[other][j]) = FramePlace(stack[th][i]) => other = th /\ j = i
<1>1. \A other \in NodeFuncs : \A j \in DOMAIN stack[other] :
        stack[other][j] \in Frames /\ FramePlace(stack[other][j])[2] = stack[other][j].f
  BY Placed DEF Stacks
<1>2. stack[th] \in Seq(Frames) /\ stack[th][i] \in Frames /\ SpotOk(th, i)
      /\ i \in 1 .. Len(stack[th]) /\ Len(stack[th]) \in Nat
  BY DEF Stacks
<1>3. stack[th][i].f \in Translated
  BY <1>2 DEF Frames
<1>4. \A other \in NodeFuncs : \A j \in DOMAIN stack[other] :
        stack[other][j].f = stack[th][i].f => other = th /\ j = i
  BY DEF Stacks
<1>5. FramePlace(stack[th][i]) \in OccupiedPlaces
  BY OccupiedAre DEF OccupiedIs, Occupies
<1> QED
  BY <1>1, <1>2, <1>3, <1>4, <1>5

LEMMA OccupiedMove ==
  ASSUME Stacks, prog' = prog, NEW th \in NodeFuncs, NEW s \in Seq(Frames), NEW S, NEW C,
         StacksAfter(th, s, S, C), S \subseteq Translated, th \notin S,
         NEW p
  PROVE  p \in OccupiedPlaces' <=>
           \/ \E i \in DOMAIN s : p = FramePlace(s[i])
           \/ \E g \in S : p = StartPlace(g)
           \/ \E other \in NodeFuncs \ ({th} \cup S \cup C) : \E i \in DOMAIN stack[other] :
                p = FramePlace(stack[other][i])
<1> USE DEF StacksAfter
<1>1. S \subseteq NodeFuncs /\ NodeFuncs' = NodeFuncs
  BY DEF Translated, NodeFuncs
<1>2. \A fr : FramePlace(fr)' = FramePlace(fr)
  BY DEF FramePlace, StartPlace, BlockPlace, ReadyPlace, OperationPlace, WaitPlace, EndPlace
<1>3. p \in OccupiedPlaces' <=> \E x \in NodeFuncs : \E i \in DOMAIN stack'[x] : FramePlace(stack'[x][i]) = p
  BY <1>1, OccupiedNext DEF OccupiedIs, Occupies, FramePlace, StartPlace, BlockPlace, ReadyPlace,
    OperationPlace, WaitPlace, EndPlace
<1>4. \A g \in S : stack'[g] = <<Entry(g)>> /\ FramePlace(Entry(g)) = StartPlace(g)
  BY <1>1 DEF FramePlace, Entry, Frame
<1>5. stack'[th] = s
  OBVIOUS
<1>6. \A x \in NodeFuncs \ ({th} \cup S) : stack'[x] = IF x \in C THEN <<>> ELSE stack[x]
  OBVIOUS
<1>7. ASSUME NEW x \in NodeFuncs, NEW i \in DOMAIN stack'[x], FramePlace(stack'[x][i]) = p
      PROVE  \/ \E j \in DOMAIN s : p = FramePlace(s[j])
             \/ \E g \in S : p = StartPlace(g)
             \/ \E other \in NodeFuncs \ ({th} \cup S \cup C) : \E j \in DOMAIN stack[other] :
                  p = FramePlace(stack[other][j])
  <2>1. CASE x = th
    BY <1>5, <1>7, <2>1
  <2>2. CASE x \in S
    <3>1. i = 1 /\ stack'[x][i] = Entry(x)
      BY <1>4, <2>2
    <3> QED
      BY <1>4, <1>7, <2>2, <3>1
  <2>3. CASE x \notin {th} \cup S
    <3>1. x \notin C
      BY <1>6, <2>3
    <3> QED
      BY <1>6, <1>7, <2>3, <3>1
  <2> QED
    BY <2>1, <2>2, <2>3
<1>8. ASSUME NEW j \in DOMAIN s, p = FramePlace(s[j]) PROVE p \in OccupiedPlaces'
  BY <1>3, <1>5, <1>8
<1>9. ASSUME NEW g \in S, p = StartPlace(g) PROVE p \in OccupiedPlaces'
  <2>0. stack'[g] = <<Entry(g)>>
    BY <1>4
  <2>1. 1 \in DOMAIN stack'[g] /\ stack'[g][1] = Entry(g)
    BY ONLY <2>0
  <2> QED
    BY <1>1, <1>3, <1>4, <1>9, <2>1
<1>10. ASSUME NEW other \in NodeFuncs \ ({th} \cup S \cup C), NEW j \in DOMAIN stack[other],
              p = FramePlace(stack[other][j])
       PROVE  p \in OccupiedPlaces'
  BY <1>3, <1>6, <1>10
<1> QED
  BY <1>3, <1>7, <1>8, <1>9, <1>10

-----------------------------------------------------------------------------
(* Places that are no longer occupied after a step, and those that then are. *)
Room(gone, come) ==
  /\ gone \subseteq OccupiedPlaces
  /\ \A p \in come : p \in OccupiedPlaces => p \in gone

Moves(gone, come) ==
  \A p : p \in OccupiedPlaces' <=> (p \in OccupiedPlaces /\ p \notin gone) \/ p \in come

Changes(th, s, S, C) == prog' = prog /\ functions' = functions /\ StacksAfter(th, s, S, C)

(* A thread that has ended occupies its end. *)
LEMMA EndedThread ==
  ASSUME Stacks, NEW g \in NodeFuncs, stack[g] # <<>>, Ended(g)
  PROVE  /\ DOMAIN stack[g] = {1} /\ 1 \in DOMAIN stack[g]
         /\ stack[g][1].at = "end" /\ stack[g][1].f = g
         /\ FramePlace(stack[g][1]) = EndPlace(g)
         /\ EndPlace(g) \in OccupiedPlaces
<1>1. stack[g] \in Seq(Frames) /\ Len(stack[g]) = 1 /\ Last(stack[g]).at = "end"
  BY DEF Stacks, Ended, Top
<1>2. DOMAIN stack[g] = {1} /\ stack[g][1].at = "end"
  BY <1>1 DEF Last
<1>3. stack[g][1] \in Frames /\ SpotOk(g, 1) /\ FramePlace(stack[g][1]) \in OccupiedPlaces
  BY <1>2, OnePlace
<1> QED
  BY <1>2, <1>3, Placed DEF SpotOk

(* The frame of a thread that runs. *)
LEMMA TopFrame ==
  ASSUME Stacks, NEW th \in NodeFuncs, stack[th] # <<>>
  PROVE  /\ stack[th] \in Seq(Frames) /\ Len(stack[th]) \in Nat \ {0}
         /\ Len(stack[th]) \in DOMAIN stack[th] /\ DOMAIN stack[th] = 1 .. Len(stack[th])
         /\ Top(th) = stack[th][Len(stack[th])] /\ Top(th) \in Frames
         /\ SpotOk(th, Len(stack[th])) /\ FrameOk(Top(th))
         /\ FramePlace(Top(th)) \in OccupiedPlaces
         /\ Top(th).f \in Translated
         /\ Top(th).at = "await" => Term(Top(th).f, Top(th).b).api \in {"wait", "rayonJoin"}
<1>1. stack[th] \in Seq(Frames) /\ Len(stack[th]) \in Nat \ {0} /\ DOMAIN stack[th] = 1 .. Len(stack[th])
  BY DEF Stacks
<1>2. Top(th) = stack[th][Len(stack[th])] /\ Len(stack[th]) \in DOMAIN stack[th]
  BY <1>1 DEF Top, Last
<1>3. /\ Top(th) \in Frames /\ SpotOk(th, Len(stack[th])) /\ Top(th).f \in Translated
      /\ FramePlace(Top(th)) \in OccupiedPlaces
  BY <1>2, OnePlace
<1>4. /\ FrameOk(Top(th))
      /\ Top(th).at = "await" => Term(Top(th).f, Top(th).b).api \in {"wait", "rayonJoin"}
  BY <1>2, <1>3 DEF SpotOk
<1> QED
  BY <1>1, <1>2, <1>3, <1>4

(* The thread changes the upper part of its stack, starts threads and       *)
(* takes ended ones.                                                        *)
LEMMA StackMove ==
  ASSUME Stacks,
         NEW th \in NodeFuncs, stack[th] # <<>>,
         NEW s \in Seq(Frames), NEW k \in 1 .. Len(stack[th]), k =< Len(s),
         \A i \in 1 .. k - 1 : s[i] = stack[th][i],
         \A j \in k .. Len(s) :
           Absent(s[j].f) \/ \E i \in k .. Len(stack[th]) : s[j].f = stack[th][i].f,
         NEW S, MayEnter(th, S), th \notin S, Fits(th, s, S),
         NEW C, \A g \in C : g \in NodeFuncs /\ g # th /\ stack[g] # <<>> /\ Ended(g)
  PROVE  LET gone == {FramePlace(stack[th][i]) : i \in k .. Len(stack[th])} \cup {EndPlace(g) : g \in C}
             come == {FramePlace(s[j]) : j \in k .. Len(s)} \cup {StartPlace(g) : g \in S}
         IN  /\ Room(gone, come)
             /\ Changes(th, s, S, C) => Stacks' /\ Moves(gone, come)
<1> DEFINE n == Len(stack[th])
           own == {FramePlace(stack[th][i]) : i \in k .. n}
           next == {FramePlace(s[j]) : j \in k .. Len(s)}
           gone == own \cup {EndPlace(g) : g \in C}
           come == next \cup {StartPlace(g) : g \in S}
<1>1. n \in Nat \ {0} /\ DOMAIN stack[th] = 1 .. n /\ Len(s) \in Nat /\ DOMAIN s = 1 .. Len(s)
  BY TopFrame
<1>4. \A other \in NodeFuncs : \A i \in DOMAIN stack[other] : \A x \in NodeFuncs : \A j \in DOMAIN stack[x] :
         stack[x][j].f = stack[other][i].f => x = other /\ j = i
  BY DEF Stacks
<1>5. \A g \in S : MayBegin(g) /\ g \in NodeFuncs
  BY DEF MayEnter, MayBegin, Translated
<1>8. S \subseteq Translated
  BY DEF MayEnter, MayBegin
<1>9. Changes(th, s, S, C) => Stacks'
  BY StacksMove DEF Changes
<1>10. Changes(th, s, S, C) => \A p : p \in OccupiedPlaces' <=>
           \/ \E i \in DOMAIN s : p = FramePlace(s[i])
           \/ \E g \in S : p = StartPlace(g)
           \/ \E other \in NodeFuncs \ ({th} \cup S \cup C) : \E i \in DOMAIN stack[other] :
                p = FramePlace(stack[other][i])
  BY <1>8, OccupiedMove DEF Changes
<1>11. \A g \in C : /\ DOMAIN stack[g] = {1} /\ FramePlace(stack[g][1]) = EndPlace(g)
                     /\ EndPlace(g) \in OccupiedPlaces
  BY EndedThread
<1>12. gone \subseteq OccupiedPlaces
  <2>1. \A i \in k .. n : i \in DOMAIN stack[th]
    BY <1>1
  <2>2. \A i \in k .. n : FramePlace(stack[th][i]) \in OccupiedPlaces
    BY <2>1, OnePlace
  <2> QED
    BY <1>11, <2>2
<1>13. \A p : p \in OccupiedPlaces => \E x \in NodeFuncs : \E i \in DOMAIN stack[x] :
                p = FramePlace(stack[x][i]) /\ p[2] = stack[x][i].f
  <2>1. \A x \in NodeFuncs : \A i \in DOMAIN stack[x] : FramePlace(stack[x][i])[2] = stack[x][i].f
    BY OnePlace
  <2> QED
    BY <2>1, OccupiedAre DEF OccupiedIs, Occupies
<1>14. /\ \A j \in DOMAIN s : FramePlace(s[j])[2] = s[j].f
       /\ \A g : StartPlace(g)[2] = g
  <2>1. \A j \in DOMAIN s : s[j] \in Frames
    BY <1>1
  <2> QED
    BY <2>1, Placed DEF StartPlace
<1>15. \A p \in come : p \in OccupiedPlaces => p \in gone
  <2>1. ASSUME NEW j \in k .. Len(s), FramePlace(s[j]) \in OccupiedPlaces
        PROVE  FramePlace(s[j]) \in own
    <3>1. j \in DOMAIN s
      BY <1>1
    <3>2. PICK x \in NodeFuncs : \E i \in DOMAIN stack[x] :
                FramePlace(s[j]) = FramePlace(stack[x][i]) /\ s[j].f = stack[x][i].f
      BY <1>13, <1>14, <2>1, <3>1
    <3>3. PICK i \in DOMAIN stack[x] : FramePlace(s[j]) = FramePlace(stack[x][i]) /\ s[j].f = stack[x][i].f
      BY <3>2
    <3>4. PICK l \in k .. n : s[j].f = stack[th][l].f
      BY <3>3 DEF Absent
    <3>5. x = th /\ i = l
      <4>1. l \in DOMAIN stack[th] /\ stack[th][l].f = stack[x][i].f
        BY <1>1, <3>3, <3>4
      <4> QED
        BY <1>4, <4>1
    <3> QED
      BY <3>3, <3>5
  <2>2. \A g \in S : StartPlace(g) \notin OccupiedPlaces
    BY <1>5, <1>13, <1>14 DEF MayBegin, Absent
  <2> QED
    BY <2>1, <2>2
<1>16. \A p : p \in OccupiedPlaces <=> \E x \in NodeFuncs : \E i \in DOMAIN stack[x] : p = FramePlace(stack[x][i])
  BY OccupiedAre DEF OccupiedIs, Occupies
<1>17. \A x, y \in NodeFuncs : \A i \in DOMAIN stack[x] : \A j \in DOMAIN stack[y] :
          FramePlace(stack[y][j]) = FramePlace(stack[x][i]) => y = x /\ j = i
  BY OnePlace
<1>18. \A x \in S : stack[x] = <<>> \/ DOMAIN stack[x] = {}
  <2> SUFFICES ASSUME NEW x \in S, stack[x] # <<>> PROVE FALSE
    OBVIOUS
  <2>1. x \in NodeFuncs
    BY <1>5
  <2>2. 1 \in DOMAIN stack[x] /\ SpotOk(x, 1)
    BY <2>1, TopFrame DEF Stacks
  <2>3. stack[x][1].f = x
    BY <2>2 DEF SpotOk
  <2>4. Absent(x)
    BY <1>5 DEF MayBegin
  <2> QED
    BY <2>1, <2>2, <2>3, <2>4 DEF Absent
<1>19. ASSUME NEW p, Changes(th, s, S, C)
       PROVE  p \in OccupiedPlaces' <=> (p \in OccupiedPlaces /\ p \notin gone) \/ p \in come
  <2>1. ASSUME p \in OccupiedPlaces' PROVE (p \in OccupiedPlaces /\ p \notin gone) \/ p \in come
    <3>1. CASE \E i \in DOMAIN s : p = FramePlace(s[i])
      <4>1. PICK i \in DOMAIN s : p = FramePlace(s[i])
        BY <3>1
      <4>2. CASE i >= k
        BY <1>1, <4>1, <4>2
      <4>3. CASE i < k
        <5>1. i \in DOMAIN stack[th] /\ p = FramePlace(stack[th][i])
          BY <1>1, <4>1, <4>3
        <5>2. p \notin own
          <6>1. \A l \in k .. n : l \in DOMAIN stack[th] /\ l # i
            BY <1>1, <4>3
          <6> QED
            BY <1>17, <5>1, <6>1
        <5>3. \A g \in C : p # EndPlace(g)
          BY <1>11, <1>17, <5>1
        <5> QED
          BY <1>16, <5>1, <5>2, <5>3
      <4> QED
        BY <1>1, <4>2, <4>3
    <3>2. CASE \E g \in S : p = StartPlace(g)
      BY <3>2
    <3>3. CASE \E other \in NodeFuncs \ ({th} \cup S \cup C) : \E i \in DOMAIN stack[other] :
                p = FramePlace(stack[other][i])
      <4>0. PICK other \in NodeFuncs \ ({th} \cup S \cup C) :
                \E i \in DOMAIN stack[other] : p = FramePlace(stack[other][i])
        BY <3>3
      <4>1. PICK i \in DOMAIN stack[other] : p = FramePlace(stack[other][i])
        BY <4>0
      <4>2. p \notin own
        <5>1. \A l \in k .. n : l \in DOMAIN stack[th]
          BY <1>1
        <5> QED
          BY <1>17, <4>1, <5>1
      <4>3. \A g \in C : p # EndPlace(g)
        BY <1>11, <1>17, <4>1
      <4> QED
        BY <1>16, <4>1, <4>2, <4>3
    <3> QED
      BY <1>10, <1>19, <2>1, <3>1, <3>2, <3>3
  <2>2. ASSUME p \in come PROVE p \in OccupiedPlaces'
    BY <1>1, <1>10, <1>19, <2>2
  <2>3. ASSUME p \in OccupiedPlaces, p \notin gone PROVE p \in OccupiedPlaces'
    <3>0. PICK x \in NodeFuncs : \E i \in DOMAIN stack[x] : p = FramePlace(stack[x][i])
      BY <1>16, <2>3
    <3>1. PICK i \in DOMAIN stack[x] : p = FramePlace(stack[x][i])
      BY <3>0
    <3>2. CASE x = th
      <4>1. i \in 1 .. k - 1 /\ i \in DOMAIN s
        BY <1>1, <2>3, <3>1, <3>2
      <4>2. p = FramePlace(s[i])
        BY <3>1, <3>2, <4>1
      <4> QED
        BY <1>10, <1>19, <4>1, <4>2
    <3>3. CASE x # th
      <4>1. x \notin S
        BY <1>18, <3>1
      <4>2. x \notin C
        BY <1>11, <2>3, <3>1
      <4> QED
        BY <1>10, <1>19, <3>1, <3>3, <4>1, <4>2
    <3> QED
      BY <3>2, <3>3
  <2> QED
    BY <2>1, <2>2, <2>3
<1>20. Room(gone, come) /\ (Changes(th, s, S, C) => Moves(gone, come))
  BY <1>12, <1>15, <1>19 DEF Moves, Room
<1> QED
  BY <1>9, <1>20

(* The thread changes its frame, starts threads and takes ended ones. *)
LEMMA LocalMove ==
  ASSUME Stacks,
         NEW th \in NodeFuncs, stack[th] # <<>>,
         NEW new \in Frames, new.f = Top(th).f, FrameOk(new),
         new.at = "await" => Term(new.f, new.b).api \in {"wait", "rayonJoin"},
         NEW S, \A g \in S : MayBegin(g) /\ g \in Threads,
         NEW C, \A g \in C : g \in NodeFuncs /\ g # th /\ stack[g] # <<>> /\ Ended(g)
  PROVE  LET gone == {FramePlace(Top(th))} \cup {EndPlace(g) : g \in C}
             come == {FramePlace(new)} \cup {StartPlace(g) : g \in S}
         IN  /\ Room(gone, come)
             /\ Changes(th, Append(Front(stack[th]), new), S, C) => Stacks' /\ Moves(gone, come)
<1> DEFINE s == Append(Front(stack[th]), new)
           n == Len(stack[th])
<1>1. /\ stack[th] \in Seq(Frames) /\ n \in Nat \ {0} /\ n \in DOMAIN stack[th] /\ DOMAIN stack[th] = 1 .. n
      /\ Top(th) = stack[th][n] /\ SpotOk(th, n)
  BY TopFrame
<1>2. s \in Seq(Frames) /\ Len(s) = n /\ s[n] = new /\ \A i \in 1 .. n - 1 : s[i] = stack[th][i]
  BY <1>1, Replaced
<1> HIDE DEF s, n
<1>3. DOMAIN s = DOMAIN stack[th] /\ \A i \in DOMAIN s : s[i].f = stack[th][i].f /\ (i # n => s[i] = stack[th][i])
  BY <1>1, <1>2
<1>4. \A other \in NodeFuncs : \A i \in DOMAIN stack[other] : \A x \in NodeFuncs : \A j \in DOMAIN stack[x] :
         stack[x][j].f = stack[other][i].f => x = other /\ j = i
  BY DEF Stacks
<1>5. \A g \in S : g \notin C /\ g # th /\ g \in NodeFuncs
  <2>1. \A g \in NodeFuncs : stack[g] # <<>> => 1 \in DOMAIN stack[g] /\ stack[g][1].f = g
    <3> SUFFICES ASSUME NEW g \in NodeFuncs, stack[g] # <<>> PROVE 1 \in DOMAIN stack[g] /\ stack[g][1].f = g
      OBVIOUS
    <3>1. 1 \in DOMAIN stack[g]
      BY TopFrame
    <3>2. SpotOk(g, 1)
      BY <3>1 DEF Stacks
    <3> QED
      BY <3>1, <3>2 DEF SpotOk
  <2> QED
    BY <2>1 DEF MayBegin, Absent, Translated
<1>6. Fits(th, s, S)
  <2> SUFFICES ASSUME NEW i \in DOMAIN s
               PROVE
           /\ FrameOk(s[i])
           /\ i = 1 => s[i].f = th
           /\ i = 1 <=> s[i].f \in Threads
           /\ i < Len(s) => s[i].at = "await" /\ Callee(Term(s[i].f, s[i].b)) = {s[i + 1].f}
           /\ i = Len(s) /\ s[i].at = "await" => Term(s[i].f, s[i].b).api \in {"wait", "rayonJoin"}
           /\ \A j \in DOMAIN s : s[j].f = s[i].f => j = i
           /\ s[i].f \notin S
           /\ \A other \in NodeFuncs : \A j \in DOMAIN stack[other] :
                stack[other][j].f = s[i].f => other = th
    BY DEF Fits
  <2>1. SpotOk(th, i) /\ i \in DOMAIN stack[th] /\ s[i].f = stack[th][i].f
    BY <1>3 DEF Stacks
  <2>2. /\ i = 1 => s[i].f = th
        /\ i = 1 <=> s[i].f \in Threads
    BY <2>1 DEF SpotOk
  <2>3. FrameOk(s[i])
    BY <1>2, <1>3, <2>1 DEF SpotOk
  <2>4. i < Len(s) => s[i].at = "await" /\ Callee(Term(s[i].f, s[i].b)) = {s[i + 1].f}
    <3> SUFFICES ASSUME i < Len(s) PROVE s[i].at = "await" /\ Callee(Term(s[i].f, s[i].b)) = {s[i + 1].f}
      OBVIOUS
    <3>1. i \in 1 .. n /\ i < n /\ i + 1 \in DOMAIN stack[th] /\ i # n
      BY <1>1, <1>2, <2>1
    <3>2. s[i] = stack[th][i] /\ s[i + 1].f = stack[th][i + 1].f
      BY <1>3, <3>1
    <3>3. stack[th][i].at = "await" /\ Callee(Term(stack[th][i].f, stack[th][i].b)) = {stack[th][i + 1].f}
      BY <2>1, <3>1 DEF SpotOk, n
    <3> QED
      BY <3>2, <3>3
  <2>5. i = Len(s) /\ s[i].at = "await" => Term(s[i].f, s[i].b).api \in {"wait", "rayonJoin"}
    BY <1>2
  <2>6. \A j \in DOMAIN s : s[j].f = s[i].f => j = i
    BY <1>3, <1>4
  <2>7. s[i].f \notin S
    BY <2>1 DEF MayBegin, Absent
  <2>8. \A other \in NodeFuncs : \A j \in DOMAIN stack[other] :
                stack[other][j].f = s[i].f => other = th
    BY <1>3, <1>4
  <2> QED
    BY <2>2, <2>3, <2>4, <2>5, <2>6, <2>7, <2>8
<1>8. MayEnter(th, S) /\ S \subseteq Translated /\ th \notin S
  BY <1>5 DEF MayEnter, MayBegin
<1>9. \A j \in n .. Len(s) : Absent(s[j].f) \/ \E i \in n .. Len(stack[th]) : s[j].f = stack[th][i].f
  BY <1>1, <1>2 DEF n
<1>10. n = Len(stack[th]) /\ n \in 1 .. Len(stack[th]) /\ n =< Len(s)
  BY <1>1, <1>2 DEF n
<1>11. /\ Room({FramePlace(stack[th][i]) : i \in n .. Len(stack[th])} \cup {EndPlace(g) : g \in C},
               {FramePlace(s[j]) : j \in n .. Len(s)} \cup {StartPlace(g) : g \in S})
       /\ Changes(th, s, S, C) => /\ Stacks'
             /\ Moves({FramePlace(stack[th][i]) : i \in n .. Len(stack[th])} \cup {EndPlace(g) : g \in C},
                      {FramePlace(s[j]) : j \in n .. Len(s)} \cup {StartPlace(g) : g \in S})
  BY <1>2, <1>6, <1>8, <1>9, <1>10, StackMove
<1>12. /\ {FramePlace(stack[th][i]) : i \in n .. Len(stack[th])} = {FramePlace(Top(th))}
       /\ {FramePlace(s[j]) : j \in n .. Len(s)} = {FramePlace(new)}
  <2>1. n .. Len(stack[th]) = {n} /\ n .. Len(s) = {n}
    BY <1>1, <1>2 DEF n
  <2> QED
    BY <1>1, <1>2, <2>1
<1> QED
  BY <1>11, <1>12 DEF s

(* The thread calls a function. *)
LEMMA PushMove ==
  ASSUME Stacks,
         NEW th \in NodeFuncs, stack[th] # <<>>,
         NEW new \in Frames, new.f = Top(th).f, FrameOk(new), new.at = "await",
         NEW g, Callee(Term(new.f, new.b)) = {g}, MayBegin(g), g \notin Threads
  PROVE  /\ Room({FramePlace(Top(th))}, {FramePlace(new), StartPlace(g)})
         /\ Changes(th, Append(Append(Front(stack[th]), new), Entry(g)), {}, {}) =>
              Stacks' /\ Moves({FramePlace(Top(th))}, {FramePlace(new), StartPlace(g)})
<1> DEFINE r == Append(Front(stack[th]), new)
           s == Append(r, Entry(g))
           n == Len(stack[th])
<1>1. /\ stack[th] \in Seq(Frames) /\ n \in Nat \ {0} /\ n \in DOMAIN stack[th] /\ DOMAIN stack[th] = 1 .. n
      /\ Top(th) = stack[th][n] /\ SpotOk(th, n)
  BY TopFrame
<1>2. r \in Seq(Frames) /\ Len(r) = n /\ r[n] = new /\ \A i \in 1 .. n - 1 : r[i] = stack[th][i]
  BY <1>1, Replaced
<1>3. Entry(g) \in Frames /\ Entry(g).f = g /\ Entry(g).at = "entry" /\ FrameOk(Entry(g))
      /\ FramePlace(Entry(g)) = StartPlace(g)
  BY DEF Entry, Frame, Frames, MayBegin, FrameOk, FramePlace, HasPlace, BlocksOf
<1> HIDE DEF r
<1>4. s \in Seq(Frames) /\ Len(s) = Len(r) + 1 /\ s[Len(r) + 1] = Entry(g) /\ \A i \in 1 .. Len(r) : s[i] = r[i]
  BY <1>2, <1>3, AppendProperties
<1> HIDE DEF s, n
<1>5. /\ s \in Seq(Frames) /\ Len(s) = n + 1 /\ DOMAIN s = 1 .. n + 1
      /\ s[n + 1] = Entry(g) /\ s[n] = new /\ \A i \in 1 .. n - 1 : s[i] = stack[th][i]
  BY <1>1, <1>2, <1>4
<1>6. \A other \in NodeFuncs : \A i \in DOMAIN stack[other] : \A x \in NodeFuncs : \A j \in DOMAIN stack[x] :
         stack[x][j].f = stack[other][i].f => x = other /\ j = i
  BY DEF Stacks
<1>7. \A i \in 1 .. n : i \in DOMAIN stack[th] /\ s[i].f = stack[th][i].f
  BY <1>1, <1>5
<1>8. \A other \in NodeFuncs : \A i \in DOMAIN stack[other] : stack[other][i].f # g
  BY DEF MayBegin, Absent
<1>9. Fits(th, s, {})
  <2> SUFFICES ASSUME NEW i \in DOMAIN s
               PROVE
           /\ FrameOk(s[i])
           /\ i = 1 => s[i].f = th
           /\ i = 1 <=> s[i].f \in Threads
           /\ i < Len(s) => s[i].at = "await" /\ Callee(Term(s[i].f, s[i].b)) = {s[i + 1].f}
           /\ i = Len(s) /\ s[i].at = "await" => Term(s[i].f, s[i].b).api \in {"wait", "rayonJoin"}
           /\ \A j \in DOMAIN s : s[j].f = s[i].f => j = i
           /\ \A other \in NodeFuncs : \A j \in DOMAIN stack[other] :
                stack[other][j].f = s[i].f => other = th
    BY DEF Fits
  <2>1. CASE i = n + 1
    <3>1. \A j \in DOMAIN s : s[j].f = s[i].f => j = i
      BY <1>1, <1>3, <1>5, <1>7, <1>8, <2>1
    <3> QED
      BY <1>1, <1>3, <1>5, <1>8, <2>1, <3>1
  <2>2. CASE i \in 1 .. n
    <3>1. SpotOk(th, i) /\ i \in DOMAIN stack[th] /\ s[i].f = stack[th][i].f
      BY <1>7, <2>2 DEF Stacks
    <3>2. /\ i = 1 => s[i].f = th
          /\ i = 1 <=> s[i].f \in Threads
      BY <3>1 DEF SpotOk
    <3>3. FrameOk(s[i])
      <4>1. CASE i = n
        BY <1>5, <4>1
      <4>2. CASE i # n
        BY <1>1, <1>5, <2>2, <3>1, <4>2 DEF SpotOk
      <4> QED
        BY <4>1, <4>2
    <3>4. s[i].at = "await" /\ Callee(Term(s[i].f, s[i].b)) = {s[i + 1].f}
      <4>1. CASE i = n
        BY <1>3, <1>5, <4>1
      <4>2. CASE i # n
        <5>1. i \in 1 .. n - 1 /\ i + 1 \in 1 .. n /\ i < n
          BY <1>1, <2>2, <4>2
        <5>2. stack[th][i].at = "await" /\ Callee(Term(stack[th][i].f, stack[th][i].b)) = {stack[th][i + 1].f}
          BY <3>1, <5>1 DEF SpotOk, n
        <5> QED
          BY <1>5, <1>7, <5>1, <5>2
      <4> QED
        BY <4>1, <4>2
    <3>5. \A j \in DOMAIN s : s[j].f = s[i].f => j = i
      BY <1>1, <1>3, <1>5, <1>6, <1>7, <1>8, <2>2
    <3>6. \A other \in NodeFuncs : \A j \in DOMAIN stack[other] : stack[other][j].f = s[i].f => other = th
      BY <1>6, <3>1
    <3>7. i # Len(s)
      BY <1>1, <1>5, <2>2
    <3> QED
      BY <3>2, <3>3, <3>4, <3>5, <3>6, <3>7
  <2> QED
    BY <1>1, <1>5, <2>1, <2>2
<1>10. /\ n = Len(stack[th]) /\ n \in 1 .. Len(stack[th]) /\ n =< Len(s)
       /\ \A j \in n .. Len(s) : Absent(s[j].f) \/ \E i \in n .. Len(stack[th]) : s[j].f = stack[th][i].f
  <2>1. n .. Len(s) = {n, n + 1} /\ n .. Len(stack[th]) = {n} /\ n = Len(stack[th])
    BY <1>1, <1>5 DEF n
  <2> QED
    BY <1>1, <1>3, <1>5, <1>8, <2>1 DEF Absent
<1>11. MayEnter(th, {})
  BY DEF MayEnter
<1>12. /\ Room({FramePlace(stack[th][i]) : i \in n .. Len(stack[th])} \cup {EndPlace(x) : x \in {}},
               {FramePlace(s[j]) : j \in n .. Len(s)} \cup {StartPlace(x) : x \in {}})
       /\ Changes(th, s, {}, {}) => /\ Stacks'
             /\ Moves({FramePlace(stack[th][i]) : i \in n .. Len(stack[th])} \cup {EndPlace(x) : x \in {}},
                      {FramePlace(s[j]) : j \in n .. Len(s)} \cup {StartPlace(x) : x \in {}})
  BY <1>5, <1>9, <1>10, <1>11, StackMove
<1>13. /\ {FramePlace(stack[th][i]) : i \in n .. Len(stack[th])} \cup {EndPlace(x) : x \in {}} = {FramePlace(Top(th))}
       /\ {FramePlace(s[j]) : j \in n .. Len(s)} \cup {StartPlace(x) : x \in {}} = {FramePlace(new), StartPlace(g)}
  <2>1. n .. Len(s) = {n, n + 1} /\ n .. Len(stack[th]) = {n}
    BY <1>1, <1>5 DEF n
  <2> QED
    BY <1>1, <1>3, <1>5, <2>1
<1> QED
  BY <1>12, <1>13 DEF s, r

(* The function on top of the stack returns to its caller. *)
LEMMA PopMove ==
  ASSUME Stacks,
         NEW th \in NodeFuncs, stack[th] # <<>>, Len(stack[th]) > 1,
         NEW new \in Frames, new.f = Caller(th).f, FrameOk(new), new.at # "await"
  PROVE  /\ Room({FramePlace(Top(th)), FramePlace(Caller(th))}, {FramePlace(new)})
         /\ Changes(th, Append(Front(Front(stack[th])), new), {}, {}) =>
              Stacks' /\ Moves({FramePlace(Top(th)), FramePlace(Caller(th))}, {FramePlace(new)})
<1> DEFINE s == Append(Front(Front(stack[th])), new)
           n == Len(stack[th])
<1>1. /\ stack[th] \in Seq(Frames) /\ n \in Nat \ {0, 1} /\ n \in DOMAIN stack[th] /\ DOMAIN stack[th] = 1 .. n
      /\ Top(th) = stack[th][n] /\ Caller(th) = stack[th][n - 1] /\ n - 1 \in DOMAIN stack[th]
  BY TopFrame DEF Caller
<1>2. s \in Seq(Frames) /\ Len(s) = n - 1 /\ s[n - 1] = new /\ \A i \in 1 .. n - 2 : s[i] = stack[th][i]
  BY <1>1, Popped
<1> HIDE DEF s, n
<1>3. DOMAIN s = 1 .. n - 1 /\ \A i \in 1 .. n - 1 : i \in DOMAIN stack[th] /\ s[i].f = stack[th][i].f
  BY <1>1, <1>2
<1>6. \A other \in NodeFuncs : \A i \in DOMAIN stack[other] : \A x \in NodeFuncs : \A j \in DOMAIN stack[x] :
         stack[x][j].f = stack[other][i].f => x = other /\ j = i
  BY DEF Stacks
<1>9. Fits(th, s, {})
  <2> SUFFICES ASSUME NEW i \in DOMAIN s
               PROVE
           /\ FrameOk(s[i])
           /\ i = 1 => s[i].f = th
           /\ i = 1 <=> s[i].f \in Threads
           /\ i < Len(s) => s[i].at = "await" /\ Callee(Term(s[i].f, s[i].b)) = {s[i + 1].f}
           /\ i = Len(s) /\ s[i].at = "await" => Term(s[i].f, s[i].b).api \in {"wait", "rayonJoin"}
           /\ \A j \in DOMAIN s : s[j].f = s[i].f => j = i
           /\ \A other \in NodeFuncs : \A j \in DOMAIN stack[other] :
                stack[other][j].f = s[i].f => other = th
    BY DEF Fits
  <2>1. SpotOk(th, i) /\ i \in DOMAIN stack[th] /\ s[i].f = stack[th][i].f
    BY <1>3 DEF Stacks
  <2>2. /\ i = 1 => s[i].f = th
        /\ i = 1 <=> s[i].f \in Threads
    BY <2>1 DEF SpotOk
  <2>3. FrameOk(s[i]) /\ (i = Len(s) /\ s[i].at = "await" => Term(s[i].f, s[i].b).api \in {"wait", "rayonJoin"})
    <3>1. CASE i = n - 1
      BY <1>2, <3>1
    <3>2. CASE i # n - 1
      <4>1. s[i] = stack[th][i] /\ i # Len(s)
        BY <1>1, <1>2, <1>3, <3>2
      <4> QED
        BY <2>1, <4>1 DEF SpotOk
    <3> QED
      BY <3>1, <3>2
  <2>4. i < Len(s) => s[i].at = "await" /\ Callee(Term(s[i].f, s[i].b)) = {s[i + 1].f}
    <3> SUFFICES ASSUME i < Len(s) PROVE s[i].at = "await" /\ Callee(Term(s[i].f, s[i].b)) = {s[i + 1].f}
      OBVIOUS
    <3>1. i \in 1 .. n - 2 /\ i + 1 \in 1 .. n - 1 /\ i < n
      BY <1>1, <1>2, <1>3
    <3>2. stack[th][i].at = "await" /\ Callee(Term(stack[th][i].f, stack[th][i].b)) = {stack[th][i + 1].f}
      BY <2>1, <3>1 DEF SpotOk, n
    <3> QED
      BY <1>2, <1>3, <3>1, <3>2
  <2>5. \A j \in DOMAIN s : s[j].f = s[i].f => j = i
    BY <1>3, <1>6
  <2>6. \A other \in NodeFuncs : \A j \in DOMAIN stack[other] : stack[other][j].f = s[i].f => other = th
    BY <1>6, <2>1
  <2> QED
    BY <2>2, <2>3, <2>4, <2>5, <2>6
<1> DEFINE k == n - 1
<1>10. /\ k \in 1 .. Len(stack[th]) /\ k =< Len(s)
       /\ \A i \in 1 .. k - 1 : s[i] = stack[th][i]
       /\ \A j \in k .. Len(s) : Absent(s[j].f) \/ \E i \in k .. Len(stack[th]) : s[j].f = stack[th][i].f
  <2>1. k .. Len(s) = {k} /\ k .. Len(stack[th]) = {k, n} /\ n = Len(stack[th])
    BY <1>1, <1>2 DEF n
  <2>2. \A j \in k .. Len(s) : s[j].f = stack[th][k].f /\ k \in k .. Len(stack[th])
    BY <1>3, <1>1, <2>1
  <2>3. \A i \in 1 .. k - 1 : s[i] = stack[th][i]
    BY <1>1, <1>2
  <2>4. k \in 1 .. Len(stack[th]) /\ k =< Len(s)
    BY <1>1, <1>2, <2>1
  <2> QED
    BY <2>2, <2>3, <2>4
<1>11. MayEnter(th, {})
  BY DEF MayEnter
<1> HIDE DEF k
<1>12. /\ Room({FramePlace(stack[th][i]) : i \in k .. Len(stack[th])} \cup {EndPlace(x) : x \in {}},
               {FramePlace(s[j]) : j \in k .. Len(s)} \cup {StartPlace(x) : x \in {}})
       /\ Changes(th, s, {}, {}) => /\ Stacks'
             /\ Moves({FramePlace(stack[th][i]) : i \in k .. Len(stack[th])} \cup {EndPlace(x) : x \in {}},
                      {FramePlace(s[j]) : j \in k .. Len(s)} \cup {StartPlace(x) : x \in {}})
  BY <1>2, <1>9, <1>10, <1>11, StackMove
<1>13. /\ {FramePlace(stack[th][i]) : i \in k .. Len(stack[th])} \cup {EndPlace(x) : x \in {}}
            = {FramePlace(Top(th)), FramePlace(Caller(th))}
       /\ {FramePlace(s[j]) : j \in k .. Len(s)} \cup {StartPlace(x) : x \in {}} = {FramePlace(new)}
  <2>1. k .. Len(s) = {k} /\ k .. Len(stack[th]) = {k, n} /\ k = n - 1
    BY <1>1, <1>2 DEF n, k
  <2> QED
    BY <1>1, <1>2, <2>1
<1> QED
  BY <1>12, <1>13 DEF s

-----------------------------------------------------------------------------
(* A thread of a program that runs may take the step. *)
Steps(th, id) ==
  /\ BuildInv /\ Regular /\ Comparable /\ Orderly /\ Stacks
  /\ th \in NodeFuncs
  /\ Ready(th, id)

Leaving(id) == id[3] = "exit" \/ (id[3] = "call" /\ TermOf(id).api = "panic")

(* The label of a terminator is that of a transition. *)
LEMMA TermLabelled ==
  ASSUME NEW f, NEW b, HasPlace(f, b), TermRegular(f, b), Term(f, b).op \in Ops,
         NEW id \in TermLabels(f, b)
  PROVE  LET t == Term(f, b) IN
         /\ id \in TermIds(f, b)
         /\ \/ id = <<f, b, "exit", 0>>
            \/ /\ ~ExitsProgram(f, t)
               /\ \/ t.op = "return" /\ Block(f, b).pending /\ Suspends(f, b) /\ id = <<f, b, "goto", 0>>
                  \/ t.op = "return" /\ ~Block(f, b).pending /\ id = <<f, 0, "return", 0>>
                  \/ /\ t.op = "switch" /\ id[4] \in DOMAIN t.targets /\ HasPlace(f, t.targets[id[4]])
                     /\ id = <<f, b, "switch", id[4]>>
                  \/ t.op = "drop" /\ Lands(f, t) /\ id = <<f, b, "drop", 0>>
                  \/ t.op = "call" /\ CallRegular(f, b) /\ id = <<f, b, "call", 0>>
                  \/ t.op \in {"goto", "assert", "fallthrough"} /\ Lands(f, t) /\ id = <<f, b, "goto", 0>>
<1> DEFINE t == Term(f, b)
<1>1. CASE ExitsProgram(f, t)
  <2>1. id = <<f, b, "exit", 0>>
    BY <1>1 DEF TermLabels
  <2>2. CASE t.op = "terminal"
    BY <2>1, <2>2 DEF TermIds
  <2>3. CASE t.op = "goto"
    BY <1>1, <2>1, <2>3 DEF TermIds, ExitsProgram
  <2>4. CASE t.op = "call"
    <3>1. Handler(f, t) = "unwind"
      BY <1>1, <2>4 DEF ExitsProgram, Handler
    <3> QED
      BY <2>1, <2>4, <3>1 DEF TermIds, CallIds
  <2> QED
    BY <1>1, <2>1, <2>2, <2>3, <2>4 DEF ExitsProgram
<1>2. CASE ~ExitsProgram(f, t) /\ t.op = "return" /\ Block(f, b).pending
  <2>1. id = <<f, b, "goto", 0>>
    BY <1>2 DEF TermLabels
  <2>2. Suspends(f, b) /\ Resumes(f, b) # {}
    BY <1>2 DEF Suspends, Resumes, TermRegular, HasPlace
  <2> QED
    BY <1>2, <2>1, <2>2 DEF TermIds
<1>3. CASE ~ExitsProgram(f, t) /\ t.op = "return" /\ ~Block(f, b).pending
  BY <1>3 DEF TermLabels, TermIds, Suspends, ReturnId
<1>4. CASE ~ExitsProgram(f, t) /\ t.op = "switch"
  <2>1. CASE b = 0 /\ f \in prog.coroutine
    <3>1. id = <<f, b, "switch", 1>> /\ 1 \in DOMAIN t.targets /\ HasPlace(f, t.targets[1])
      BY <1>4, <2>1 DEF TermLabels, TermRegular
    <3>2. \A i \in DOMAIN t.targets : 1 =< i
      BY <1>4, <2>1 DEF TermRegular
    <3>3. 1 \in SwitchTargets(f, b)
      BY <2>1, <3>1, <3>2 DEF SwitchTargets, HasPlace
    <3> QED
      BY <1>4, <3>1, <3>3 DEF TermIds
  <2>2. CASE ~(b = 0 /\ f \in prog.coroutine)
    <3>1. PICK i \in DOMAIN t.targets : ~Excluded(f, t.targets[i]) /\ id = <<f, b, "switch", i>>
      BY <1>4, <2>2 DEF TermLabels
    <3>2. HasPlace(f, t.targets[i])
      BY <1>4, <3>1 DEF TermRegular
    <3>3. i \in SwitchTargets(f, b)
      BY <2>2, <3>1 DEF SwitchTargets
    <3> QED
      BY <1>4, <3>1, <3>2, <3>3 DEF TermIds
  <2> QED
    BY <2>1, <2>2
<1>5. CASE ~ExitsProgram(f, t) /\ t.op = "drop"
  BY <1>5 DEF TermLabels, TermIds, TermRegular
<1>6. CASE ~ExitsProgram(f, t) /\ t.op = "call"
  <2>1. id = <<f, b, "call", 0>>
    BY <1>6 DEF TermLabels
  <2>2. CallRegular(f, b)
    BY <1>6 DEF TermRegular
  <2>3. Handler(f, t) # "unwind"
    BY <2>2 DEF CallRegular
  <2> QED
    BY <1>6, <2>1, <2>2, <2>3 DEF TermIds, CallIds
<1>7. CASE ~ExitsProgram(f, t) /\ t.op \in {"goto", "assert"}
  <2>1. id = <<f, b, "goto", 0>> /\ Lands(f, t)
    BY <1>7 DEF TermLabels, TermRegular
  <2>2. t.op = "goto" => ~Block(f, t.targets[1]).cleanup
    BY <2>1 DEF Lands, HasPlace, Excluded
  <2> QED
    BY <1>7, <2>1, <2>2 DEF TermIds
<1>8. CASE ~ExitsProgram(f, t) /\ t.op = "fallthrough"
  <2>1. ~Excluded(f, t.targets[1]) /\ id = <<f, b, "goto", 0>>
    BY <1>8 DEF TermLabels
  <2> QED
    BY <1>8, <2>1 DEF TermIds, TermRegular
<1>9. CASE ~ExitsProgram(f, t) /\ t.op = "terminal"
  BY <1>9 DEF ExitsProgram
<1> QED
  BY <1>1, <1>2, <1>3, <1>4, <1>5, <1>6, <1>7, <1>8, <1>9 DEF Ops

(* Accesses that are merged are still some. *)
LEMMA AccessesMerged ==
  ASSUME NEW S, S # {}
  PROVE  Merged(S) # {}
<1>1. PICK a \in S : TRUE
  OBVIOUS
<1> DEFINE w == <<a[1], TRUE>>
<1>2. CASE w \in S
  <2>1. w[2]
    OBVIOUS
  <2> HIDE DEF w
  <2>2. w \in Merged(S)
    BY <1>2, <2>1, Zenon DEF Merged
  <2> QED
    BY <2>2
<1>3. CASE w \notin S
  BY <1>1, <1>3 DEF Merged
<1> QED
  BY <1>2, <1>3

(* Where a thread that takes the step is. *)
LEMMA StepFrame ==
  ASSUME NEW th, NEW id, Steps(th, id)
  PROVE  LET fr == Top(th) IN
         /\ stack[th] # <<>> /\ fr \in Frames /\ FrameOk(fr) /\ fr.f \in Translated /\ fr.f \in NodeFuncs
         /\ HasPlace(fr.f, fr.b) /\ fr.b \in BlocksOf(fr.f)
         /\ FramePlace(fr) \in OccupiedPlaces
         /\ TermRegular(fr.f, fr.b) /\ Term(fr.f, fr.b).op \in Ops
         /\ \/ fr.at = "entry" /\ id = <<fr.f, 0, "start", 0>>
            \/ fr.at = "block" /\ Accessed(fr.f, fr.b) /\ id = <<fr.f, fr.b, "unsafe", 0>>
            \/ /\ fr.at \in {"block", "accessed"} /\ FramePlace(fr) = Leaves(fr.f, fr.b)
               /\ id \in TermLabels(fr.f, fr.b)
            \/ fr.at = "operation" /\ \E a \in AtomicsOf(Term(fr.f, fr.b).args[1]) : id = <<fr.f, fr.b, "atomic", a>>
            \/ fr.at = "await" /\ id = <<fr.f, fr.b, "ret", 0>>
            \/ fr.at = "end" /\ Len(stack[th]) > 1 /\ id = <<Caller(th).f, Caller(th).b, "ret", 0>>
<1> DEFINE fr == Top(th)
<1>1. id \in Labels(th) /\ stack[th] # <<>> /\ th \in NodeFuncs /\ Stacks
  BY DEF Steps, Ready, Labels
<1>2. /\ fr \in Frames /\ FrameOk(fr) /\ fr.f \in Translated /\ FramePlace(fr) \in OccupiedPlaces
      /\ Len(stack[th]) \in Nat \ {0}
  BY <1>1, TopFrame
<1>3. fr.f \in NodeFuncs /\ HasPlace(fr.f, fr.b) /\ fr.b \in BlocksOf(fr.f)
  BY <1>2 DEF Translated, FrameOk, HasPlace
<1>4. TermRegular(fr.f, fr.b) /\ Term(fr.f, fr.b).op \in Ops
  BY <1>2, <1>3 DEF Steps, Regular, Describable
<1>5. Block(fr.f, fr.b).accesses # {} => Accessed(fr.f, fr.b)
  BY <1>4, AccessesMerged DEF Accessed, TermRegular
<1>6. Block(fr.f, fr.b).accesses = {} => ~Accessed(fr.f, fr.b)
  BY DEF Accessed, Merged
<1>7. fr.at \in {"entry", "block", "accessed", "operation", "await", "end"}
  BY <1>2 DEF Frames
<1>8. CASE fr.at = "entry"
  BY <1>1, <1>2, <1>3, <1>4, <1>8 DEF Labels
<1>9. CASE fr.at = "block" /\ Block(fr.f, fr.b).accesses # {}
  BY <1>1, <1>2, <1>3, <1>4, <1>5, <1>9 DEF Labels
<1>10. CASE fr.at = "block" /\ Block(fr.f, fr.b).accesses = {}
  <2>1. FramePlace(fr) = Leaves(fr.f, fr.b)
    BY <1>6, <1>10 DEF FramePlace, Leaves
  <2> QED
    BY <1>1, <1>2, <1>3, <1>4, <1>10, <2>1 DEF Labels
<1>11. CASE fr.at = "accessed"
  <2>1. FramePlace(fr) = Leaves(fr.f, fr.b)
    BY <1>2, <1>11 DEF FramePlace, Leaves, FrameOk
  <2> QED
    BY <1>1, <1>2, <1>3, <1>4, <1>11, <2>1 DEF Labels
<1>12. CASE fr.at = "operation"
  BY <1>1, <1>2, <1>3, <1>4, <1>12 DEF Labels
<1>13. CASE fr.at = "await"
  BY <1>1, <1>2, <1>3, <1>4, <1>13 DEF Labels
<1>14. CASE fr.at = "end"
  <2>1. Len(stack[th]) # 1 /\ id = <<Caller(th).f, Caller(th).b, "ret", 0>>
    BY <1>1, <1>14 DEF Labels
  <2>2. Len(stack[th]) > 1
    <3>1. \A n \in Nat \ {0} : n # 1 => n > 1
      OBVIOUS
    <3> QED
      BY <1>2, <2>1, <3>1
  <2> QED
    BY <1>1, <1>2, <1>3, <1>4, <1>14, <2>1, <2>2
<1> QED
  BY <1>7, <1>8, <1>9, <1>10, <1>11, <1>12, <1>13, <1>14

-----------------------------------------------------------------------------
(* The arcs of a transition are those of control places, one token each,    *)
(* and those of what the threads share.                                     *)
Control(G) == \A p \in G : p[1] \in ControlKinds

Carried(A, G, R) ==
  /\ DOMAIN A \subseteq G \cup SharedPlaces
  /\ \A p \in DOMAIN A : p[1] \notin ControlKinds => p \in SharedPlaces
  /\ \A p : /\ Arc(p, A) \in Nat
            /\ p[1] \in ControlKinds => Arc(p, A) = IF p \in G THEN 1 ELSE 0
            /\ p[1] \notin ControlKinds => Arc(p, A) = Arc(p, R)

OneOf(B, G) == DOMAIN B \subseteq G /\ \A p : Arc(p, B) = IF p \in G THEN 1 ELSE 0

Shared(R) ==
  /\ DOMAIN R \subseteq SharedPlaces
  /\ \A p : Arc(p, R) \in Nat /\ (p[1] \in ControlKinds => Arc(p, R) = 0)

LEMMA OneOfBags ==
  /\ OneOf(None, {})
  /\ \A q : OneOf(One(q), {q})
  /\ \A S : OneOf(OneEach(S), S)
<1>1. OneOf(None, {})
  BY ArcNone, Domains DEF OneOf
<1>2. \A q : OneOf(One(q), {q})
  BY ArcOne, Domains DEF OneOf
<1>3. \A S : OneOf(OneEach(S), S)
  BY ArcOneEach, Domains DEF OneOf
<1> QED
  BY <1>1, <1>2, <1>3

LEMMA CarriedAlone ==
  ASSUME NEW B, NEW G, OneOf(B, G), Control(G)
  PROVE  Carried(B, G, None)
  BY ArcNone DEF Carried, OneOf, Control

LEMMA CarriedWith ==
  ASSUME NEW B, NEW G, OneOf(B, G), Control(G), NEW R, Shared(R)
  PROVE  Carried(B (+) R, G, R) /\ Carried(R (+) B, G, R)
<1>1. \A p : Arc(p, B (+) R) = Arc(p, B) + Arc(p, R) /\ Arc(p, R (+) B) = Arc(p, R) + Arc(p, B)
  BY ArcSum
<1>2. DOMAIN (B (+) R) = DOMAIN B \cup DOMAIN R /\ DOMAIN (R (+) B) = DOMAIN R \cup DOMAIN B
  BY Domains
<1>3. \A p : Arc(p, B) \in Nat /\ (p[1] \notin ControlKinds => Arc(p, B) = 0)
  BY DEF OneOf, Control
<1>4. \A p : Arc(p, R) \in Nat /\ (p[1] \in ControlKinds => Arc(p, R) = 0)
  BY DEF Shared
<1>5. \A p : Arc(p, B) = IF p \in G THEN 1 ELSE 0
  BY DEF OneOf
<1>6. DOMAIN B \subseteq G /\ DOMAIN R \subseteq SharedPlaces
  BY DEF OneOf, Shared
<1>7. \A p \in G : p[1] \in ControlKinds
  BY DEF Control
<1> QED
  BY <1>1, <1>2, <1>3, <1>4, <1>5, <1>6, <1>7 DEF Carried

(* Two sets of control places. *)
LEMMA CarriedBoth ==
  ASSUME NEW B, NEW G, OneOf(B, G), NEW D, NEW H, OneOf(D, H), Control(G \cup H), G \cap H = {}
  PROVE  Carried(B (+) D, G \cup H, None)
<1>1. \A p : Arc(p, B (+) D) = Arc(p, B) + Arc(p, D)
  BY ArcSum
<1>2. DOMAIN (B (+) D) = DOMAIN B \cup DOMAIN D
  BY Domains
<1>3. OneOf(B (+) D, G \cup H)
  <2>1. \A p : Arc(p, B) = IF p \in G THEN 1 ELSE 0
    BY DEF OneOf
  <2>2. \A p : Arc(p, D) = IF p \in H THEN 1 ELSE 0
    BY DEF OneOf
  <2>3. DOMAIN B \subseteq G /\ DOMAIN D \subseteq H
    BY DEF OneOf
  <2> QED
    BY <1>1, <1>2, <2>1, <2>2, <2>3 DEF OneOf
<1> QED
  BY <1>3, CarriedAlone

-----------------------------------------------------------------------------
(* What the step of the program does to the locks and channels. *)
Receives(id, c) ==
  id[3] = "call" /\ TermOf(id).api = "recv" /\ c \in prog.channel[TermOf(id).args[1]]
Sends(id, c) ==
  id[3] = "call" /\ TermOf(id).api = "send" /\ c \in prog.channel[TermOf(id).args[1]]

Share(x, l) == IF Owner(x).lock = l THEN Weight(Owner(x).kind) ELSE 0

(* The arcs of shared places are what the step does to locks and channels.  *)
LocksAgree(id, R, Q) ==
  /\ Acquired(id) = {} => \A l : Arc(LockPlace(l), R) = 0
  /\ \A x \in Acquired(id) : \A l : Arc(LockPlace(l), R) = Share(x, l)
  /\ \A x \in Acquired(id) : Acquired(id) = {x}
  /\ Released(id) \cap DOMAIN prog.guard = {} => \A l : Arc(LockPlace(l), Q) = 0
  /\ \A x \in Released(id) \cap DOMAIN prog.guard : \A l : Arc(LockPlace(l), Q) = Share(x, l)
  /\ \A x \in Released(id) : Released(id) = {x}
  /\ Acquired(id) = {} \/ Released(id) = {}
  /\ \A x \in Acquired(id) : Owner(x) \in {prog.guard[g] : g \in DOMAIN prog.guard}

OthersAgree(id, R, Q) ==
  /\ \A c : /\ Arc(ChannelPlace(c), R) = IF Receives(id, c) THEN 1 ELSE 0
            /\ Arc(ChannelPlace(c), Q) = IF Sends(id, c) THEN 1 ELSE 0
  /\ \A a : Arc(AtomicPlace(a), R) = Arc(AtomicPlace(a), Q) /\ Arc(AtomicPlace(a), R) \in {0, 1}
  /\ ~CondvarStep(id) => \A c : Arc(CondvarPlace(c), R) = 0 /\ Arc(CondvarPlace(c), Q) = 0

ResourcesAgree(id, R, Q) == LocksAgree(id, R, Q) /\ OthersAgree(id, R, Q)

LEMMA NothingShared ==
  ASSUME NEW id, Acquired(id) = {}, Released(id) \cap DOMAIN prog.guard = {},
         \A x \in Released(id) : Released(id) = {x},
         \A c : ~Receives(id, c) /\ ~Sends(id, c)
  PROVE  ResourcesAgree(id, None, None)
<1>1. LocksAgree(id, None, None)
  BY ArcNone DEF LocksAgree
<1>2. OthersAgree(id, None, None)
  BY ArcNone DEF OthersAgree
<1> QED
  BY <1>1, <1>2 DEF ResourcesAgree

(* The step and the transition do the same. *)
Effect(th, id, gone, come, R, Q) ==
  /\ Room(gone, come)
  /\ id \in DOMAIN trans
  /\ Carried(trans[id].in, gone, R)
  /\ Carried(trans[id].out, come, Q)
  /\ ResourcesAgree(id, R, Q)
  /\ come \subseteq Place
  /\ ~Leaving(id) /\ Step(th, id) /\ prog' = prog /\ functions' = functions =>
       Stacks' /\ Moves(gone, come)

-----------------------------------------------------------------------------
(* The places of the frames. *)
LEMMA FrameHasPlace ==
  ASSUME BuildInv, Regular, phase = "run", NEW fr \in Frames, FrameOk(fr)
  PROVE  FramePlace(fr) \in Place
<1>1. fr.f \in Translated /\ fr.b \in BlocksOf(fr.f) /\ HasPlace(fr.f, fr.b) /\ fr.f \in functions
  BY RunNet DEF Frames, FrameOk, HasPlace
<1>2. fr.at \in {"entry", "block", "accessed", "operation", "await", "end"}
  BY DEF Frames
<1>3. CASE fr.at \in {"entry", "end"}
  <2>1. StartPlace(fr.f) \in Place /\ EndPlace(fr.f) \in Place
    BY <1>1, RunNet DEF SharedPlaces
  <2> QED
    BY <1>3, <2>1 DEF FramePlace
<1>4. CASE fr.at = "block"
  BY <1>1, <1>4, RunNet DEF FramePlace
<1>5. CASE fr.at = "accessed"
  BY <1>1, <1>5, RunNet DEF FramePlace, FrameOk
<1>6. CASE fr.at = "operation"
  <2>1. OperationPlace(fr.f, fr.b) \in TermPlaces(fr.f, fr.b)
    BY <1>6 DEF FrameOk, TermPlaces, OnAtomic, ComesBack
  <2> QED
    BY <1>1, <1>6, <2>1, RunNet DEF FramePlace
<1>7. CASE fr.at = "await"
  <2>1. WaitPlace(fr.f, fr.b) \in TermPlaces(fr.f, fr.b)
    BY <1>7 DEF FrameOk, TermPlaces
  <2> QED
    BY <1>1, <1>7, <2>1, RunNet DEF FramePlace
<1> QED
  BY <1>2, <1>3, <1>4, <1>5, <1>6, <1>7

(* A frame that waits is at a call. *)
LEMMA AwaitingCall ==
  ASSUME Regular, NEW fr \in Frames, FrameOk(fr), fr.at \in {"await", "operation"}
  PROVE  /\ CallRegular(fr.f, fr.b) /\ Term(fr.f, fr.b).op = "call"
         /\ ~ExitsProgram(fr.f, Term(fr.f, fr.b))
<1>1. fr.f \in Translated /\ HasPlace(fr.f, fr.b) /\ fr.b \in BlocksOf(fr.f)
  BY DEF Frames, FrameOk, HasPlace
<1>2. TermRegular(fr.f, fr.b)
  BY <1>1 DEF Regular
<1> QED
  BY <1>2 DEF FrameOk, TermRegular

(* The frame below the one that returns. *)
LEMMA CallerFrame ==
  ASSUME Regular, Stacks, NEW th \in NodeFuncs, Len(stack[th]) > 1
  PROVE  LET fr == Caller(th) IN
         /\ fr \in Frames /\ FrameOk(fr) /\ fr.at = "await" /\ fr.f \in Translated
         /\ Callee(Term(fr.f, fr.b)) = {Top(th).f}
         /\ FramePlace(fr) \in OccupiedPlaces
         /\ CallRegular(fr.f, fr.b) /\ Term(fr.f, fr.b).op = "call"
         /\ ~ExitsProgram(fr.f, Term(fr.f, fr.b))
         /\ Term(fr.f, fr.b).api \in {"plain", "forward"}
<1> DEFINE n == Len(stack[th])
           fr == Caller(th)
<1>1. stack[th] # <<>>
  OBVIOUS
<1>2. n \in Nat /\ DOMAIN stack[th] = 1 .. n /\ Top(th) = stack[th][n] /\ n > 1
  BY <1>1, TopFrame
<1>3. n - 1 \in DOMAIN stack[th] /\ fr = stack[th][n - 1] /\ n - 1 < n /\ (n - 1) + 1 = n
  BY <1>2 DEF Caller
<1>4. /\ SpotOk(th, n - 1) /\ fr \in Frames /\ fr.f \in Translated
      /\ FramePlace(fr) \in OccupiedPlaces
  BY <1>3, OnePlace
<1>5. FrameOk(fr) /\ fr.at = "await" /\ Callee(Term(fr.f, fr.b)) = {Top(th).f}
  BY <1>2, <1>3, <1>4 DEF SpotOk
<1>6. Term(fr.f, fr.b).api \in {"plain", "forward"}
  BY <1>5 DEF Callee
<1> QED
  BY <1>4, <1>5, <1>6, AwaitingCall

(* A call step is that of the frame on top. *)
LEMMA CallStep ==
  ASSUME NEW th, NEW id, Steps(th, id), id[3] = "call"
  PROVE  LET f == Top(th).f
             b == Top(th).b
         IN  /\ id = <<f, b, "call", 0>> /\ CallRegular(f, b) /\ TermOf(id) = Term(f, b)
             /\ Term(f, b).op = "call" /\ ~ExitsProgram(f, Term(f, b))
             /\ id \in TermLabels(f, b) /\ id \in TermIds(f, b)
             /\ FramePlace(Top(th)) = Leaves(f, b) /\ Top(th).at \in {"block", "accessed"}
<1> DEFINE f == Top(th).f
           b == Top(th).b
<1>1. /\ id \in TermLabels(f, b) /\ FramePlace(Top(th)) = Leaves(f, b) /\ Top(th).at \in {"block", "accessed"}
      /\ HasPlace(f, b) /\ TermRegular(f, b) /\ Term(f, b).op \in Ops
  BY StepFrame
<1>2. id \in TermIds(f, b) /\ id = <<f, b, "call", 0>> /\ CallRegular(f, b) /\ Term(f, b).op = "call"
      /\ ~ExitsProgram(f, Term(f, b))
  BY <1>1, TermLabelled
<1> QED
  BY <1>1, <1>2 DEF TermOf

(* A return step comes back from a call. *)
LEMMA RetStep ==
  ASSUME NEW th, NEW id, Steps(th, id), id[3] = "ret"
  PROVE  LET fr == IF Top(th).at = "end" THEN Caller(th) ELSE Top(th) IN
         /\ id = <<fr.f, fr.b, "ret", 0>> /\ CallRegular(fr.f, fr.b) /\ TermOf(id) = Term(fr.f, fr.b)
         /\ Term(fr.f, fr.b).op = "call" /\ ~ExitsProgram(fr.f, Term(fr.f, fr.b))
         /\ fr \in Frames /\ FrameOk(fr) /\ fr.at = "await" /\ fr.f \in Translated
         /\ FramePlace(fr) = WaitPlace(fr.f, fr.b)
         /\ IF Top(th).at = "end"
              THEN /\ Len(stack[th]) > 1
                   /\ Term(fr.f, fr.b).api \in {"plain", "forward"}
                   /\ Callee(Term(fr.f, fr.b)) = {Top(th).f}
              ELSE Term(fr.f, fr.b).api \in {"wait", "rayonJoin"}
<1> DEFINE fr == IF Top(th).at = "end" THEN Caller(th) ELSE Top(th)
<1>1. Regular /\ Stacks /\ th \in NodeFuncs
  BY DEF Steps
<1>2. CASE Top(th).at = "end"
  <2>1. Len(stack[th]) > 1 /\ id = <<Caller(th).f, Caller(th).b, "ret", 0>>
    BY <1>2, StepFrame
  <2>2. TermOf(id) = Term(fr.f, fr.b)
    BY <1>2, <2>1 DEF TermOf
  <2> QED
    BY <1>1, <1>2, <2>1, <2>2, CallerFrame DEF FramePlace
<1>3. CASE Top(th).at # "end"
  <2>1. id \notin TermLabels(Top(th).f, Top(th).b)
    BY StepFrame, TermLabelled
  <2>2. Top(th).at = "await" /\ id = <<Top(th).f, Top(th).b, "ret", 0>>
    BY <1>3, <2>1, StepFrame
  <2>3. Top(th) \in Frames /\ FrameOk(Top(th)) /\ Top(th).f \in Translated /\ stack[th] # <<>>
    BY StepFrame
  <2>4. Term(fr.f, fr.b).api \in {"wait", "rayonJoin"}
    BY <1>1, <2>2, <2>3, TopFrame
  <2>5. TermOf(id) = Term(fr.f, fr.b)
    BY <2>2 DEF TermOf
  <2> QED
    BY <1>1, <2>2, <2>3, <2>4, <2>5, AwaitingCall DEF FramePlace
<1> QED
  BY <1>2, <1>3

(* The functions of threads that are started. *)
LEMMA StartedBegin ==
  ASSUME NEW th, NEW id, Steps(th, id), NEW g \in Started(id)
  PROVE  MayBegin(g) /\ g \in Threads
<1> DEFINE f == Top(th).f
           b == Top(th).b
<1>1. id[3] = "call"
  BY DEF Started
<1>2. id = <<f, b, "call", 0>> /\ CallRegular(f, b) /\ TermOf(id) = Term(f, b)
  BY <1>1, CallStep
<1>3. f \in NodeFuncs /\ b \in BlocksOf(f)
  BY StepFrame
<1>4. g \in Threads
  BY <1>2, <1>3 DEF Threads
<1>5. TermOf(id).api # "scopeSpawn"
  BY <1>2 DEF CallRegular
<1>6. g \in ClosureArgs(TermOf(id))
  BY <1>5 DEF Started, ClosureArgs, ClosureAt
<1>7. g \in Translated
  BY <1>2, <1>6 DEF CallRegular
<1>8. HasPlace(g, 0)
  BY <1>7 DEF Steps, Regular, Describable, Translated
<1>9. Absent(g)
  <2>1. g \in Entered(id)
    BY DEF Entered
  <2>2. th \in NodeFuncs /\ id \in Labels(th) /\ Ready(th, id) /\ Orderly /\ Comparable
    BY DEF Steps, Ready
  <2> QED
    BY <2>1, <2>2 DEF Orderly, Absent
<1> QED
  BY <1>4, <1>7, <1>8, <1>9 DEF MayBegin

(* The functions of threads that are taken. *)
LEMMA CollectedEnded ==
  ASSUME NEW th, NEW id, Steps(th, id), NEW g \in Collected(id)
  PROVE  g \in NodeFuncs /\ g # th /\ stack[g] # <<>> /\ Ended(g) /\ id[3] \in {"call", "ret"}
<1>1. stack[g] # <<>> /\ Ended(g)
  BY DEF Steps, Ready
<1>2. Top(g).at = "end"
  BY <1>1 DEF Ended
<1>3. CASE id[3] = "call"
  <2>1. CallRegular(Top(th).f, Top(th).b) /\ TermOf(id) = Term(Top(th).f, Top(th).b)
        /\ Top(th).at \in {"block", "accessed"}
    BY <1>3, CallStep
  <2>2. TermOf(id).api = "join" /\ g = prog.thread[TermOf(id).args[1]]
    BY <1>3, <2>1 DEF Collected, CallRegular
  <2> QED
    BY <1>1, <1>2, <1>3, <2>1, <2>2 DEF CallRegular, Translated
<1>4. CASE id[3] = "ret"
  <2> DEFINE fr == IF Top(th).at = "end" THEN Caller(th) ELSE Top(th)
  <2>1. TermOf(id).api = "rayonJoin" /\ g \in ClosureArgs(TermOf(id))
    BY <1>4 DEF Collected
  <2>2. CallRegular(fr.f, fr.b) /\ TermOf(id) = Term(fr.f, fr.b)
    BY <1>4, RetStep
  <2>3. Top(th).at # "end"
    BY <1>4, <2>1, RetStep
  <2> QED
    BY <1>1, <1>2, <1>4, <2>1, <2>2, <2>3 DEF CallRegular, Translated
<1>5. CASE id[3] = "return"
  <2>1. id \in TermLabels(Top(th).f, Top(th).b) /\ HasPlace(Top(th).f, Top(th).b)
        /\ TermRegular(Top(th).f, Top(th).b) /\ Term(Top(th).f, Top(th).b).op \in Ops /\ Top(th).f \in NodeFuncs
    BY <1>5, StepFrame
  <2>2. id[1] = Top(th).f
    BY <1>5, <2>1, TermLabelled
  <2>3. ScopedThreads(id[1]) = {}
    BY <2>1, <2>2 DEF ScopedThreads, Steps, Regular, Describable
  <2> QED
    BY <1>5, <2>3 DEF Collected
<1> QED
  BY <1>3, <1>4, <1>5 DEF Collected

-----------------------------------------------------------------------------
(* Some places and arcs show that the net does what the step does. *)
Follows(th, id) == \E gone, come, R, Q : Effect(th, id, gone, come, R, Q)

(* The step is the label of a transition. *)
LEMMA InNet ==
  ASSUME NEW th, NEW id, Steps(th, id)
  PROVE  id \in DOMAIN trans /\ Shape(id, trans[id])
<1> DEFINE fr == Top(th)
<1>1. BuildInv /\ Regular /\ phase = "run"
  BY DEF Steps, Comparable
<1>2. \A f \in Translated : \A b \in BlocksOf(f) : HasPlace(f, b) => IdsOf(f, b) \subseteq DOMAIN trans
  BY <1>1, RunNet
<1>3. \A x \in DOMAIN trans : Shape(x, trans[x])
  BY <1>1, RunNet
<1>4. /\ fr.f \in Translated /\ fr.f \in NodeFuncs /\ HasPlace(fr.f, fr.b) /\ fr.b \in BlocksOf(fr.f)
      /\ TermRegular(fr.f, fr.b) /\ Term(fr.f, fr.b).op \in Ops /\ fr \in Frames /\ FrameOk(fr)
  BY StepFrame
<1>5. CASE fr.at = "entry" /\ id = <<fr.f, 0, "start", 0>>
  <2>1. HasPlace(fr.f, 0)
    BY <1>1, <1>4 DEF Regular, Describable
  <2>2. id \in IdsOf(fr.f, 0) /\ 0 \in BlocksOf(fr.f)
    BY <1>5, <2>1 DEF IdsOf, StartIds, HasPlace
  <2> QED
    BY <1>2, <1>3, <1>4, <2>1, <2>2
<1>6. CASE Accessed(fr.f, fr.b) /\ id = <<fr.f, fr.b, "unsafe", 0>>
  BY <1>2, <1>3, <1>4, <1>6 DEF IdsOf, StmtIds
<1>7. CASE id \in TermLabels(fr.f, fr.b)
  <2>1. id \in TermIds(fr.f, fr.b)
    BY <1>4, <1>7, TermLabelled
  <2> QED
    BY <1>2, <1>3, <1>4, <2>1 DEF IdsOf
<1>8. CASE fr.at = "operation" /\ \E a \in AtomicsOf(Term(fr.f, fr.b).args[1]) : id = <<fr.f, fr.b, "atomic", a>>
  <2>1. CallRegular(fr.f, fr.b) /\ Term(fr.f, fr.b).op = "call" /\ OnAtomic(fr.f, Term(fr.f, fr.b))
    BY <1>1, <1>4, <1>8, AwaitingCall DEF FrameOk
  <2>2. id \in TermIds(fr.f, fr.b)
    BY <1>8, <2>1 DEF TermIds, CallIds, OnAtomic
  <2> QED
    BY <1>2, <1>3, <1>4, <2>2 DEF IdsOf
<1>9. CASE id[3] = "ret"
  <2> DEFINE cr == IF Top(th).at = "end" THEN Caller(th) ELSE Top(th)
  <2>1. /\ id = <<cr.f, cr.b, "ret", 0>> /\ Term(cr.f, cr.b).op = "call" /\ FrameOk(cr) /\ cr.at = "await"
        /\ cr.f \in Translated
    BY <1>9, RetStep
  <2>2. ComesBack(cr.f, Term(cr.f, cr.b)) /\ HasPlace(cr.f, cr.b) /\ cr.b \in BlocksOf(cr.f)
    BY <2>1 DEF FrameOk, HasPlace
  <2>3. Handler(cr.f, Term(cr.f, cr.b)) # "unwind"
    BY <2>2 DEF ComesBack
  <2>4. id \in TermIds(cr.f, cr.b)
    BY <2>1, <2>2, <2>3 DEF TermIds, CallIds
  <2> QED
    BY <1>2, <1>3, <2>1, <2>2, <2>4 DEF IdsOf
<1>10. \/ fr.at = "entry" /\ id = <<fr.f, 0, "start", 0>>
       \/ Accessed(fr.f, fr.b) /\ id = <<fr.f, fr.b, "unsafe", 0>>
       \/ id \in TermLabels(fr.f, fr.b)
       \/ fr.at = "operation" /\ \E a \in AtomicsOf(Term(fr.f, fr.b).args[1]) : id = <<fr.f, fr.b, "atomic", a>>
       \/ id[3] = "ret"
  BY StepFrame
<1> QED
  BY <1>5, <1>6, <1>7, <1>8, <1>9, <1>10

(* A step that leaves the thread in its function. *)
LEMMA LocalStep ==
  ASSUME NEW th, NEW id, Steps(th, id),
         NEW new \in Frames, new.f = Top(th).f, FrameOk(new),
         new.at = "await" => Term(new.f, new.b).api \in {"wait", "rayonJoin"},
         StackAfter(th, id) = Append(Front(stack[th]), new)
  PROVE  LET gone == {FramePlace(Top(th))} \cup {EndPlace(g) : g \in Collected(id)}
             come == {FramePlace(new)} \cup {StartPlace(g) : g \in Started(id)}
         IN  /\ Room(gone, come) /\ Control(gone) /\ Control(come) /\ come \subseteq Place
             /\ ~Leaving(id) /\ Step(th, id) /\ prog' = prog /\ functions' = functions =>
                  Stacks' /\ Moves(gone, come)
<1> DEFINE S == Started(id)
           C == Collected(id)
           gone == {FramePlace(Top(th))} \cup {EndPlace(g) : g \in C}
           come == {FramePlace(new)} \cup {StartPlace(g) : g \in S}
           after == Append(Front(stack[th]), new)
<1>1. th \in NodeFuncs /\ Stacks /\ BuildInv /\ Regular /\ phase = "run" /\ stack[th] # <<>> /\ Top(th) \in Frames
  BY StepFrame DEF Steps, Comparable
<1>2. \A g \in S : MayBegin(g) /\ g \in Threads
  BY StartedBegin
<1>3. \A g \in C : g \in NodeFuncs /\ g # th /\ stack[g] # <<>> /\ Ended(g)
  BY CollectedEnded
<1>4. ~Leaving(id) /\ Step(th, id) /\ prog' = prog /\ functions' = functions => Changes(th, after, S, C)
  BY DEF Step, Changes, StacksAfter
<1> HIDE DEF S, C, after
<1>5. Room(gone, come) /\ (Changes(th, after, S, C) => Stacks' /\ Moves(gone, come))
  BY <1>1, <1>2, <1>3, LocalMove DEF after
<1>6. Control(gone) /\ Control(come)
  BY <1>1, Placed DEF Control, EndPlace, StartPlace, ControlKinds
<1>7. come \subseteq Place
  <2>1. FramePlace(new) \in Place
    BY <1>1, FrameHasPlace
  <2>2. \A g \in S : StartPlace(g) \in Place
    <3>1. \A g \in S : g \in functions
      BY <1>1, <1>2, RunNet DEF MayBegin
    <3> QED
      BY <1>1, <3>1, RunNet DEF SharedPlaces
  <2> QED
    BY <2>1, <2>2
<1> QED
  BY <1>4, <1>5, <1>6, <1>7 DEF S, C

LEMMA LocalEffect ==
  ASSUME NEW th, NEW id, Steps(th, id),
         NEW new \in Frames, new.f = Top(th).f, FrameOk(new),
         new.at = "await" => Term(new.f, new.b).api \in {"wait", "rayonJoin"},
         StackAfter(th, id) = Append(Front(stack[th]), new),
         NEW R, NEW Q, ResourcesAgree(id, R, Q),
         Carried(trans[id].in, {FramePlace(Top(th))} \cup {EndPlace(g) : g \in Collected(id)}, R),
         Carried(trans[id].out, {FramePlace(new)} \cup {StartPlace(g) : g \in Started(id)}, Q)
  PROVE  Follows(th, id)
<1> DEFINE gone == {FramePlace(Top(th))} \cup {EndPlace(g) : g \in Collected(id)}
           come == {FramePlace(new)} \cup {StartPlace(g) : g \in Started(id)}
<1>1. /\ Room(gone, come) /\ come \subseteq Place
      /\ ~Leaving(id) /\ Step(th, id) /\ prog' = prog /\ functions' = functions =>
           Stacks' /\ Moves(gone, come)
  BY LocalStep
<1>2. id \in DOMAIN trans
  BY InNet
<1> HIDE DEF gone, come
<1>3. Effect(th, id, gone, come, R, Q)
  BY <1>1, <1>2 DEF Effect, gone, come
<1> QED
  BY <1>3 DEF Follows

LEMMA BlockFrame ==
  ASSUME Regular, NEW f \in Translated, NEW c, HasPlace(f, c)
  PROVE  /\ Frame(f, c, "block") \in Frames /\ FrameOk(Frame(f, c, "block"))
         /\ Frame(f, c, "block").f = f /\ Frame(f, c, "block").at = "block"
         /\ FramePlace(Frame(f, c, "block")) = BlockPlace(f, c)
<1>1. c \in Nat
  BY DEF HasPlace, BlocksOf
<1> QED
  BY <1>1 DEF Frame, Frames, FrameOk, FramePlace

(* A step to another block that starts no thread and takes none. *)
LEMMA AdvanceEffect ==
  ASSUME NEW th, NEW id, Steps(th, id),
         NEW c, HasPlace(Top(th).f, c),
         StackAfter(th, id) = Append(Front(stack[th]), Frame(Top(th).f, c, "block")),
         Started(id) = {}, Collected(id) = {},
         NEW R, NEW Q, ResourcesAgree(id, R, Q),
         Carried(trans[id].in, {FramePlace(Top(th))}, R),
         Carried(trans[id].out, {BlockPlace(Top(th).f, c)}, Q)
  PROVE  Follows(th, id)
<1> DEFINE new == Frame(Top(th).f, c, "block")
<1>1. Top(th).f \in Translated /\ Regular
  BY StepFrame DEF Steps
<1>2. new \in Frames /\ FrameOk(new) /\ new.f = Top(th).f /\ new.at = "block"
      /\ FramePlace(new) = BlockPlace(Top(th).f, c)
  BY <1>1, BlockFrame
<1>3. /\ {FramePlace(Top(th))} \cup {EndPlace(g) : g \in Collected(id)} = {FramePlace(Top(th))}
      /\ {FramePlace(new)} \cup {StartPlace(g) : g \in Started(id)} = {BlockPlace(Top(th).f, c)}
  BY <1>2
<1>4. StackAfter(th, id) = Append(Front(stack[th]), new)
  OBVIOUS
<1> HIDE DEF new
<1>5. Carried(trans[id].in, {FramePlace(Top(th))} \cup {EndPlace(g) : g \in Collected(id)}, R)
  BY <1>3
<1>6. Carried(trans[id].out, {FramePlace(new)} \cup {StartPlace(g) : g \in Started(id)}, Q)
  BY <1>3
<1> QED
  BY <1>2, <1>4, <1>5, <1>6, LocalEffect

-----------------------------------------------------------------------------
(* One step each. *)
LEMMA StartEffect ==
  ASSUME NEW th, NEW id, Steps(th, id), id[3] = "start"
  PROVE  Follows(th, id)
<1> DEFINE f == Top(th).f
<1>1. Regular /\ f \in Translated /\ HasPlace(f, Top(th).b) /\ BuildInv /\ phase = "run"
  BY StepFrame DEF Steps, Comparable
<1>2. Top(th).at = "entry" /\ id = <<f, 0, "start", 0>>
  BY StepFrame, TermLabelled
<1>3. HasPlace(f, 0) /\ f \in functions
  BY <1>1, RunNet DEF Regular, Describable, Translated
<1>4. trans[id].in = One(StartPlace(f)) /\ trans[id].out = One(BlockPlace(f, 0))
  BY <1>2, <1>3, InNet DEF Shape, StartShape
<1>5. FramePlace(Top(th)) = StartPlace(f)
  BY <1>2 DEF FramePlace
<1>6. Carried(trans[id].in, {StartPlace(f)}, None) /\ Carried(trans[id].out, {BlockPlace(f, 0)}, None)
  BY <1>4, OneOfBags, CarriedAlone DEF Control, ControlKinds, StartPlace, BlockPlace
<1>7. Started(id) = {} /\ Collected(id) = {} /\ Acquired(id) = {} /\ Released(id) = {}
  BY <1>2 DEF Started, Collected, Acquired, Released
<1>8. ResourcesAgree(id, None, None)
  BY <1>2, <1>7, NothingShared DEF Receives, Sends
<1>9. StackAfter(th, id) = Append(Front(stack[th]), Frame(f, 0, "block"))
  BY <1>2 DEF StackAfter
<1> QED
  BY <1>3, <1>5, <1>6, <1>7, <1>8, <1>9, AdvanceEffect

LEMMA AccessEffect ==
  ASSUME NEW th, NEW id, Steps(th, id), id[3] = "unsafe"
  PROVE  Follows(th, id)
<1> DEFINE f == Top(th).f
           b == Top(th).b
           new == Frame(f, b, "accessed")
<1>1. Top(th) \in Frames /\ HasPlace(f, b) /\ f \in Translated
  BY StepFrame
<1>2. Top(th).at = "block" /\ id = <<f, b, "unsafe", 0>> /\ Accessed(f, b)
  BY StepFrame, TermLabelled
<1>3. new \in Frames /\ new.f = f /\ FrameOk(new) /\ new.at = "accessed" /\ FramePlace(new) = ReadyPlace(f, b)
  BY <1>1, <1>2 DEF Frame, Frames, FrameOk, FramePlace
<1>4. trans[id].in = One(BlockPlace(f, b)) /\ trans[id].out = One(ReadyPlace(f, b))
  BY <1>2, InNet DEF Shape, AccessShape
<1>5. FramePlace(Top(th)) = BlockPlace(f, b)
  BY <1>2 DEF FramePlace
<1>6. Carried(trans[id].in, {BlockPlace(f, b)}, None) /\ Carried(trans[id].out, {ReadyPlace(f, b)}, None)
  BY <1>4, OneOfBags, CarriedAlone DEF Control, ControlKinds, ReadyPlace, BlockPlace
<1>7. Started(id) = {} /\ Collected(id) = {} /\ Acquired(id) = {} /\ Released(id) = {}
  BY <1>2 DEF Started, Collected, Acquired, Released
<1>8. ResourcesAgree(id, None, None)
  BY <1>2, <1>7, NothingShared DEF Receives, Sends
<1>9. StackAfter(th, id) = Append(Front(stack[th]), new)
  BY <1>2 DEF StackAfter
<1> HIDE DEF new
<1>10. /\ {FramePlace(Top(th))} \cup {EndPlace(g) : g \in Collected(id)} = {BlockPlace(f, b)}
       /\ {FramePlace(new)} \cup {StartPlace(g) : g \in Started(id)} = {ReadyPlace(f, b)}
  BY <1>3, <1>5, <1>7
<1> QED
  BY <1>3, <1>6, <1>8, <1>9, <1>10, LocalEffect

(* Where the terminator of a block leaves from. *)
LEMMA TermStep2 ==
  ASSUME NEW th, NEW id, Steps(th, id), id[3] \in {"goto", "switch", "drop", "return", "exit"}
  PROVE  LET f == Top(th).f
             b == Top(th).b
         IN  /\ id \in TermLabels(f, b) /\ HasPlace(f, b) /\ TermRegular(f, b) /\ Term(f, b).op \in Ops
             /\ f \in Translated /\ f \in NodeFuncs /\ b \in BlocksOf(f)
             /\ FramePlace(Top(th)) = Leaves(f, b) /\ Control({Leaves(f, b)})
             /\ Top(th).at \in {"block", "accessed"}
             /\ Shape(id, trans[id])
             /\ Started(id) = {} /\ Acquired(id) = {} /\ Collected(id) = {}
<1> DEFINE f == Top(th).f
           b == Top(th).b
<1>1. /\ id \in TermLabels(f, b) /\ HasPlace(f, b) /\ TermRegular(f, b) /\ Term(f, b).op \in Ops
      /\ FramePlace(Top(th)) = Leaves(f, b) /\ f \in Translated /\ f \in NodeFuncs /\ b \in BlocksOf(f)
      /\ Top(th).at \in {"block", "accessed"}
  BY StepFrame
<1>2. Control({Leaves(f, b)})
  BY DEF Control, Leaves, ReadyPlace, BlockPlace, ControlKinds
<1>3. Started(id) = {} /\ Acquired(id) = {}
  BY DEF Started, Acquired
<1>4. Collected(id) = {}
  BY CollectedEnded
<1> QED
  BY <1>1, <1>2, <1>3, <1>4, InNet

LEMMA GotoEffect ==
  ASSUME NEW th, NEW id, Steps(th, id), id[3] = "goto"
  PROVE  Follows(th, id)
<1> DEFINE f == Top(th).f
           b == Top(th).b
           t == Term(f, b)
<1>1. /\ id \in TermLabels(f, b) /\ HasPlace(f, b) /\ TermRegular(f, b) /\ Term(f, b).op \in Ops
      /\ FramePlace(Top(th)) = Leaves(f, b) /\ Control({Leaves(f, b)}) /\ Shape(id, trans[id])
      /\ Started(id) = {} /\ Acquired(id) = {} /\ Collected(id) = {}
  BY TermStep2
<1>2. /\ id = <<f, b, "goto", 0>>
      /\ \/ t.op = "return" /\ Block(f, b).pending /\ Suspends(f, b)
         \/ t.op \in {"goto", "assert", "fallthrough"} /\ Lands(f, t)
  BY <1>1, TermLabelled
<1>3. TermOf(id) = t
  BY <1>2 DEF TermOf
<1>4. PICK c : /\ c = NextBlockOf(id) /\ HasPlace(f, c)
               /\ trans[id].out = One(BlockPlace(f, c)) \/ trans[id].out = OneEach({BlockPlace(f, c)})
  <2>1. CASE t.op = "return"
    <3>1. PICK c \in Continuation(f, b) : Continuation(f, b) = {c} /\ HasPlace(f, c)
      BY <1>1, <1>2, <2>1 DEF TermRegular
    <3>2. NextBlockOf(id) = c
      BY <1>2, <1>3, <2>1, <3>1 DEF NextBlockOf
    <3>3. Resumes(f, b) = {c}
      BY <3>1 DEF Resumes, HasPlace
    <3>4. trans[id].out = OneEach({BlockPlace(f, x) : x \in Resumes(f, b)})
      BY <1>1, <1>2, <2>1 DEF Shape, GotoShape
    <3>5. {BlockPlace(f, x) : x \in Resumes(f, b)} = {BlockPlace(f, c)}
      BY <3>3
    <3> QED
      BY <3>1, <3>2, <3>4, <3>5
  <2>2. CASE t.op # "return"
    <3>1. Lands(f, t) /\ NextBlockOf(id) = t.targets[1]
      BY <1>2, <1>3, <2>2 DEF NextBlockOf
    <3>2. trans[id].out = One(BlockPlace(f, t.targets[1]))
      BY <1>1, <1>2, <2>2, <3>1 DEF Shape, GotoShape, Leads, Lands
    <3> QED
      BY <3>1, <3>2 DEF Lands
  <2> QED
    BY <2>1, <2>2
<1>5. trans[id].in = One(Leaves(f, b))
  BY <1>1, <1>2 DEF Shape, GotoShape
<1>6. Carried(trans[id].in, {Leaves(f, b)}, None)
  BY <1>1, <1>5, OneOfBags, CarriedAlone
<1>7. Carried(trans[id].out, {BlockPlace(f, c)}, None)
  BY <1>4, OneOfBags, CarriedAlone DEF Control, ControlKinds, BlockPlace
<1>8. ResourcesAgree(id, None, None)
  BY <1>1, <1>2, NothingShared DEF Receives, Sends, Released
<1>9. StackAfter(th, id) = Append(Front(stack[th]), Frame(f, c, "block"))
  BY <1>2, <1>4 DEF StackAfter
<1> QED
  BY <1>1, <1>4, <1>6, <1>7, <1>8, <1>9, AdvanceEffect

LEMMA SwitchEffect ==
  ASSUME NEW th, NEW id, Steps(th, id), id[3] = "switch"
  PROVE  Follows(th, id)
<1> DEFINE f == Top(th).f
           b == Top(th).b
           t == Term(f, b)
           c == t.targets[id[4]]
<1>1. /\ id \in TermLabels(f, b) /\ HasPlace(f, b) /\ TermRegular(f, b) /\ Term(f, b).op \in Ops
      /\ FramePlace(Top(th)) = Leaves(f, b) /\ Control({Leaves(f, b)}) /\ Shape(id, trans[id])
      /\ Started(id) = {} /\ Acquired(id) = {} /\ Collected(id) = {}
  BY TermStep2
<1>2. id = <<f, b, "switch", id[4]>> /\ HasPlace(f, c)
  BY <1>1, TermLabelled
<1>3. NextBlockOf(id) = c
  BY <1>2 DEF NextBlockOf, TermOf
<1>4. id[1] = f /\ id[2] = b
  BY <1>2
<1>5. trans[id].in = One(Leaves(f, b)) /\ trans[id].out = One(BlockPlace(f, c))
  BY <1>1, <1>4 DEF Shape, SwitchShape
<1>6. Carried(trans[id].in, {Leaves(f, b)}, None) /\ Carried(trans[id].out, {BlockPlace(f, c)}, None)
  BY <1>1, <1>5, OneOfBags, CarriedAlone DEF Control, ControlKinds, BlockPlace
<1>8. ResourcesAgree(id, None, None)
  BY <1>1, NothingShared DEF Receives, Sends, Released
<1>9. StackAfter(th, id) = Append(Front(stack[th]), Frame(f, c, "block"))
  BY <1>3 DEF StackAfter
<1> QED
  BY <1>1, <1>2, <1>6, <1>8, <1>9, AdvanceEffect

LEMMA ReturnEffect ==
  ASSUME NEW th, NEW id, Steps(th, id), id[3] = "return"
  PROVE  Follows(th, id)
<1> DEFINE f == Top(th).f
           b == Top(th).b
           new == Frame(f, b, "end")
<1>1. /\ id \in TermLabels(f, b) /\ HasPlace(f, b) /\ TermRegular(f, b) /\ Term(f, b).op \in Ops
      /\ FramePlace(Top(th)) = Leaves(f, b) /\ Control({Leaves(f, b)}) /\ Shape(id, trans[id])
      /\ Started(id) = {} /\ Acquired(id) = {} /\ Collected(id) = {} /\ f \in Translated /\ b \in BlocksOf(f)
  BY TermStep2
<1>2. id = <<f, 0, "return", 0>> /\ Term(f, b).op = "return" /\ ~Block(f, b).pending
  BY <1>1, TermLabelled
<1>3. Returns(f, b)
  BY <1>1, <1>2 DEF Returns, Suspends
<1>4. trans[id].in = One(Leaves(f, b)) /\ trans[id].out = One(EndPlace(f))
  BY <1>1, <1>2, <1>3 DEF Shape, ReturnShape
<1>5. new \in Frames /\ new.f = f /\ FrameOk(new) /\ new.at = "end" /\ FramePlace(new) = EndPlace(f)
  <2>1. b \in Nat
    BY <1>1 DEF HasPlace, BlocksOf
  <2> QED
    BY <1>1, <2>1 DEF Frame, Frames, FrameOk, FramePlace
<1>6. Carried(trans[id].in, {Leaves(f, b)}, None) /\ Carried(trans[id].out, {EndPlace(f)}, None)
  BY <1>1, <1>4, OneOfBags, CarriedAlone DEF Control, ControlKinds, EndPlace
<1>8. ResourcesAgree(id, None, None)
  BY <1>1, <1>2, NothingShared DEF Receives, Sends, Released
<1>9. StackAfter(th, id) = Append(Front(stack[th]), new)
  BY <1>2 DEF StackAfter
<1> HIDE DEF new
<1>10. /\ {FramePlace(Top(th))} \cup {EndPlace(g) : g \in Collected(id)} = {Leaves(f, b)}
       /\ {FramePlace(new)} \cup {StartPlace(g) : g \in Started(id)} = {EndPlace(f)}
  BY <1>1, <1>5
<1> QED
  BY <1>5, <1>6, <1>8, <1>9, <1>10, LocalEffect

-----------------------------------------------------------------------------
(* The bags of what is shared. *)
LEMMA SharedBag ==
  ASSUME NEW B, NEW S, S \subseteq SharedPlaces, \A p \in S : p[1] \notin ControlKinds,
         DOMAIN B = S, NEW n \in Nat, \A p : Arc(p, B) = IF p \in S THEN n ELSE 0
  PROVE  Shared(B)
  BY DEF Shared

LEMMA SharedBags ==
  /\ Shared(None)
  /\ \A l \in Locks, n \in Nat : Shared(Times(LockPlace(l), n))
  /\ \A p \in SharedPlaces : p[1] \notin ControlKinds => Shared(One(p))
  /\ \A S : S \subseteq SharedPlaces /\ (\A p \in S : p[1] \notin ControlKinds) => Shared(OneEach(S))
<1>1. Shared(None)
  BY ArcNone, Domains DEF Shared
<1>2. ASSUME NEW l \in Locks, NEW n \in Nat PROVE Shared(Times(LockPlace(l), n))
  <2> DEFINE B == Times(LockPlace(l), n)
             S == {LockPlace(l)}
  <2>1. S \subseteq SharedPlaces
    BY DEF SharedPlaces
  <2>2. \A p \in S : p[1] \notin ControlKinds
    BY DEF LockPlace, ControlKinds
  <2>3. DOMAIN B = S /\ \A p : Arc(p, B) = IF p \in S THEN n ELSE 0
    BY ArcTimes, Domains
  <2> HIDE DEF B, S
  <2>4. Shared(B)
    BY <2>1, <2>2, <2>3, SharedBag
  <2> QED
    BY <2>4 DEF B
<1>3. ASSUME NEW p \in SharedPlaces, p[1] \notin ControlKinds PROVE Shared(One(p))
  <2> DEFINE B == One(p)
             S == {p}
  <2>1. S \subseteq SharedPlaces /\ \A q \in S : q[1] \notin ControlKinds
    BY <1>3
  <2>2. DOMAIN B = S /\ 1 \in Nat /\ \A q : Arc(q, B) = IF q \in S THEN 1 ELSE 0
    BY ArcOne, Domains
  <2> HIDE DEF B, S
  <2>3. Shared(B)
    BY <2>1, <2>2, SharedBag
  <2> QED
    BY <2>3 DEF B
<1>4. ASSUME NEW S, S \subseteq SharedPlaces, \A p \in S : p[1] \notin ControlKinds
      PROVE  Shared(OneEach(S))
  <2> DEFINE B == OneEach(S)
  <2>1. DOMAIN B = S /\ 1 \in Nat /\ \A q : Arc(q, B) = IF q \in S THEN 1 ELSE 0
    BY ArcOneEach, Domains
  <2> HIDE DEF B
  <2>2. Shared(B)
    BY <1>4, <2>1, SharedBag
  <2> QED
    BY <2>2 DEF B
<1> QED
  BY <1>1, <1>2, <1>3, <1>4

LEMMA SharedSum ==
  ASSUME NEW B, NEW C, Shared(B), Shared(C)
  PROVE  Shared(B (+) C)
<1>1. \A p : Arc(p, B (+) C) = Arc(p, B) + Arc(p, C)
  BY ArcSum
<1>2. DOMAIN (B (+) C) = DOMAIN B \cup DOMAIN C
  BY Domains
<1>3. DOMAIN B \subseteq SharedPlaces /\ DOMAIN C \subseteq SharedPlaces
  BY DEF Shared
<1>4. \A p : Arc(p, B) \in Nat /\ Arc(p, C) \in Nat
  BY DEF Shared
<1>5. \A p : p[1] \in ControlKinds => Arc(p, B) = 0 /\ Arc(p, C) = 0
  BY DEF Shared
<1> QED
  BY <1>1, <1>2, <1>3, <1>4, <1>5 DEF Shared

(* The tokens of a guard, and nothing else. *)
TokensOf(B, x) ==
  \A p : Arc(p, B) = IF p = LockPlace(Owner(x).lock) THEN Weight(Owner(x).kind) ELSE 0

LEMMA GuardTokens ==
  ASSUME NEW x, IsGuard(x)
  PROVE  /\ Shared(Tokens(x)) /\ TokensOf(Tokens(x), x)
         /\ Owner(x) = prog.guard[x] /\ Owner(x).lock \in Locks
<1>1. Owner(x) = prog.guard[x] /\ Owner(x).lock \in Locks
  BY DEF IsGuard, Owner, Locks
<1>2. Weight(Owner(x).kind) \in Nat
  BY DEF Weight, RwLockCapacity
<1>3. Tokens(x) = Times(LockPlace(Owner(x).lock), Weight(Owner(x).kind))
  BY <1>1 DEF Tokens
<1> QED
  BY <1>1, <1>2, <1>3, SharedBags, ArcTimes DEF TokensOf

LEMMA TokensArcs ==
  ASSUME NEW B, NEW x, TokensOf(B, x)
  PROVE  /\ \A l : Arc(LockPlace(l), B) = Share(x, l)
         /\ \A c : Arc(ChannelPlace(c), B) = 0 /\ Arc(AtomicPlace(c), B) = 0 /\ Arc(CondvarPlace(c), B) = 0
  BY DEF TokensOf, Share, LockPlace, ChannelPlace, AtomicPlace, CondvarPlace

LEMMA TokensGiven ==
  ASSUME NEW id, NEW x, Released(id) = {x}, IsGuard(x), Acquired(id) = {}, NEW Q, TokensOf(Q, x),
         \A c : ~Receives(id, c) /\ ~Sends(id, c)
  PROVE  ResourcesAgree(id, None, Q)
<1>1. LocksAgree(id, None, Q)
  BY ArcNone, TokensArcs DEF LocksAgree, IsGuard
<1>2. OthersAgree(id, None, Q)
  BY ArcNone, TokensArcs DEF OthersAgree
<1> QED
  BY <1>1, <1>2 DEF ResourcesAgree

(* Places that are no locks, channels or atomics do not count. *)
LEMMA TokensTaken ==
  ASSUME NEW id, NEW x, Acquired(id) = {x}, Released(id) = {}, NEW R, TokensOf(R, x),
         Owner(x) \in {prog.guard[g] : g \in DOMAIN prog.guard},
         \A c : ~Receives(id, c) /\ ~Sends(id, c)
  PROVE  ResourcesAgree(id, R, None)
<1>1. LocksAgree(id, R, None)
  BY ArcNone, TokensArcs DEF LocksAgree
<1>2. OthersAgree(id, R, None)
  BY ArcNone, TokensArcs DEF OthersAgree
<1> QED
  BY <1>1, <1>2 DEF ResourcesAgree

LEMMA DropEffect ==
  ASSUME NEW th, NEW id, Steps(th, id), id[3] = "drop"
  PROVE  Follows(th, id)
<1> DEFINE f == Top(th).f
           b == Top(th).b
           t == Term(f, b)
           x == t.args[1]
           c == t.targets[1]
           Q == Tokens(x)
<1>1. /\ id \in TermLabels(f, b) /\ HasPlace(f, b) /\ TermRegular(f, b) /\ Term(f, b).op \in Ops
      /\ FramePlace(Top(th)) = Leaves(f, b) /\ Control({Leaves(f, b)}) /\ Shape(id, trans[id])
      /\ Started(id) = {} /\ Acquired(id) = {} /\ Collected(id) = {}
  BY TermStep2
<1>2. id = <<f, b, "drop", 0>> /\ t.op = "drop" /\ Lands(f, t)
  BY <1>1, TermLabelled
<1>3. TermOf(id) = t /\ NextBlockOf(id) = c /\ HasPlace(f, c)
  BY <1>2 DEF TermOf, NextBlockOf, Lands
<1>4. trans[id].in = One(Leaves(f, b)) /\ trans[id].out = One(BlockPlace(f, c)) (+) Q
  BY <1>1, <1>2 DEF Shape, DropShape, Leads, Lands
<1>5. Released(id) = {x}
  BY <1>2, <1>3 DEF Released
<1>6. \A ch : ~Receives(id, ch) /\ ~Sends(id, ch)
  BY <1>2 DEF Receives, Sends
<1>7. Shared(Q) /\ ResourcesAgree(id, None, Q)
  <2>1. CASE IsGuard(x)
    BY <1>1, <1>5, <1>6, <2>1, GuardTokens, TokensGiven
  <2>2. CASE ~IsGuard(x)
    <3>1. Q = None /\ Released(id) \cap DOMAIN prog.guard = {}
      BY <1>5, <2>2 DEF Tokens, IsGuard
    <3> QED
      BY <1>1, <1>5, <1>6, <3>1, SharedBags, NothingShared
  <2> QED
    BY <2>1, <2>2
<1>8. Carried(trans[id].in, {Leaves(f, b)}, None)
  BY <1>1, <1>4, OneOfBags, CarriedAlone
<1>9. Carried(trans[id].out, {BlockPlace(f, c)}, Q)
  <2>1. Control({BlockPlace(f, c)})
    BY DEF Control, ControlKinds, BlockPlace
  <2>2. OneOf(One(BlockPlace(f, c)), {BlockPlace(f, c)})
    BY OneOfBags
  <2> HIDE DEF Q
  <2> QED
    BY <1>4, <1>7, <2>1, <2>2, CarriedWith
<1>10. StackAfter(th, id) = Append(Front(stack[th]), Frame(f, c, "block"))
  BY <1>2, <1>3 DEF StackAfter
<1> HIDE DEF Q
<1> QED
  BY <1>1, <1>3, <1>7, <1>8, <1>9, <1>10, AdvanceEffect

-----------------------------------------------------------------------------
(* A call, its transition, and the next block. *)
LEMMA CallHere ==
  ASSUME NEW th, NEW id, Steps(th, id), id[3] = "call"
  PROVE  LET f == Top(th).f
             b == Top(th).b
             t == Term(f, b)
         IN  /\ id = <<f, b, "call", 0>> /\ CallRegular(f, b) /\ TermOf(id) = t
             /\ t.op = "call" /\ FramePlace(Top(th)) = Leaves(f, b) /\ Control({Leaves(f, b)})
             /\ CallShape(f, b, trans[id])
             /\ f \in Translated /\ f \in NodeFuncs /\ HasPlace(f, b) /\ b \in BlocksOf(f)
             /\ t.api # "panic" => HasPlace(f, t.targets[1]) /\ NextBlockOf(id) = t.targets[1]
                                    /\ Leads(f, t) = One(BlockPlace(f, t.targets[1]))
             /\ IsAtomic(t) <=> OnAtomic(f, t)
             /\ Translated \subseteq functions
<1> DEFINE f == Top(th).f
           b == Top(th).b
           t == Term(f, b)
<1>1. /\ id = <<f, b, "call", 0>> /\ CallRegular(f, b) /\ TermOf(id) = t
      /\ t.op = "call" /\ FramePlace(Top(th)) = Leaves(f, b)
  BY CallStep
<1>2. Control({Leaves(f, b)})
  BY DEF Control, Leaves, ReadyPlace, BlockPlace, ControlKinds
<1>3. f \in Translated /\ f \in NodeFuncs /\ HasPlace(f, b) /\ b \in BlocksOf(f)
  BY StepFrame
<1>4. CallShape(f, b, trans[id])
  BY <1>1, InNet DEF Shape
<1>5. t.api # "panic" => HasPlace(f, t.targets[1]) /\ NextBlockOf(id) = t.targets[1]
                          /\ Leads(f, t) = One(BlockPlace(f, t.targets[1]))
  <2> SUFFICES ASSUME t.api # "panic"
               PROVE  HasPlace(f, t.targets[1]) /\ NextBlockOf(id) = t.targets[1]
                      /\ Leads(f, t) = One(BlockPlace(f, t.targets[1]))
    OBVIOUS
  <2>1. Lands(f, t)
    BY <1>1 DEF CallRegular
  <2> QED
    BY <1>1, <2>1 DEF Lands, NextBlockOf, Leads
<1>6. Handler(f, t) = CASE t.api = "fnptr" -> "connect"
                       [] t.api = "plain" -> "normal"
                       [] OTHER -> t.api
  BY <1>1 DEF CallRegular
<1>7. IsAtomic(t) <=> OnAtomic(f, t)
  BY <1>6 DEF IsAtomic, OnAtomic
<1>8. Translated \subseteq functions
  BY RunNet DEF Steps, Comparable
<1> QED
  BY <1>1, <1>2, <1>3, <1>4, <1>5, <1>7, <1>8

LEMMA CallKnown ==
  ASSUME NEW th, NEW id, Steps(th, id), id[3] = "call"
  PROVE  LET f == Top(th).f
             t == TermOf(id)
         IN  /\ t.op = "call"
             /\ Handler(f, t) = CASE t.api = "fnptr" -> "connect"
                                  [] t.api = "plain" -> "normal"
                                  [] OTHER -> t.api
             /\ t.api = "drop" => Range(t.args) = {t.args[1]}
             /\ t.api \in {"send", "recv"} => \E c \in ChannelsOf(t) : ChannelsOf(t) = {c}
             /\ t.api = "wait" => /\ IsGuard(t.args[2])
                                  /\ Owner(t.args[2]).kind = "mutex"
                                  /\ Owner(t.dest) = Owner(t.args[2])
             /\ t.api = "join" => prog.thread[t.args[1]] \in Translated
             /\ ClosureArgs(t) \subseteq Translated
             /\ t.callee \in NodeFuncs \cup DOMAIN prog.body => t.callee \in Translated
             /\ Callee(t) \cap Threads = {}
             /\ t.args \in Seq(Range(t.args))
<1> DEFINE f == Top(th).f
           b == Top(th).b
<1>1. CallRegular(f, b) /\ TermOf(id) = Term(f, b) /\ Term(f, b).op = "call"
  BY CallHere
<1> HIDE DEF f, b
<1>2. CallRegular(f, b)
  BY <1>1
<1> QED
  BY <1>1, <1>2 DEF CallRegular, f

(* The arcs of the call are what it does to threads and resources. *)
CallAgrees(th, id, takes, puts) ==
  LET next == BlockPlace(Top(th).f, TermOf(id).targets[1]) IN
  \E R, Q :
    /\ ResourcesAgree(id, R, Q)
    /\ Carried(One(FramePlace(Top(th))) (+) takes,
               {FramePlace(Top(th))} \cup {EndPlace(g) : g \in Collected(id)}, R)
    /\ Carried(puts (+) One(next), {next} \cup {StartPlace(g) : g \in Started(id)}, Q)

LEMMA CallAdvances ==
  ASSUME NEW th, NEW id, Steps(th, id), id[3] = "call",
         TermOf(id).api \notin {"panic", "wait", "rayonJoin"}, ~IsAtomic(TermOf(id)),
         Callee(TermOf(id)) = {}, ~ComesBack(Top(th).f, TermOf(id)),
         \A takes \in CallTakes(Top(th).f, TermOf(id)), puts \in CallPuts(Top(th).f, TermOf(id)) :
           CallAgrees(th, id, takes, puts)
  PROVE  Follows(th, id)
<1> DEFINE f == Top(th).f
           b == Top(th).b
           t == Term(f, b)
           c == t.targets[1]
           new == Frame(f, c, "block")
<1>1. /\ id = <<f, b, "call", 0>> /\ CallRegular(f, b) /\ TermOf(id) = t
      /\ FramePlace(Top(th)) = Leaves(f, b)
      /\ CallShape(f, b, trans[id]) /\ f \in Translated
      /\ t.api # "panic" => HasPlace(f, c) /\ NextBlockOf(id) = c /\ Leads(f, t) = One(BlockPlace(f, c))
      /\ ~OnAtomic(f, t)
  BY CallHere
<1>2. HasPlace(f, c) /\ NextBlockOf(id) = c /\ Leads(f, t) = One(BlockPlace(f, c))
  BY <1>1
<1>3. Handler(f, t) # "panic"
  BY <1>1 DEF CallRegular
<1>4. \E takes \in CallTakes(f, t), puts \in CallPuts(f, t) :
         /\ trans[id].in = One(Leaves(f, b)) (+) takes
         /\ trans[id].out = puts (+) One(BlockPlace(f, c))
  BY <1>1, <1>2, <1>3 DEF CallShape
<1>5. PICK takes \in CallTakes(f, t), puts \in CallPuts(f, t) :
         /\ trans[id].in = One(Leaves(f, b)) (+) takes
         /\ trans[id].out = puts (+) One(BlockPlace(f, c))
  BY <1>4
<1>6. CallAgrees(th, id, takes, puts)
  BY <1>1
<1>7. new \in Frames /\ FrameOk(new) /\ new.f = f /\ new.at = "block" /\ FramePlace(new) = BlockPlace(f, c)
  BY <1>1, <1>2, BlockFrame DEF Steps
<1>8. StackAfter(th, id) = Append(Front(stack[th]), new)
  BY <1>1, <1>2 DEF StackAfter
<1> HIDE DEF new
<1>9. \E R, Q : /\ ResourcesAgree(id, R, Q)
                /\ Carried(trans[id].in, {FramePlace(Top(th))} \cup {EndPlace(g) : g \in Collected(id)}, R)
                /\ Carried(trans[id].out, {FramePlace(new)} \cup {StartPlace(g) : g \in Started(id)}, Q)
  BY <1>1, <1>5, <1>6, <1>7 DEF CallAgrees
<1> QED
  BY <1>7, <1>8, <1>9, LocalEffect

(* A call that starts no thread and takes none. *)
LEMMA CallShares ==
  ASSUME NEW th, NEW id, Steps(th, id), id[3] = "call", TermOf(id).api # "panic",
         Started(id) = {}, Collected(id) = {},
         NEW takes, NEW puts, Shared(takes), Shared(puts), ResourcesAgree(id, takes, puts)
  PROVE  CallAgrees(th, id, takes, puts)
<1> DEFINE p == FramePlace(Top(th))
           n == BlockPlace(Top(th).f, TermOf(id).targets[1])
<1>1. Control({p}) /\ Control({n})
  <2>1. p = Leaves(Top(th).f, Top(th).b) /\ Control({Leaves(Top(th).f, Top(th).b)})
    BY CallHere
  <2>2. Control({n})
    BY DEF Control, BlockPlace, ControlKinds
  <2> HIDE DEF p, n
  <2> QED
    BY <2>1, <2>2
<1>2. OneOf(One(p), {p}) /\ OneOf(One(n), {n})
  BY OneOfBags
<1> HIDE DEF p, n
<1>3. Carried(One(p) (+) takes, {p}, takes)
  BY <1>1, <1>2, CarriedWith
<1>4. Carried(puts (+) One(n), {n}, puts)
  BY <1>1, <1>2, CarriedWith
<1>5. {p} \cup {EndPlace(g) : g \in Collected(id)} = {p} /\ {n} \cup {StartPlace(g) : g \in Started(id)} = {n}
  OBVIOUS
<1> QED
  BY <1>3, <1>4, <1>5 DEF CallAgrees, p, n

LEMMA LockEffect ==
  ASSUME NEW th, NEW id, Steps(th, id), id[3] = "call", TermOf(id).api = "lock"
  PROVE  Follows(th, id)
<1> DEFINE f == Top(th).f
           t == TermOf(id)
<1>1. Handler(f, t) = "lock"
  BY CallKnown
<1>2. IsGuard(t.dest)
  BY <1>1, Zenon DEF Handler, Acquires, Recognised
<1>3. Acquired(id) = {t.dest} /\ Released(id) = {} /\ Started(id) = {} /\ Collected(id) = {}
      /\ \A c : ~Receives(id, c) /\ ~Sends(id, c)
  BY DEF Acquired, Released, Started, Collected, Receives, Sends
<1>4. CallTakes(f, t) = {Tokens(t.dest)} /\ CallPuts(f, t) = {None}
  BY <1>1 DEF CallTakes, CallPuts
<1>5. ResourcesAgree(id, Tokens(t.dest), None) /\ Shared(Tokens(t.dest)) /\ Shared(None)
  <2>1. Owner(t.dest) \in {prog.guard[g] : g \in DOMAIN prog.guard}
    BY <1>2, GuardTokens DEF IsGuard
  <2> QED
    BY <1>2, <1>3, <2>1, GuardTokens, TokensTaken, SharedBags
<1>6. CallAgrees(th, id, Tokens(t.dest), None)
  BY <1>3, <1>5, CallShares
<1> QED
  BY <1>1, <1>4, <1>6, CallAdvances DEF Callee, ComesBack, IsAtomic

LEMMA DropCallEffect ==
  ASSUME NEW th, NEW id, Steps(th, id), id[3] = "call", TermOf(id).api = "drop"
  PROVE  Follows(th, id)
<1> DEFINE f == Top(th).f
           t == TermOf(id)
           x == t.args[1]
<1>1. Handler(f, t) = "drop" /\ Range(t.args) = {x}
  BY CallKnown
<1>3. Acquired(id) = {} /\ Released(id) = {x} /\ Started(id) = {} /\ Collected(id) = {}
      /\ \A c : ~Receives(id, c) /\ ~Sends(id, c)
  BY <1>1 DEF Acquired, Released, Started, Collected, Receives, Sends
<1>4. CallTakes(f, t) = {None} /\ CallPuts(f, t) = {Tokens(x)}
  BY <1>1 DEF CallTakes, CallPuts
<1>5. ResourcesAgree(id, None, Tokens(x)) /\ Shared(Tokens(x)) /\ Shared(None)
  <2>1. CASE IsGuard(x)
    BY <1>3, <2>1, GuardTokens, TokensGiven, SharedBags
  <2>2. CASE ~IsGuard(x)
    <3>1. Tokens(x) = None /\ Released(id) \cap DOMAIN prog.guard = {}
      BY <1>3, <2>2 DEF Tokens, IsGuard
    <3> QED
      BY <1>3, <3>1, SharedBags, NothingShared
  <2> QED
    BY <2>1, <2>2
<1>6. CallAgrees(th, id, None, Tokens(x))
  BY <1>3, <1>5, CallShares
<1> QED
  BY <1>1, <1>4, <1>6, CallAdvances DEF Callee, ComesBack, IsAtomic

(* Sends and receives. *)
LEMMA ChannelEffect ==
  ASSUME NEW th, NEW id, Steps(th, id), id[3] = "call", TermOf(id).api \in {"send", "recv"}
  PROVE  Follows(th, id)
<1> DEFINE f == Top(th).f
           t == TermOf(id)
<1>1. Handler(f, t) = t.api
  BY CallKnown
<1>2. PICK c \in ChannelsOf(t) : ChannelsOf(t) = {c}
  BY CallKnown
<1>3. prog.channel[t.args[1]] = {c} /\ ChannelPlace(c) \in SharedPlaces
  <2>1. t.args[1] \in DOMAIN prog.channel /\ prog.channel[t.args[1]] = {c}
    BY <1>2 DEF ChannelsOf
  <2>2. c \in UNION Range(prog.channel)
    BY <2>1 DEF Range
  <2> QED
    BY <2>1, <2>2 DEF SharedPlaces
<1> DEFINE B == One(ChannelPlace(c))
<1>4. Shared(B) /\ Shared(None)
  BY <1>3, SharedBags DEF ChannelPlace, ControlKinds
<1>5. Acquired(id) = {} /\ Released(id) = {} /\ Started(id) = {} /\ Collected(id) = {}
  BY DEF Acquired, Released, Started, Collected
<1>6. \A d : /\ Receives(id, d) <=> t.api = "recv" /\ d = c
             /\ Sends(id, d) <=> t.api = "send" /\ d = c
  BY <1>3 DEF Receives, Sends
<1>7. /\ \A d : Arc(ChannelPlace(d), B) = IF d = c THEN 1 ELSE 0
      /\ \A l : Arc(LockPlace(l), B) = 0 /\ Arc(AtomicPlace(l), B) = 0 /\ Arc(CondvarPlace(l), B) = 0
  BY ArcOne DEF ChannelPlace, LockPlace, AtomicPlace, CondvarPlace
<1>8. Channels(t) = {B}
  BY <1>2 DEF Channels
<1> HIDE DEF B
<1>9. CASE t.api = "recv"
  <2>1. CallTakes(f, t) = {B} /\ CallPuts(f, t) = {None}
    BY <1>1, <1>8, <1>9 DEF CallTakes, CallPuts
  <2>2. ResourcesAgree(id, B, None)
    BY <1>5, <1>6, <1>7, <1>9, ArcNone DEF ResourcesAgree, LocksAgree, OthersAgree
  <2>3. CallAgrees(th, id, B, None)
    BY <1>4, <1>5, <1>9, <2>2, CallShares
  <2> QED
    BY <1>1, <1>9, <2>1, <2>3, CallAdvances DEF Callee, ComesBack, IsAtomic
<1>10. CASE t.api = "send"
  <2>1. CallTakes(f, t) = {None} /\ CallPuts(f, t) = {B}
    BY <1>1, <1>8, <1>10 DEF CallTakes, CallPuts
  <2>2. ResourcesAgree(id, None, B)
    BY <1>5, <1>6, <1>7, <1>10, ArcNone DEF ResourcesAgree, LocksAgree, OthersAgree
  <2>3. CallAgrees(th, id, None, B)
    BY <1>4, <1>5, <1>10, <2>2, CallShares
  <2> QED
    BY <1>1, <1>10, <2>1, <2>3, CallAdvances DEF Callee, ComesBack, IsAtomic
<1> QED
  BY <1>9, <1>10

LEMMA NotifyEffect ==
  ASSUME NEW th, NEW id, Steps(th, id), id[3] = "call", TermOf(id).api = "notify"
  PROVE  Follows(th, id)
<1> DEFINE f == Top(th).f
           t == TermOf(id)
<1>1. Handler(f, t) = "notify" /\ t.op = "call"
  BY CallKnown
<1>2. CondvarStep(id)
  BY <1>1 DEF CondvarStep
<1>3. Acquired(id) = {} /\ Released(id) = {} /\ Started(id) = {} /\ Collected(id) = {}
      /\ \A c : ~Receives(id, c) /\ ~Sends(id, c)
  BY DEF Acquired, Released, Started, Collected, Receives, Sends
<1>4. CallTakes(f, t) = {None} /\ CallPuts(f, t) = Condvars(t)
  BY <1>1 DEF CallTakes, CallPuts
<1>5. ASSUME NEW Q \in Condvars(t) PROVE CallAgrees(th, id, None, Q)
  <2>1. CASE Q = None
    <3>1. ResourcesAgree(id, None, None)
      BY <1>3, NothingShared
    <3> QED
      BY <1>3, <2>1, <3>1, SharedBags, CallShares
  <2>2. CASE Q # None
    <3>1. PICK c \in CondvarsOf(t) : Q = One(CondvarPlace(c))
      BY <2>2 DEF Condvars
    <3>2. CondvarPlace(c) \in SharedPlaces
      <4>1. t.args[1] \in DOMAIN prog.condvar /\ c \in prog.condvar[t.args[1]]
        BY DEF CondvarsOf
      <4>2. c \in UNION Range(prog.condvar)
        BY <4>1 DEF Range
      <4> QED
        BY <4>2 DEF SharedPlaces
    <3>3. Shared(Q) /\ Shared(None)
      BY <3>1, <3>2, SharedBags DEF CondvarPlace, ControlKinds
    <3>4. \A l : Arc(LockPlace(l), Q) = 0 /\ Arc(AtomicPlace(l), Q) = 0 /\ Arc(ChannelPlace(l), Q) = 0
      BY <3>1, ArcOne DEF ChannelPlace, LockPlace, AtomicPlace, CondvarPlace
    <3>5. ResourcesAgree(id, None, Q)
      BY <1>2, <1>3, <3>4, ArcNone DEF ResourcesAgree, LocksAgree, OthersAgree
    <3> QED
      BY <1>3, <3>3, <3>5, CallShares
  <2> QED
    BY <2>1, <2>2
<1> QED
  BY <1>1, <1>4, <1>5, CallAdvances DEF Callee, ComesBack, IsAtomic

LEMMA JoinEffect ==
  ASSUME NEW th, NEW id, Steps(th, id), id[3] = "call", TermOf(id).api = "join"
  PROVE  Follows(th, id)
<1> DEFINE f == Top(th).f
           t == TermOf(id)
           g == prog.thread[t.args[1]]
           p == FramePlace(Top(th))
           n == BlockPlace(Top(th).f, TermOf(id).targets[1])
<1>1. Handler(f, t) = "join"
  BY CallKnown
<1>2. Acquired(id) = {} /\ Released(id) = {} /\ Started(id) = {} /\ Collected(id) = {g}
      /\ \A c : ~Receives(id, c) /\ ~Sends(id, c)
  BY DEF Acquired, Released, Started, Collected, Receives, Sends
<1>3. CallTakes(f, t) = {One(EndPlace(g))} /\ CallPuts(f, t) = {None}
  BY <1>1 DEF CallTakes, CallPuts
<1>4. ResourcesAgree(id, None, None)
  BY <1>2, NothingShared
<1>5. p = Leaves(f, Top(th).b) /\ Control({p})
  BY CallHere
<1>6. Control({n}) /\ Control({EndPlace(g)})
  BY DEF Control, BlockPlace, EndPlace, ControlKinds
<1>7. p # EndPlace(g)
  BY <1>5 DEF Leaves, ReadyPlace, BlockPlace, EndPlace
<1> DEFINE e == EndPlace(g)
<1>8. OneOf(One(p), {p}) /\ OneOf(One(n), {n}) /\ OneOf(One(e), {e})
  BY OneOfBags
<1>9. {p} \cup {EndPlace(h) : h \in Collected(id)} = {p} \cup {e}
      /\ {n} \cup {StartPlace(h) : h \in Started(id)} = {n}
  BY <1>2
<1> HIDE DEF p, n, e
<1>10. Control({p} \cup {e}) /\ {p} \cap {e} = {}
  BY <1>5, <1>6, <1>7 DEF Control, e
<1>11. Carried(One(p) (+) One(e), {p} \cup {e}, None)
  BY <1>8, <1>10, CarriedBoth
<1>12. Carried(None (+) One(n), {n}, None)
  BY <1>6, <1>8, SharedBags, CarriedWith
<1>13. CallAgrees(th, id, One(e), None)
  BY <1>4, <1>9, <1>11, <1>12 DEF CallAgrees, p, n
<1> QED
  BY <1>1, <1>3, <1>13, CallAdvances DEF Callee, ComesBack, IsAtomic, e

LEMMA SpawnEffect ==
  ASSUME NEW th, NEW id, Steps(th, id), id[3] = "call", TermOf(id).api = "spawn"
  PROVE  Follows(th, id)
<1> DEFINE f == Top(th).f
           t == TermOf(id)
           p == FramePlace(Top(th))
           n == BlockPlace(Top(th).f, TermOf(id).targets[1])
           S == {StartPlace(g) : g \in Started(id)}
<1>1. Handler(f, t) = "spawn" /\ ClosureArgs(t) \subseteq Translated
  BY CallKnown
<1>2. Acquired(id) = {} /\ Released(id) = {} /\ Started(id) = ClosureAt(t, 1) /\ Collected(id) = {}
      /\ \A c : ~Receives(id, c) /\ ~Sends(id, c)
  BY DEF Acquired, Released, Started, Collected, Receives, Sends
<1>3. ClosureAt(t, 1) \cap functions = Started(id)
  <2>1. ClosureAt(t, 1) \subseteq ClosureArgs(t)
    BY DEF ClosureArgs, ClosureAt
  <2>2. Translated \subseteq functions
    BY CallHere
  <2> QED
    BY <1>1, <1>2, <2>1, <2>2
<1>4. CallTakes(f, t) = {None} /\ CallPuts(f, t) = {OneEach(S)}
  BY <1>1, <1>3 DEF CallTakes, CallPuts, Starts
<1>5. ResourcesAgree(id, None, None)
  BY <1>2, NothingShared
<1>6. Control({p})
  BY CallHere
<1>7. OneOf(One(p), {p}) /\ OneOf(One(n), {n}) /\ OneOf(OneEach(S), S)
  BY OneOfBags
<1>8. {p} \cup {EndPlace(h) : h \in Collected(id)} = {p}
  BY <1>2
<1>9. Control(S \cup {n}) /\ S \cap {n} = {}
  BY DEF Control, BlockPlace, StartPlace, ControlKinds
<1>10. {n} \cup S = S \cup {n}
  OBVIOUS
<1> HIDE DEF p, n, S
<1>11. Carried(One(p) (+) None, {p}, None)
  BY <1>6, <1>7, SharedBags, CarriedWith
<1>12. Carried(OneEach(S) (+) One(n), S \cup {n}, None)
  BY <1>7, <1>9, CarriedBoth
<1>13. CallAgrees(th, id, None, OneEach(S))
  BY <1>5, <1>8, <1>10, <1>11, <1>12 DEF CallAgrees, p, n, S
<1> QED
  BY <1>1, <1>4, <1>13, CallAdvances DEF Callee, ComesBack, IsAtomic

(* What is called: the same for the net and the thread. *)
LEMMA CalleeAgrees ==
  ASSUME BuildInv, Regular, phase = "run", NEW f, NEW b, CallRegular(f, b), Term(f, b).api = "plain"
  PROVE  /\ CalleeOf(Term(f, b)) = Callee(Term(f, b))
         /\ Callee(Term(f, b)) \subseteq Translated
         /\ Callee(Term(f, b)) = {} \/ \E g : Callee(Term(f, b)) = {g}
<1> DEFINE t == Term(f, b)
           cs == {i \in DOMAIN t.args : ClosureAt(t, i) # {}}
           known == {i \in DOMAIN t.args : ClosureAt(t, i) \cap functions # {}}
<1>1. /\ ClosureArgs(t) \subseteq Translated /\ t.args \in Seq(Range(t.args))
      /\ t.callee \in NodeFuncs \cup DOMAIN prog.body => t.callee \in Translated
  BY DEF CallRegular
<1>2. Translated \subseteq functions /\ functions \subseteq NodeFuncs /\ NodeFuncs \subseteq DOMAIN prog.body
  BY RunNet DEF Regular
<1>3. \A i \in DOMAIN t.args : ClosureAt(t, i) \subseteq Translated
  BY <1>1 DEF ClosureArgs
<1>4. cs = known
  BY <1>2, <1>3
<1>5. cs \subseteq Nat
  <2>1. DOMAIN t.args = 1 .. Len(t.args)
    BY <1>1
  <2> QED
    BY <2>1
<1>6. t.callee \in functions <=> t.callee \in DOMAIN prog.body
  BY <1>1, <1>2
<1>7. CASE t.callee \in functions
  BY <1>1, <1>2, <1>6, <1>7 DEF CalleeOf, Callee
<1>8. CASE t.callee \notin functions /\ cs = {}
  <2>1. CalleeOf(t) = {}
    BY <1>4, <1>8 DEF CalleeOf
  <2>2. Callee(t) = {}
    BY <1>6, <1>8 DEF Callee
  <2> QED
    BY <2>1, <2>2
<1>9. CASE t.callee \notin functions /\ cs # {}
  <2> HIDE DEF cs, known
  <2>1. PICK m \in cs : \A k \in cs : m =< k
    BY <1>5, <1>9, LeastNumber
  <2>2. \A j \in cs : (\A k \in cs : j =< k) => j = m
    BY <1>5, <2>1
  <2>3. Min(known) = m
    BY <1>4, <2>1, <2>2 DEF Min
  <2>4. CalleeOf(t) = ClosureAt(t, m)
    BY <1>4, <1>9, <2>3 DEF CalleeOf, known
  <2>5. {j \in cs : \A k \in cs : j =< k} = {m}
    BY <2>1, <2>2
  <2>6. Callee(t) = ClosureAt(t, m)
    <3>1. Callee(t) = UNION {ClosureAt(t, i) : i \in {j \in cs : \A k \in cs : j =< k}}
      BY <1>6, <1>9 DEF Callee, cs
    <3> QED
      BY <2>5, <3>1
  <2>7. m \in DOMAIN t.args /\ ClosureAt(t, m) # {}
    BY <2>1 DEF cs
  <2> QED
    BY <1>3, <2>4, <2>6, <2>7 DEF ClosureAt
<1> QED
  BY <1>7, <1>8, <1>9

LEMMA SameCallee ==
  ASSUME NEW th, NEW id, Steps(th, id), id[3] = "call", TermOf(id).api = "plain"
  PROVE  /\ CalleeOf(TermOf(id)) = Callee(TermOf(id))
         /\ Callee(TermOf(id)) \subseteq Translated
         /\ Callee(TermOf(id)) = {} \/ \E g : Callee(TermOf(id)) = {g}
<1>1. CallRegular(Top(th).f, Top(th).b) /\ TermOf(id) = Term(Top(th).f, Top(th).b)
  BY CallHere
<1>2. BuildInv /\ Regular /\ phase = "run"
  BY DEF Steps, Comparable
<1> QED
  BY <1>1, <1>2, CalleeAgrees

(* Calls the net passes: function pointers, what is not translated, and     *)
(* operations on atomics that are not known.                                *)
LEMMA PassedEffect ==
  ASSUME NEW th, NEW id, Steps(th, id), id[3] = "call",
         \/ TermOf(id).api = "fnptr"
         \/ TermOf(id).api = "plain" /\ Callee(TermOf(id)) = {}
         \/ TermOf(id).api \in {"atomicLoad", "atomicStore"} /\ ~IsAtomic(TermOf(id))
  PROVE  Follows(th, id)
<1> DEFINE f == Top(th).f
           t == TermOf(id)
<1>1. Handler(f, t) = CASE t.api = "fnptr" -> "connect"
                       [] t.api = "plain" -> "normal"
                       [] OTHER -> t.api
  BY CallKnown
<1>2. Handler(f, t) \in {"connect", "normal", "atomicLoad", "atomicStore"}
  BY <1>1
<1>3. Handler(f, t) = "normal" => CalleeOf(t) = {}
  BY <1>1, SameCallee
<1>4. Acquired(id) = {} /\ Released(id) = {} /\ Started(id) = {} /\ Collected(id) = {}
      /\ \A c : ~Receives(id, c) /\ ~Sends(id, c)
  BY DEF Acquired, Released, Started, Collected, Receives, Sends
<1>5. CallTakes(f, t) = {None} /\ CallPuts(f, t) = {None}
  BY <1>2, <1>3 DEF CallTakes, CallPuts
<1>6. ResourcesAgree(id, None, None)
  BY <1>4, NothingShared
<1>7. CallAgrees(th, id, None, None)
  BY <1>4, <1>6, SharedBags, CallShares
<1>8. Callee(t) = {} /\ ~ComesBack(f, t) /\ ~IsAtomic(t)
  BY <1>2, <1>3 DEF Callee, ComesBack, IsAtomic
<1> QED
  BY <1>5, <1>7, <1>8, CallAdvances

-----------------------------------------------------------------------------
(* Calls that leave the thread in the block until something else happens.   *)
LEMMA AwaitFrame ==
  ASSUME NEW th, NEW id, Steps(th, id), id[3] = "call",
         NEW at \in {"await", "operation"},
         at = "await" => ComesBack(Top(th).f, TermOf(id)),
         at = "operation" => OnAtomic(Top(th).f, TermOf(id))
  PROVE  LET new == Frame(Top(th).f, Top(th).b, at) IN
         /\ new \in Frames /\ FrameOk(new) /\ new.f = Top(th).f /\ new.b = Top(th).b /\ new.at = at
         /\ at = "await" => FramePlace(new) = WaitPlace(Top(th).f, Top(th).b)
         /\ at = "operation" => FramePlace(new) = OperationPlace(Top(th).f, Top(th).b)
         /\ Control({FramePlace(new)})
<1> DEFINE f == Top(th).f
           b == Top(th).b
           new == Frame(f, b, at)
<1>1. /\ TermOf(id) = Term(f, b) /\ Term(f, b).op = "call" /\ ~ExitsProgram(f, Term(f, b))
      /\ f \in Translated /\ HasPlace(f, b) /\ b \in BlocksOf(f)
  BY CallHere, CallStep
<1>2. b \in Nat
  BY <1>1 DEF BlocksOf
<1>3. new = [f |-> f, b |-> b, at |-> at]
  BY DEF Frame
<1>4. new \in Frames /\ new.f = f /\ new.b = b /\ new.at = at
  BY <1>1, <1>2, <1>3 DEF Frames
<1> HIDE DEF new, f, b
<1>5. FrameOk(new)
  BY <1>1, <1>4 DEF FrameOk, f, b
<1>6. /\ at = "await" => FramePlace(new) = WaitPlace(f, b)
      /\ at = "operation" => FramePlace(new) = OperationPlace(f, b)
  BY <1>4 DEF FramePlace
<1>7. Control({FramePlace(new)})
  BY <1>4, Placed DEF Control
<1> QED
  BY <1>4, <1>5, <1>6, <1>7 DEF new, f, b

(* The stack after such a call. *)
LEMMA AwaitStack ==
  ASSUME NEW th, NEW id, id[3] = "call"
  PROVE  LET t == TermOf(id)
             at(where) == Append(Front(stack[th]), Frame(Top(th).f, Top(th).b, where))
         IN  /\ t.api \in {"wait", "rayonJoin"} => StackAfter(th, id) = at("await")
             /\ IsAtomic(t) => StackAfter(th, id) = at("operation")
<1>1. IsAtomic(TermOf(id)) => TermOf(id).api \in {"atomicLoad", "atomicStore"} /\ Callee(TermOf(id)) = {}
  BY DEF IsAtomic, Callee
<1>2. TermOf(id).api \in {"wait", "rayonJoin"} => ~IsAtomic(TermOf(id)) /\ Callee(TermOf(id)) = {}
  BY DEF IsAtomic, Callee
<1> QED
  BY <1>1, <1>2 DEF StackAfter

LEMMA WaitLockTokens ==
  ASSUME NEW t, IsGuard(t.args[2]), Owner(t.args[2]).kind = "mutex"
  PROVE  Shared(WaitLock(t)) /\ TokensOf(WaitLock(t), t.args[2])
<1> DEFINE x == t.args[2]
<1>1. Owner(x) = prog.guard[x] /\ Owner(x).lock \in Locks
  BY GuardTokens
<1>2. WaitLock(t) = One(LockPlace(Owner(x).lock)) /\ Weight(Owner(x).kind) = 1
  BY <1>1 DEF WaitLock, Weight
<1>3. LockPlace(Owner(x).lock) \in SharedPlaces /\ LockPlace(Owner(x).lock)[1] \notin ControlKinds
  BY <1>1 DEF SharedPlaces, LockPlace, ControlKinds
<1> QED
  BY <1>2, <1>3, SharedBags, ArcOne DEF TokensOf

LEMMA WaitEffect ==
  ASSUME NEW th, NEW id, Steps(th, id), id[3] = "call", TermOf(id).api = "wait"
  PROVE  Follows(th, id)
<1> DEFINE f == Top(th).f
           b == Top(th).b
           t == TermOf(id)
           new == Frame(f, b, "await")
           p == Leaves(f, b)
           w == WaitPlace(f, b)
           Q == WaitLock(t)
<1>1. /\ Handler(f, t) = "wait" /\ IsGuard(t.args[2]) /\ Owner(t.args[2]).kind = "mutex"
  BY CallKnown
<1>2. /\ CallShape(f, b, trans[id]) /\ t = Term(f, b)
      /\ FramePlace(Top(th)) = p /\ Control({p})
  BY CallHere
<1>3. ComesBack(f, t) /\ ~OnAtomic(f, t)
  BY <1>1 DEF ComesBack, OnAtomic
<1>4. CallTakes(f, t) = {None} /\ CallPuts(f, t) = {Q}
  BY <1>1 DEF CallTakes, CallPuts
<1>5. trans[id].in = One(p) (+) None /\ trans[id].out = One(w) (+) Q
  BY <1>1, <1>2, <1>3, <1>4 DEF CallShape
<1>6. /\ new \in Frames /\ FrameOk(new) /\ new.f = f /\ new.b = b /\ new.at = "await"
      /\ FramePlace(new) = w /\ Control({w})
  BY <1>3, AwaitFrame
<1>7. Acquired(id) = {} /\ Released(id) = {t.args[2]} /\ Started(id) = {} /\ Collected(id) = {}
      /\ \A c : ~Receives(id, c) /\ ~Sends(id, c)
  BY DEF Acquired, Released, Started, Collected, Receives, Sends
<1>8. Shared(Q) /\ ResourcesAgree(id, None, Q)
  BY <1>1, <1>7, WaitLockTokens, TokensGiven
<1>9. StackAfter(th, id) = Append(Front(stack[th]), new)
  BY AwaitStack
<1>10. OneOf(One(p), {p}) /\ OneOf(One(w), {w})
  BY OneOfBags
<1> HIDE DEF new, p, w, Q
<1>11. Carried(trans[id].in, {p}, None) /\ Carried(trans[id].out, {w}, Q)
  BY <1>2, <1>5, <1>6, <1>8, <1>10, SharedBags, CarriedWith
<1>12. /\ {FramePlace(Top(th))} \cup {EndPlace(g) : g \in Collected(id)} = {p}
       /\ {FramePlace(new)} \cup {StartPlace(g) : g \in Started(id)} = {w}
  BY <1>2, <1>6, <1>7
<1>13. new.at = "await" => Term(new.f, new.b).api \in {"wait", "rayonJoin"}
  BY <1>2, <1>6
<1> QED
  BY <1>6, <1>8, <1>9, <1>11, <1>12, <1>13, LocalEffect

LEMMA RayonEffect ==
  ASSUME NEW th, NEW id, Steps(th, id), id[3] = "call", TermOf(id).api = "rayonJoin"
  PROVE  Follows(th, id)
<1> DEFINE f == Top(th).f
           b == Top(th).b
           t == TermOf(id)
           new == Frame(f, b, "await")
           p == Leaves(f, b)
           w == WaitPlace(f, b)
           S == {StartPlace(g) : g \in Started(id)}
<1>1. Handler(f, t) = "rayonJoin" /\ ClosureArgs(t) \subseteq Translated
  BY CallKnown
<1>2. /\ CallShape(f, b, trans[id]) /\ t = Term(f, b)
      /\ FramePlace(Top(th)) = p /\ Control({p}) /\ Translated \subseteq functions
  BY CallHere
<1>3. ComesBack(f, t) /\ ~OnAtomic(f, t)
  BY <1>1 DEF ComesBack, OnAtomic
<1>4. Acquired(id) = {} /\ Released(id) = {} /\ Started(id) = ClosureArgs(t) /\ Collected(id) = {}
      /\ \A c : ~Receives(id, c) /\ ~Sends(id, c)
  BY DEF Acquired, Released, Started, Collected, Receives, Sends
<1>5. ClosureArgs(t) \cap functions = Started(id)
  BY <1>1, <1>2, <1>4
<1>6. CallTakes(f, t) = {None} /\ CallPuts(f, t) = {OneEach(S)}
  BY <1>1, <1>5 DEF CallTakes, CallPuts, Starts
<1>7. trans[id].in = One(p) (+) None /\ trans[id].out = One(w) (+) OneEach(S)
  BY <1>1, <1>2, <1>3, <1>6 DEF CallShape
<1>8. /\ new \in Frames /\ FrameOk(new) /\ new.f = f /\ new.b = b /\ new.at = "await"
      /\ FramePlace(new) = w /\ Control({w})
  BY <1>3, AwaitFrame
<1>9. ResourcesAgree(id, None, None)
  BY <1>4, NothingShared
<1>10. StackAfter(th, id) = Append(Front(stack[th]), new)
  BY AwaitStack
<1>11. OneOf(One(p), {p}) /\ OneOf(One(w), {w}) /\ OneOf(OneEach(S), S)
  BY OneOfBags
<1>12. Control({w} \cup S) /\ {w} \cap S = {}
  BY DEF Control, WaitPlace, StartPlace, ControlKinds
<1> HIDE DEF new, p, w
<1>13. /\ {FramePlace(Top(th))} \cup {EndPlace(g) : g \in Collected(id)} = {p}
       /\ {FramePlace(new)} \cup {StartPlace(g) : g \in Started(id)} = {w} \cup S
  BY <1>2, <1>4, <1>8
<1> HIDE DEF S
<1>14. Carried(trans[id].in, {p}, None)
  BY <1>2, <1>7, <1>11, SharedBags, CarriedWith
<1>15. Carried(trans[id].out, {w} \cup S, None)
  BY <1>7, <1>11, <1>12, CarriedBoth
<1>16. new.at = "await" => Term(new.f, new.b).api \in {"wait", "rayonJoin"}
  BY <1>2, <1>8
<1>17. /\ Carried(trans[id].in, {FramePlace(Top(th))} \cup {EndPlace(g) : g \in Collected(id)}, None)
       /\ Carried(trans[id].out, {FramePlace(new)} \cup {StartPlace(g) : g \in Started(id)}, None)
  BY <1>13, <1>14, <1>15
<1> QED
  BY <1>8, <1>9, <1>10, <1>16, <1>17, LocalEffect

LEMMA OperationEffect ==
  ASSUME NEW th, NEW id, Steps(th, id), id[3] = "call", IsAtomic(TermOf(id))
  PROVE  Follows(th, id)
<1> DEFINE f == Top(th).f
           b == Top(th).b
           t == TermOf(id)
           new == Frame(f, b, "operation")
           p == Leaves(f, b)
           w == OperationPlace(f, b)
<1>1. /\ CallShape(f, b, trans[id]) /\ t = Term(f, b) /\ OnAtomic(f, t)
      /\ FramePlace(Top(th)) = p /\ Control({p})
  BY CallHere
<1>2. t.api \in {"atomicLoad", "atomicStore"}
  BY DEF IsAtomic
<1>3. trans[id].in = One(p) /\ trans[id].out = One(w)
  BY <1>1 DEF CallShape
<1>4. /\ new \in Frames /\ FrameOk(new) /\ new.f = f /\ new.b = b /\ new.at = "operation"
      /\ FramePlace(new) = w /\ Control({w})
  <2>1. OnAtomic(f, TermOf(id))
    BY <1>1
  <2> HIDE DEF p
  <2> QED
    BY <2>1, AwaitFrame
<1>5. Acquired(id) = {} /\ Released(id) = {} /\ Started(id) = {} /\ Collected(id) = {}
      /\ \A c : ~Receives(id, c) /\ ~Sends(id, c)
  BY <1>2 DEF Acquired, Released, Started, Collected, Receives, Sends
<1>6. ResourcesAgree(id, None, None)
  BY <1>5, NothingShared
<1>7. StackAfter(th, id) = Append(Front(stack[th]), new)
  BY AwaitStack
<1>8. OneOf(One(p), {p}) /\ OneOf(One(w), {w})
  BY OneOfBags
<1> HIDE DEF new, p, w
<1>9. Carried(trans[id].in, {p}, None) /\ Carried(trans[id].out, {w}, None)
  BY <1>1, <1>3, <1>4, <1>8, CarriedAlone
<1>10. /\ {FramePlace(Top(th))} \cup {EndPlace(g) : g \in Collected(id)} = {p}
       /\ {FramePlace(new)} \cup {StartPlace(g) : g \in Started(id)} = {w}
  BY <1>1, <1>4, <1>5
<1> QED
  BY <1>4, <1>6, <1>7, <1>9, <1>10, LocalEffect

(* A call of a function that is translated. *)
LEMMA EnterEffect ==
  ASSUME NEW th, NEW id, Steps(th, id), id[3] = "call", Callee(TermOf(id)) # {}
  PROVE  Follows(th, id)
<1> DEFINE f == Top(th).f
           b == Top(th).b
           t == TermOf(id)
           new == Frame(f, b, "await")
           p == Leaves(f, b)
           w == WaitPlace(f, b)
<1>1. t.api = "plain" /\ t.api # "forward"
  <2>1. t.api \in {"plain", "forward"}
    BY DEF Callee
  <2>2. CallRegular(f, b) /\ t = Term(f, b)
    BY CallHere
  <2> QED
    BY <2>1, <2>2 DEF CallRegular
<1>2. PICK g : Callee(t) = {g} /\ CalleeOf(t) = {g} /\ g \in Translated
  BY <1>1, SameCallee
<1>3. Handler(f, t) = "normal" /\ g \notin Threads
  BY <1>1, <1>2, CallKnown
<1>4. /\ CallShape(f, b, trans[id]) /\ t = Term(f, b)
      /\ FramePlace(Top(th)) = p /\ Control({p})
  BY CallHere
<1>5. ComesBack(f, t) /\ ~OnAtomic(f, t)
  BY <1>2, <1>3 DEF ComesBack, OnAtomic
<1> DEFINE q == StartPlace(g)
<1>6. CallTakes(f, t) = {None} /\ CallPuts(f, t) = {OneEach({q})}
  <2>1. {StartPlace(h) : h \in CalleeOf(t)} = {q}
    BY <1>2
  <2>2. CalleeOf(t) # {}
    BY <1>2
  <2>3. CallPuts(f, t) = {OneEach({StartPlace(h) : h \in CalleeOf(t)})}
    BY <1>3, <2>2 DEF CallPuts, Starts
  <2> QED
    BY <1>3, <2>1, <2>3 DEF CallTakes
<1>7. trans[id].in = One(p) (+) None /\ trans[id].out = One(w) (+) OneEach({q})
  BY <1>3, <1>4, <1>5, <1>6 DEF CallShape
<1>8. /\ new \in Frames /\ FrameOk(new) /\ new.f = f /\ new.b = b /\ new.at = "await"
      /\ FramePlace(new) = w /\ Control({w})
  BY <1>5, AwaitFrame
<1>9. Acquired(id) = {} /\ Released(id) = {} /\ Started(id) = {} /\ Collected(id) = {}
      /\ \A c : ~Receives(id, c) /\ ~Sends(id, c)
  BY <1>1 DEF Acquired, Released, Started, Collected, Receives, Sends
<1>10. ResourcesAgree(id, None, None)
  BY <1>9, NothingShared
<1>11. StackAfter(th, id) = Append(Append(Front(stack[th]), new), Entry(g))
  <2>1. (CHOOSE h \in Callee(t) : TRUE) = g
    BY <1>2
  <2>2. ~IsAtomic(t)
    BY <1>1 DEF IsAtomic
  <2> QED
    BY <1>1, <2>1, <2>2 DEF StackAfter
<1>12. OneOf(One(p), {p}) /\ OneOf(One(w), {w}) /\ OneOf(OneEach({q}), {q})
  BY OneOfBags
<1>13. Control({w} \cup {q}) /\ {w} \cap {q} = {}
  BY DEF Control, WaitPlace, StartPlace, ControlKinds
<1>14. MayBegin(g)
  <2>1. HasPlace(g, 0)
    BY <1>2 DEF Steps, Regular, Describable, Translated
  <2>2. g \in Entered(id)
    BY <1>2 DEF Entered
  <2>3. th \in NodeFuncs /\ id \in Labels(th) /\ Ready(th, id) /\ Orderly /\ Comparable
    BY DEF Steps, Ready
  <2>4. Absent(g)
    BY <2>2, <2>3 DEF Orderly, Absent
  <2> QED
    BY <1>2, <2>1, <2>4 DEF MayBegin
<1>15. q \in Place /\ w \in Place
  <2>1. BuildInv /\ Regular /\ phase = "run"
    BY DEF Steps, Comparable
  <2>2. g \in functions
    BY <1>2, <2>1, RunNet
  <2>3. q \in SharedPlaces
    BY <2>2 DEF SharedPlaces
  <2> QED
    BY <1>8, <2>1, <2>3, RunNet, FrameHasPlace
<1>16. Callee(Term(new.f, new.b)) = {g}
  BY <1>2, <1>4, <1>8
<1>17. stack[th] # <<>> /\ Stacks /\ th \in NodeFuncs /\ id \in DOMAIN trans
  BY StepFrame, InNet DEF Steps
<1> HIDE DEF new, p, w, q
<1>18. Room({p}, {w, q}) /\ (Changes(th, Append(Append(Front(stack[th]), new), Entry(g)), {}, {}) =>
                                Stacks' /\ Moves({p}, {w, q}))
  BY <1>3, <1>4, <1>8, <1>14, <1>16, <1>17, PushMove DEF q
<1>19. ~Leaving(id) /\ Step(th, id) /\ prog' = prog /\ functions' = functions =>
         Changes(th, Append(Append(Front(stack[th]), new), Entry(g)), {}, {})
  BY <1>9, <1>11 DEF Step, Changes, StacksAfter
<1>20. Carried(trans[id].in, {p}, None)
  BY <1>4, <1>7, <1>12, SharedBags, CarriedWith
<1>21. Carried(trans[id].out, {w, q}, None)
  <2>1. {w, q} = {w} \cup {q}
    OBVIOUS
  <2>2. Carried(trans[id].out, {w} \cup {q}, None)
    BY <1>7, <1>12, <1>13, CarriedBoth
  <2> QED
    BY <2>1, <2>2
<1>22. Effect(th, id, {p}, {w, q}, None, None)
  BY <1>10, <1>15, <1>17, <1>18, <1>19, <1>20, <1>21 DEF Effect
<1> QED
  BY <1>22 DEF Follows

-----------------------------------------------------------------------------
(* Steps that come back. *)
LEMMA CarriedNone ==
  ASSUME NEW B, NEW G, NEW R, Carried(B, G, R)
  PROVE  Carried(B (+) None, G, R)
<1>1. \A p : Arc(p, B (+) None) = Arc(p, B) + Arc(p, None) /\ Arc(p, None) = 0
  BY ArcSum, ArcNone
<1>2. DOMAIN (B (+) None) = DOMAIN B
  <2>1. DOMAIN (B (+) None) = DOMAIN B \cup DOMAIN None /\ DOMAIN None = {}
    BY Domains
  <2> QED
    BY <2>1
<1>3. \A p : Arc(p, B) \in Nat
  BY DEF Carried
<1>4. \A p : Arc(p, B (+) None) = Arc(p, B)
  BY <1>1, <1>3
<1> QED
  BY <1>2, <1>4 DEF Carried

LEMMA AtomicEffect ==
  ASSUME NEW th, NEW id, Steps(th, id), id[3] = "atomic"
  PROVE  Follows(th, id)
<1> DEFINE f == Top(th).f
           b == Top(th).b
           t == Term(f, b)
           c == t.targets[1]
           p == OperationPlace(f, b)
           w == BlockPlace(f, c)
<1>1. /\ Top(th) \in Frames /\ FrameOk(Top(th)) /\ f \in Translated
      /\ Top(th).at = "operation" /\ \E a \in AtomicsOf(t.args[1]) : id = <<f, b, "atomic", a>>
  BY StepFrame, TermLabelled
<1>2. PICK a \in AtomicsOf(t.args[1]) : id = <<f, b, "atomic", a>>
  BY <1>1
<1> DEFINE R == One(AtomicPlace(a))
<1>3. TermOf(id) = t /\ CallRegular(f, b) /\ t.op = "call" /\ OnAtomic(f, t)
  BY <1>1, <1>2, AwaitingCall DEF TermOf, FrameOk, Steps
<1>4. Lands(f, t)
  <2>1. Handler(f, t) # "panic" /\ (t.api = "panic" => Handler(f, t) = "panic")
    BY <1>3 DEF OnAtomic, CallRegular
  <2> QED
    BY <1>3, <2>1 DEF CallRegular
<1>5. HasPlace(f, c) /\ NextBlockOf(id) = c /\ Leads(f, t) = One(w)
  BY <1>2, <1>3, <1>4 DEF Lands, NextBlockOf, Leads
<1>6. trans[id].in = (One(p) (+) R) (+) None /\ trans[id].out = (One(w) (+) R) (+) None
  <2>1. AtomicShape(f, b, a, trans[id])
    BY <1>2, InNet DEF Shape
  <2> QED
    BY <1>5, <2>1 DEF AtomicShape
<1>7. FramePlace(Top(th)) = p
  BY <1>1 DEF FramePlace
<1>8. Shared(R)
  <2>1. t.args[1] \in DOMAIN prog.atomic /\ a \in prog.atomic[t.args[1]]
    BY <1>2 DEF AtomicsOf
  <2>2. a \in UNION Range(prog.atomic)
    BY <2>1 DEF Range
  <2>3. AtomicPlace(a) \in SharedPlaces /\ AtomicPlace(a)[1] \notin ControlKinds
    BY <2>2 DEF SharedPlaces, AtomicPlace, ControlKinds
  <2> QED
    BY <2>3, SharedBags
<1>9. Acquired(id) = {} /\ Released(id) = {} /\ Started(id) = {} /\ Collected(id) = {}
      /\ \A d : ~Receives(id, d) /\ ~Sends(id, d)
  BY <1>2 DEF Acquired, Released, Started, Collected, Receives, Sends
<1>10. ~CondvarStep(id)
  BY <1>2 DEF CondvarStep
<1>11. /\ \A d : Arc(AtomicPlace(d), R) \in {0, 1}
       /\ \A l : Arc(LockPlace(l), R) = 0 /\ Arc(ChannelPlace(l), R) = 0 /\ Arc(CondvarPlace(l), R) = 0
  BY ArcOne DEF ChannelPlace, LockPlace, AtomicPlace, CondvarPlace
<1>12. Control({p}) /\ Control({w})
  BY DEF Control, OperationPlace, BlockPlace, ControlKinds
<1>13. StackAfter(th, id) = Append(Front(stack[th]), Frame(f, c, "block"))
  BY <1>2, <1>5 DEF StackAfter
<1>14. OneOf(One(p), {p}) /\ OneOf(One(w), {w})
  BY OneOfBags
<1> HIDE DEF p, R
<1>15. ResourcesAgree(id, R, R)
  BY <1>9, <1>11 DEF ResourcesAgree, LocksAgree, OthersAgree
<1>16. Carried(trans[id].in, {p}, R)
  <2>1. Carried(One(p) (+) R, {p}, R)
    BY <1>8, <1>12, <1>14, CarriedWith
  <2> QED
    BY <1>6, <2>1, CarriedNone
<1>17. Carried(trans[id].out, {w}, R)
  <2> HIDE DEF w
  <2>1. Carried(One(w) (+) R, {w}, R)
    BY <1>8, <1>12, <1>14, CarriedWith
  <2> QED
    BY <1>6, <2>1, CarriedNone
<1> QED
  BY <1>5, <1>7, <1>9, <1>13, <1>15, <1>16, <1>17, AdvanceEffect

(* Where the thread goes that comes back from a call. *)
ReturnsTo(id, fr) ==
  LET f == fr.f
      b == fr.b
      t == Term(f, b)
      c == t.targets[1]
  IN  /\ TermOf(id) = t /\ f \in Translated /\ HasPlace(f, c)
      /\ trans[id].in = One(WaitPlace(f, b)) (+) RetTakes(f, t)
      /\ NextBlockOf(id) = c /\ id[1] = f
      /\ FramePlace(fr) = WaitPlace(f, b)
      /\ t.op = "call" /\ CallRegular(f, b) /\ t.targets # <<>>
      /\ Handler(f, t) = CASE t.api = "plain" -> "normal" [] OTHER -> t.api
      /\ Translated \subseteq functions
      /\ Control({WaitPlace(f, b)})
      /\ Carried(trans[id].out, {BlockPlace(f, c)}, None)

LEMMA RetHere ==
  ASSUME NEW th, NEW id, Steps(th, id), id[3] = "ret"
  PROVE  ReturnsTo(id, IF Top(th).at = "end" THEN Caller(th) ELSE Top(th))
<1> DEFINE fr == IF Top(th).at = "end" THEN Caller(th) ELSE Top(th)
           f == fr.f
           b == fr.b
           t == Term(f, b)
           c == t.targets[1]
<1>1. /\ id = <<f, b, "ret", 0>> /\ CallRegular(f, b) /\ TermOf(id) = t /\ t.op = "call"
      /\ f \in Translated /\ FramePlace(fr) = WaitPlace(f, b)
      /\ t.api \in {"plain", "forward", "wait", "rayonJoin"}
  BY RetStep
<1>2. Lands(f, t)
  BY <1>1 DEF CallRegular
<1>3. RetShape(f, b, trans[id])
  BY <1>1, InNet DEF Shape
<1>4. trans[id].in = One(WaitPlace(f, b)) (+) RetTakes(f, t) /\ trans[id].out = One(BlockPlace(f, c))
  BY <1>2, <1>3 DEF RetShape, Leads, Lands
<1>5. NextBlockOf(id) = c /\ HasPlace(f, c) /\ id[1] = f /\ t.targets # <<>>
  BY <1>1, <1>2 DEF NextBlockOf, Lands
<1>6. Control({WaitPlace(f, b)}) /\ Control({BlockPlace(f, c)})
  BY DEF Control, WaitPlace, BlockPlace, ControlKinds
<1>7. Translated \subseteq functions
  BY RunNet DEF Steps, Comparable
<1>8. Carried(trans[id].out, {BlockPlace(f, c)}, None)
  BY <1>4, <1>6, OneOfBags, CarriedAlone
<1>9. Handler(f, t) = CASE t.api = "plain" -> "normal" [] OTHER -> t.api
  BY <1>1 DEF CallRegular
<1> HIDE DEF fr
<1>10. ReturnsTo(id, fr)
  BY <1>1, <1>4, <1>5, <1>6, <1>7, <1>8, <1>9 DEF ReturnsTo
<1> QED
  BY <1>10 DEF fr

LEMMA WokenEffect ==
  ASSUME NEW th, NEW id, Steps(th, id), id[3] = "ret", Top(th).at # "end", TermOf(id).api = "wait"
  PROVE  Follows(th, id)
<1> DEFINE f == Top(th).f
           b == Top(th).b
           t == Term(f, b)
           c == t.targets[1]
           p == WaitPlace(f, b)
           C == {CondvarPlace(x) : x \in CondvarsOf(t)}
           L == WaitLock(t)
           R == L (+) OneEach(C)
           x == t.args[2]
<1>1. /\ TermOf(id) = t /\ HasPlace(f, c) /\ NextBlockOf(id) = c /\ id[1] = f /\ t.op = "call"
      /\ FramePlace(Top(th)) = p /\ Control({p}) /\ CallRegular(f, b)
      /\ trans[id].in = One(p) (+) RetTakes(f, t)
      /\ Carried(trans[id].out, {BlockPlace(f, c)}, None)
      /\ Handler(f, t) = CASE t.api = "plain" -> "normal" [] OTHER -> t.api
  <2>1. ReturnsTo(id, Top(th))
    BY RetHere
  <2> QED
    BY <2>1 DEF ReturnsTo
<1>2. t.api = "wait" /\ Handler(f, t) = "wait"
  BY <1>1
<1>3. IsGuard(x) /\ Owner(x).kind = "mutex" /\ Owner(t.dest) = Owner(x)
  BY <1>1, <1>2 DEF CallRegular
<1>4. RetTakes(f, t) = R
  BY <1>2 DEF RetTakes
<1>5. Acquired(id) = {t.dest} /\ Released(id) = {} /\ Started(id) = {} /\ Collected(id) = {}
      /\ (\A d : ~Receives(id, d) /\ ~Sends(id, d)) /\ CondvarStep(id)
  BY <1>1, <1>2 DEF Acquired, Released, Started, Collected, Receives, Sends, CondvarStep
<1>6. Shared(L) /\ TokensOf(L, x)
  BY <1>3, WaitLockTokens
<1>7. C \subseteq SharedPlaces /\ \A q \in C : q[1] \notin ControlKinds
  <2>1. ASSUME NEW y \in CondvarsOf(t) PROVE CondvarPlace(y) \in SharedPlaces
    <3>1. t.args[1] \in DOMAIN prog.condvar /\ y \in prog.condvar[t.args[1]]
      BY <2>1 DEF CondvarsOf
    <3>2. y \in UNION Range(prog.condvar)
      BY <3>1 DEF Range
    <3> QED
      BY <3>2 DEF SharedPlaces
  <2> QED
    BY <2>1 DEF CondvarPlace, ControlKinds
<1>8. \A l : Arc(LockPlace(l), OneEach(C)) = 0 /\ Arc(ChannelPlace(l), OneEach(C)) = 0
             /\ Arc(AtomicPlace(l), OneEach(C)) = 0
  BY ArcOneEach DEF ChannelPlace, LockPlace, AtomicPlace, CondvarPlace
<1>9. \A q : Arc(q, R) = Arc(q, L) + Arc(q, OneEach(C))
  BY ArcSum
<1>10. StackAfter(th, id) = Append(Front(stack[th]), Frame(f, c, "block"))
  BY <1>1 DEF StackAfter
<1> HIDE DEF L, C
<1>11. Shared(R)
  <2>1. Shared(OneEach(C))
    BY <1>7, SharedBags
  <2> QED
    BY <1>6, <2>1, SharedSum
<1>12. \A q : Arc(q, L) \in Nat
  BY <1>6 DEF Shared
<1> HIDE DEF R
<1>13. \A l : /\ Arc(LockPlace(l), R) = Share(x, l)
              /\ Arc(ChannelPlace(l), R) = 0 /\ Arc(AtomicPlace(l), R) = 0
  <2>1. \A l : /\ Arc(LockPlace(l), R) = Arc(LockPlace(l), L)
               /\ Arc(ChannelPlace(l), R) = Arc(ChannelPlace(l), L)
               /\ Arc(AtomicPlace(l), R) = Arc(AtomicPlace(l), L)
    BY <1>8, <1>9, <1>12
  <2> QED
    BY <1>6, <2>1, TokensArcs
<1>14. ResourcesAgree(id, R, None)
  <2>1. \A l : Share(t.dest, l) = Share(x, l)
    BY <1>3 DEF Share
  <2>2. Owner(t.dest) \in {prog.guard[g] : g \in DOMAIN prog.guard}
    BY <1>3, GuardTokens DEF IsGuard
  <2>3. LocksAgree(id, R, None)
    BY <1>5, <1>13, <2>1, <2>2, ArcNone DEF LocksAgree
  <2>4. OthersAgree(id, R, None)
    BY <1>5, <1>13, ArcNone DEF OthersAgree
  <2> QED
    BY <2>3, <2>4 DEF ResourcesAgree
<1>15. Carried(trans[id].in, {p}, R)
  <2>1. OneOf(One(p), {p})
    BY OneOfBags
  <2> HIDE DEF p
  <2> QED
    BY <1>1, <1>4, <1>11, <2>1, CarriedWith
<1> QED
  BY <1>1, <1>5, <1>10, <1>14, <1>15, AdvanceEffect

LEMMA BothEffect ==
  ASSUME NEW th, NEW id, Steps(th, id), id[3] = "ret", Top(th).at # "end", TermOf(id).api = "rayonJoin"
  PROVE  Follows(th, id)
<1> DEFINE f == Top(th).f
           b == Top(th).b
           t == Term(f, b)
           c == t.targets[1]
           p == WaitPlace(f, b)
           w == BlockPlace(f, c)
           E == {EndPlace(g) : g \in Collected(id)}
           new == Frame(f, c, "block")
<1>1. /\ TermOf(id) = t /\ HasPlace(f, c) /\ NextBlockOf(id) = c /\ id[1] = f
      /\ f \in Translated
      /\ FramePlace(Top(th)) = p /\ Control({p}) /\ CallRegular(f, b)
      /\ trans[id].in = One(p) (+) RetTakes(f, t)
      /\ Carried(trans[id].out, {w}, None)
      /\ Handler(f, t) = CASE t.api = "plain" -> "normal" [] OTHER -> t.api
      /\ Translated \subseteq functions
  <2>1. ReturnsTo(id, Top(th))
    BY RetHere
  <2> QED
    BY <2>1 DEF ReturnsTo
<1>2. t.api = "rayonJoin" /\ Handler(f, t) = "rayonJoin"
  BY <1>1
<1>3. Acquired(id) = {} /\ Released(id) = {} /\ Started(id) = {} /\ Collected(id) = ClosureArgs(t)
      /\ (\A d : ~Receives(id, d) /\ ~Sends(id, d))
  BY <1>1, <1>2 DEF Acquired, Released, Started, Collected, Receives, Sends
<1>4. RetTakes(f, t) = OneEach(E)
  <2>1. ClosureArgs(t) \subseteq Translated
    BY <1>1 DEF CallRegular
  <2>2. ClosureArgs(t) \cap functions = Collected(id)
    BY <1>1, <1>3, <2>1
  <2> QED
    BY <1>2, <2>2 DEF RetTakes, Ends
<1>5. ResourcesAgree(id, None, None)
  BY <1>3, NothingShared
<1>6. /\ new \in Frames /\ FrameOk(new) /\ new.f = f /\ new.at = "block" /\ FramePlace(new) = w
  BY <1>1, BlockFrame DEF Steps
<1>7. StackAfter(th, id) = Append(Front(stack[th]), new)
  BY <1>1 DEF StackAfter
<1>8. OneOf(One(p), {p}) /\ OneOf(OneEach(E), E)
  BY OneOfBags
<1>9. Control({p} \cup E) /\ {p} \cap E = {}
  BY DEF Control, WaitPlace, EndPlace, ControlKinds
<1> HIDE DEF new, p, w
<1>10. {FramePlace(new)} \cup {StartPlace(g) : g \in Started(id)} = {w}
  BY <1>3, <1>6
<1>11. {FramePlace(Top(th))} \cup {EndPlace(g) : g \in Collected(id)} = {p} \cup E
  BY <1>1
<1> HIDE DEF E
<1>12. Carried(trans[id].in, {p} \cup E, None)
  BY <1>1, <1>4, <1>8, <1>9, CarriedBoth
<1>13. /\ Carried(trans[id].in, {FramePlace(Top(th))} \cup {EndPlace(g) : g \in Collected(id)}, None)
       /\ Carried(trans[id].out, {FramePlace(new)} \cup {StartPlace(g) : g \in Started(id)}, None)
  BY <1>1, <1>10, <1>11, <1>12
<1> QED
  BY <1>5, <1>6, <1>7, <1>13, LocalEffect

LEMMA BackEffect ==
  ASSUME NEW th, NEW id, Steps(th, id), id[3] = "ret", Top(th).at = "end"
  PROVE  Follows(th, id)
<1> DEFINE f == Caller(th).f
           b == Caller(th).b
           t == Term(f, b)
           c == t.targets[1]
           g == Top(th).f
           e == EndPlace(g)
           p == WaitPlace(f, b)
           w == BlockPlace(f, c)
           new == Frame(f, c, "block")
<1>1. /\ TermOf(id) = t /\ HasPlace(f, c) /\ NextBlockOf(id) = c /\ id[1] = f
      /\ f \in Translated
      /\ FramePlace(Caller(th)) = p /\ Control({p}) /\ CallRegular(f, b)
      /\ trans[id].in = One(p) (+) RetTakes(f, t) /\ t.targets # <<>>
      /\ Carried(trans[id].out, {w}, None)
      /\ Handler(f, t) = CASE t.api = "plain" -> "normal" [] OTHER -> t.api
  <2>1. ReturnsTo(id, Caller(th))
    BY RetHere
  <2> QED
    BY <2>1 DEF ReturnsTo
<1>2. Len(stack[th]) > 1 /\ t.api = "plain" /\ Callee(t) = {g} /\ Handler(f, t) = "normal"
  <2>1. Len(stack[th]) > 1 /\ t.api \in {"plain", "forward"} /\ Callee(t) = {g}
    BY RetStep
  <2>2. t.api # "forward"
    BY <1>1 DEF CallRegular
  <2> QED
    BY <1>1, <2>1, <2>2
<1>3. Acquired(id) = {} /\ Released(id) = {} /\ Started(id) = {} /\ Collected(id) = {}
      /\ (\A d : ~Receives(id, d) /\ ~Sends(id, d))
  BY <1>1, <1>2 DEF Acquired, Released, Started, Collected, Receives, Sends
<1>4. RetTakes(f, t) = OneEach({e})
  <2>1. CalleeOf(t) = {g}
    BY <1>1, <1>2, CalleeAgrees DEF Steps, Comparable
  <2>2. {EndPlace(h) : h \in CalleeOf(t)} = {e}
    BY <2>1
  <2> QED
    BY <1>1, <1>2, <2>2 DEF RetTakes, Ends
<1>5. ResourcesAgree(id, None, None)
  BY <1>3, NothingShared
<1>6. /\ new \in Frames /\ FrameOk(new) /\ new.f = f /\ new.at = "block" /\ FramePlace(new) = w
  BY <1>1, BlockFrame DEF Steps
<1>7. StackAfter(th, id) = Append(Front(Front(stack[th])), new)
  BY <1>1 DEF StackAfter
<1>8. OneOf(One(p), {p}) /\ OneOf(OneEach({e}), {e})
  BY OneOfBags
<1>9. Control({p} \cup {e}) /\ {p} \cap {e} = {}
  BY DEF Control, WaitPlace, EndPlace, ControlKinds
<1>10. FramePlace(Top(th)) = e
  BY DEF FramePlace
<1>11. stack[th] # <<>> /\ Stacks /\ th \in NodeFuncs /\ id \in DOMAIN trans /\ w \in Place
  <2>1. BuildInv /\ Regular /\ phase = "run"
    BY DEF Steps, Comparable
  <2>2. w \in Place
    BY <1>6, <2>1, FrameHasPlace
  <2> QED
    BY <2>2, StepFrame, InNet DEF Steps
<1> HIDE DEF new, p, w, e
<1>12. Room({e, p}, {w}) /\ (Changes(th, Append(Front(Front(stack[th])), new), {}, {}) =>
                                Stacks' /\ Moves({e, p}, {w}))
  <2>1. new.at # "await" /\ new.f = Caller(th).f
    BY <1>6
  <2> QED
    BY <1>1, <1>2, <1>6, <1>10, <1>11, <2>1, PopMove
<1>13. ~Leaving(id) /\ Step(th, id) /\ prog' = prog /\ functions' = functions =>
         Changes(th, Append(Front(Front(stack[th])), new), {}, {})
  BY <1>3, <1>7 DEF Step, Changes, StacksAfter
<1>14. Carried(trans[id].in, {e, p}, None)
  <2>1. Carried(trans[id].in, {p} \cup {e}, None)
    BY <1>1, <1>4, <1>8, <1>9, CarriedBoth
  <2>2. {e, p} = {p} \cup {e}
    OBVIOUS
  <2> QED
    BY <2>1, <2>2
<1>15. Effect(th, id, {e, p}, {w}, None, None)
  BY <1>1, <1>5, <1>11, <1>12, <1>13, <1>14 DEF Effect
<1> QED
  BY <1>15 DEF Follows

-----------------------------------------------------------------------------
(* The main thread leaves: its end was not occupied before.                 *)
LEMMA LeavingEffect ==
  ASSUME NEW th, NEW id, Steps(th, id), Leaving(id),
         trans[id].in = One(FramePlace(Top(th))), trans[id].out = One(MainEnd)
  PROVE  Follows(th, id)
<1> DEFINE p == FramePlace(Top(th))
           m == prog.main
<1>1. th = m /\ Stacks /\ th \in NodeFuncs /\ BuildInv /\ Regular /\ phase = "run" /\ ~Ended(m)
  <2>1. id \in Labels(th) /\ Ready(th, id) /\ Orderly /\ Comparable /\ th \in NodeFuncs
    BY DEF Steps, Ready
  <2>2. th = m
    BY <2>1 DEF Orderly, Leaving
  <2> QED
    BY <2>1, <2>2 DEF Steps, Comparable
<1>2. stack[th] # <<>> /\ p \in OccupiedPlaces /\ Top(th) \in Frames
  BY StepFrame
<1>3. MainEnd \notin OccupiedPlaces
  <2> SUFFICES ASSUME MainEnd \in OccupiedPlaces PROVE FALSE
    OBVIOUS
  <2>1. PICK x \in NodeFuncs : \E i \in DOMAIN stack[x] : FramePlace(stack[x][i]) = MainEnd
    BY OccupiedAre DEF OccupiedIs, Occupies
  <2>2. PICK i \in DOMAIN stack[x] : FramePlace(stack[x][i]) = MainEnd
    BY <2>1
  <2>3. 1 \in DOMAIN stack[m] /\ stack[m] \in Seq(Frames) /\ DOMAIN stack[m] = 1 .. Len(stack[m])
        /\ Len(stack[m]) \in Nat \ {0} /\ Top(m) = stack[m][Len(stack[m])]
    BY <1>1, <1>2, TopFrame
  <2>4. SpotOk(m, 1)
    BY <1>1, <2>3 DEF Stacks
  <2>5. stack[m][1].f = m
    BY <2>4 DEF SpotOk
  <2>6. stack[x][i].f = m /\ stack[x][i] \in Frames
    <3>1. FramePlace(stack[x][i])[2] = stack[x][i].f /\ stack[x][i] \in Frames
      BY <1>1, OnePlace
    <3>2. MainEnd[2] = m
      BY DEF MainEnd, EndPlace
    <3> QED
      BY <2>2, <3>1, <3>2
  <2>7. x = m /\ i = 1
    BY <1>1, <2>3, <2>5, <2>6 DEF Stacks
  <2>8. stack[m][1].at = "end"
    BY <2>2, <2>6, <2>7 DEF FramePlace, MainEnd, StartPlace, BlockPlace, ReadyPlace, OperationPlace,
      WaitPlace, EndPlace, Frames
  <2>9. Len(stack[m]) = 1
    <3>1. ~(1 < Len(stack[m]))
      BY <2>4, <2>8 DEF SpotOk
    <3>2. \A n \in Nat \ {0} : ~(1 < n) => n = 1
      OBVIOUS
    <3> QED
      BY <2>3, <3>1, <3>2
  <2> QED
    BY <1>1, <2>3, <2>8, <2>9 DEF Ended
<1>4. MainEnd \in Place
  <2>1. m \in functions
    BY <1>1, RunNet DEF Regular
  <2> QED
    BY <1>1, <2>1, RunNet DEF SharedPlaces, MainEnd
<1>5. Room({p}, {MainEnd})
  BY <1>2, <1>3 DEF Room
<1>6. Control({p}) /\ Control({MainEnd})
  BY <1>2, Placed DEF Control, MainEnd, EndPlace, ControlKinds
<1>7. Carried(trans[id].in, {p}, None) /\ Carried(trans[id].out, {MainEnd}, None)
  <2>1. OneOf(One(p), {p}) /\ OneOf(One(MainEnd), {MainEnd})
    BY OneOfBags
  <2> HIDE DEF p
  <2> QED
    BY <1>6, <2>1, CarriedAlone DEF p
<1>8. ResourcesAgree(id, None, None)
  <2>1. Acquired(id) = {} /\ Released(id) = {} /\ \A d : ~Receives(id, d) /\ ~Sends(id, d)
    BY DEF Leaving, Acquired, Released, Receives, Sends
  <2> QED
    BY <2>1, NothingShared
<1>9. Effect(th, id, {p}, {MainEnd}, None, None)
  BY <1>4, <1>5, <1>7, <1>8, InNet DEF Effect
<1> QED
  BY <1>9 DEF Follows

LEMMA LeavingStack ==
  ASSUME NEW th, NEW id, Leaving(id)
  PROVE  StackAfter(th, id) = <<Frame(th, 0, "end")>>
<1>1. CASE id[3] = "exit"
  BY <1>1 DEF StackAfter
<1>2. CASE id[3] = "call" /\ TermOf(id).api = "panic"
  <2>1. ~IsAtomic(TermOf(id)) /\ Callee(TermOf(id)) = {}
    BY <1>2 DEF IsAtomic, Callee
  <2> QED
    BY <1>2, <2>1 DEF StackAfter
<1> QED
  BY <1>1, <1>2 DEF Leaving

LEMMA ExitEffect ==
  ASSUME NEW th, NEW id, Steps(th, id), id[3] = "exit"
  PROVE  Follows(th, id)
<1> DEFINE f == Top(th).f
           b == Top(th).b
<1>1. /\ id \in TermLabels(f, b) /\ HasPlace(f, b) /\ TermRegular(f, b) /\ Term(f, b).op \in Ops
      /\ FramePlace(Top(th)) = Leaves(f, b) /\ Shape(id, trans[id])
  BY TermStep2
<1>2. id = <<f, b, "exit", 0>>
  BY <1>1, TermLabelled
<1>3. trans[id].in = One(Leaves(f, b)) /\ trans[id].out = One(MainEnd)
  BY <1>1, <1>2 DEF Shape, ExitShape
<1> QED
  BY <1>1, <1>3, LeavingEffect DEF Leaving

LEMMA PanicEffect ==
  ASSUME NEW th, NEW id, Steps(th, id), id[3] = "call", TermOf(id).api = "panic"
  PROVE  Follows(th, id)
<1> DEFINE f == Top(th).f
           b == Top(th).b
<1>1. CallShape(f, b, trans[id]) /\ TermOf(id) = Term(f, b) /\ FramePlace(Top(th)) = Leaves(f, b)
  BY CallHere
<1>2. Handler(f, TermOf(id)) = "panic"
  BY CallKnown
<1>3. trans[id].in = One(Leaves(f, b)) /\ trans[id].out = One(MainEnd)
  BY <1>1, <1>2 DEF CallShape, OnAtomic
<1> QED
  BY <1>1, <1>3, LeavingEffect DEF Leaving

(* Every step a thread may take is followed by the net. *)
LEMMA AllFollow ==
  ASSUME NEW th, NEW id, Steps(th, id)
  PROVE  Follows(th, id)
<1>1. id[3] \in {"start", "unsafe", "goto", "switch", "drop", "return", "exit", "call", "ret", "atomic"}
  BY StepFrame, TermLabelled
<1>2. CASE id[3] = "call"
  <2>1. CallRegular(Top(th).f, Top(th).b) /\ TermOf(id) = Term(Top(th).f, Top(th).b)
    BY <1>2, CallHere
  <2>2. TermOf(id).api \in {"lock", "plain", "fnptr", "send", "recv", "notify", "wait", "drop", "spawn",
                 "join", "rayonJoin", "atomicLoad", "atomicStore", "panic"}
    BY <2>1 DEF CallRegular
  <2> QED
    BY <1>2, <2>2, LockEffect, DropCallEffect, ChannelEffect, NotifyEffect, JoinEffect, SpawnEffect,
      PassedEffect, WaitEffect, RayonEffect, OperationEffect, EnterEffect, PanicEffect
<1>3. CASE id[3] = "ret"
  <2>1. Top(th).at # "end" => TermOf(id).api \in {"wait", "rayonJoin"}
    BY <1>3, RetStep
  <2> QED
    BY <1>3, <2>1, WokenEffect, BothEffect, BackEffect
<1> QED
  BY <1>1, <1>2, <1>3, StartEffect, AccessEffect, GotoEffect, SwitchEffect, ReturnEffect, DropEffect,
    ExitEffect, AtomicEffect

-----------------------------------------------------------------------------
(* The locks. *)

(* How many of the locals in S own the lock in one of these ways, and the   *)
(* tokens they stand for.                                                   *)
HeldIn(S, l, kinds) == Cardinality({x \in S : Owner(x).lock = l /\ Owner(x).kind \in kinds})

Weighed(S, l) == HeldIn(S, l, {"mutex", "read"}) + Weight("write") * HeldIn(S, l, {"write"})

Counted(x, l, kinds) == IF Owner(x).lock = l /\ Owner(x).kind \in kinds THEN 1 ELSE 0

OwnersOk(S) == IsFiniteSet(S) /\ \A x \in S : Owner(x) \in {prog.guard[g] : g \in DOMAIN prog.guard}

KindsOk == \A g \in DOMAIN prog.guard : prog.guard[g].kind \in {"mutex", "read", "write"}

LEMMA HeldOne ==
  ASSUME NEW S, IsFiniteSet(S), NEW x, x \notin S, NEW l, NEW kinds
  PROVE  /\ HeldIn(S, l, kinds) \in Nat
         /\ HeldIn(S \cup {x}, l, kinds) =
              HeldIn(S, l, kinds) + Counted(x, l, kinds)
<1> DEFINE H(A) == {y \in A : Owner(y).lock = l /\ Owner(y).kind \in kinds}
<1>1. IsFiniteSet(H(S)) /\ Cardinality(H(S)) \in Nat /\ x \notin H(S)
  <2>1. H(S) \in SUBSET S
    OBVIOUS
  <2> QED
    BY <2>1, FS_Subset, FS_CardinalityType
<1>0. HeldIn(S, l, kinds) = Cardinality(H(S)) /\ HeldIn(S \cup {x}, l, kinds) = Cardinality(H(S \cup {x}))
  BY DEF HeldIn
<1>2. CASE Owner(x).lock = l /\ Owner(x).kind \in kinds
  <2>1. H(S \cup {x}) = H(S) \cup {x}
    BY <1>2
  <2> HIDE DEF H
  <2>2. Cardinality(H(S) \cup {x}) = Cardinality(H(S)) + 1
    BY <1>1, FS_AddElement
  <2> QED
    BY <1>0, <1>1, <1>2, <2>1, <2>2 DEF Counted
<1>3. CASE ~(Owner(x).lock = l /\ Owner(x).kind \in kinds)
  <2>1. H(S \cup {x}) = H(S)
    BY <1>3
  <2> HIDE DEF H
  <2> QED
    BY <1>0, <1>1, <1>3, <2>1 DEF Counted
<1> QED
  BY <1>2, <1>3

LEMMA HeldInNat ==
  ASSUME NEW S, IsFiniteSet(S), NEW l, NEW kinds
  PROVE  HeldIn(S, l, kinds) \in Nat
<1> DEFINE H == {x \in S : Owner(x).lock = l /\ Owner(x).kind \in kinds}
<1>1. H \in SUBSET S
  OBVIOUS
<1>2. Cardinality(H) \in Nat
  BY <1>1, FS_Subset, FS_CardinalityType
<1> QED
  BY <1>2 DEF HeldIn

LEMMA WeighedOne ==
  ASSUME KindsOk, NEW S, OwnersOk(S), NEW x, x \notin S,
         Owner(x) \in {prog.guard[g] : g \in DOMAIN prog.guard}, NEW l
  PROVE  /\ Weighed(S, l) \in Nat
         /\ Weighed(S \cup {x}, l) = Weighed(S, l) + Share(x, l)
         /\ Share(x, l) \in Nat
         /\ OwnersOk(S \cup {x})
<1>1. Owner(x).kind \in {"mutex", "read", "write"}
  BY DEF KindsOk
<1>2. IsFiniteSet(S) /\ IsFiniteSet(S \cup {x})
  BY FS_AddElement DEF OwnersOk
<1> DEFINE a == HeldIn(S, l, {"mutex", "read"})
           b == HeldIn(S, l, {"write"})
<1>3. /\ a \in Nat /\ b \in Nat
      /\ HeldIn(S \cup {x}, l, {"mutex", "read"}) =
           a + Counted(x, l, {"mutex", "read"})
      /\ HeldIn(S \cup {x}, l, {"write"}) =
           b + Counted(x, l, {"write"})
  BY <1>2, HeldOne
<1> HIDE DEF a, b
<1>4. Weighed(S, l) = a + 10 * b
  BY DEF Weighed, a, b, Weight, RwLockCapacity
<1>5. Weighed(S \cup {x}, l) = HeldIn(S \cup {x}, l, {"mutex", "read"}) + 10 * HeldIn(S \cup {x}, l, {"write"})
  BY DEF Weighed, Weight, RwLockCapacity
<1>6. CASE Owner(x).lock # l
  BY <1>2, <1>3, <1>4, <1>5, <1>6 DEF Counted, Share, OwnersOk
<1>7. CASE Owner(x).lock = l /\ Owner(x).kind = "write"
  BY <1>2, <1>3, <1>4, <1>5, <1>7 DEF Counted, Share, Weight, RwLockCapacity, OwnersOk
<1>8. CASE Owner(x).lock = l /\ Owner(x).kind \in {"mutex", "read"}
  BY <1>2, <1>3, <1>4, <1>5, <1>8 DEF Counted, Share, Weight, RwLockCapacity, OwnersOk
<1> QED
  BY <1>1, <1>6, <1>7, <1>8

LEMMA WeighedLess ==
  ASSUME KindsOk, NEW S, OwnersOk(S), NEW x \in S, NEW l
  PROVE  /\ Weighed(S, l) \in Nat /\ Weighed(S \ {x}, l) \in Nat /\ Share(x, l) \in Nat
         /\ Weighed(S, l) = Weighed(S \ {x}, l) + Share(x, l)
         /\ OwnersOk(S \ {x})
<1> DEFINE A == S \ {x}
<1>1. OwnersOk(A)
  BY FS_RemoveElement DEF OwnersOk
<1>2. x \notin A /\ A \cup {x} = S /\ Owner(x) \in {prog.guard[g] : g \in DOMAIN prog.guard}
  BY DEF OwnersOk
<1> HIDE DEF A
<1>3. /\ Weighed(A, l) \in Nat /\ Share(x, l) \in Nat
      /\ Weighed(A \cup {x}, l) = Weighed(A, l) + Share(x, l)
  BY <1>1, <1>2, WeighedOne
<1>4. Weighed(S, l) = Weighed(A, l) + Share(x, l)
  BY <1>2, <1>3
<1> QED
  BY <1>1, <1>3, <1>4 DEF A

(* A guard that is moved weighs what it weighed. *)
Weighs(S, Z) == OwnersOk(S) /\ \A l : Weighed(S, l) = Weighed(Z, l)

LEMMA WeighedMoved ==
  ASSUME KindsOk, NEW Z, NEW S, Weighs(S, Z), NEW y \in S, NEW x, x \notin S, Owner(x) = Owner(y)
  PROVE  Weighs((S \ {y}) \cup {x}, Z)
<1> DEFINE A == S \ {y}
<1>1. OwnersOk(S) /\ OwnersOk(A)
  BY WeighedLess DEF Weighs
<1>2. x \notin A /\ Owner(x) \in {prog.guard[g] : g \in DOMAIN prog.guard}
  BY <1>1 DEF OwnersOk
<1>3. \A l : Share(x, l) = Share(y, l)
  BY DEF Share
<1>4. \A l : Weighed(S, l) = Weighed(A, l) + Share(y, l)
  BY <1>1, WeighedLess
<1> HIDE DEF A
<1>5. OwnersOk(A \cup {x}) /\ \A l : Weighed(A \cup {x}, l) = Weighed(A, l) + Share(x, l)
  <2>1. OwnersOk(A \cup {x})
    BY <1>1, <1>2, WeighedOne
  <2> QED
    BY <2>1, <1>1, <1>2, WeighedOne
<1>6. \A l : Weighed(A \cup {x}, l) = Weighed(S, l)
  BY <1>3, <1>4, <1>5
<1> QED
  BY <1>5, <1>6 DEF Weighs, A
-----------------------------------------------------------------------------
(* The moves of a block, one after another. *)
OneMove(m, S) == IF m[2] \in S THEN (S \ {m[2]}) \cup {m[1]} ELSE S

IsOwners(own, moves, n) ==
  own = [k \in 0 .. n |-> IF k = 0 THEN live
                          ELSE IF moves[k][2] \in own[k - 1]
                            THEN (own[k - 1] \ {moves[k][2]}) \cup {moves[k][1]}
                          ELSE own[k - 1]]

LEMMA OwnersSteps ==
  ASSUME NEW own, NEW moves, NEW n \in Nat
  PROVE  IsOwners(own, moves, n) <=>
           /\ own = [k \in 0 .. n |-> own[k]]
           /\ own[0] = live
           /\ \A k \in 1 .. n : own[k] = OneMove(moves[k], own[k - 1])
<1>1. ASSUME IsOwners(own, moves, n)
      PROVE  /\ own = [k \in 0 .. n |-> own[k]]
             /\ own[0] = live
             /\ \A k \in 1 .. n : own[k] = OneMove(moves[k], own[k - 1])
  <2>1. \A k \in 0 .. n : own[k] = IF k = 0 THEN live
                          ELSE IF moves[k][2] \in own[k - 1]
                            THEN (own[k - 1] \ {moves[k][2]}) \cup {moves[k][1]}
                          ELSE own[k - 1]
    BY <1>1 DEF IsOwners
  <2>2. own = [k \in 0 .. n |-> own[k]]
    BY <1>1 DEF IsOwners
  <2>3. 0 \in 0 .. n /\ \A k \in 1 .. n : k \in 0 .. n /\ k # 0
    OBVIOUS
  <2> QED
    BY <2>1, <2>2, <2>3 DEF OneMove
<1>2. ASSUME own = [k \in 0 .. n |-> own[k]], own[0] = live,
             \A k \in 1 .. n : own[k] = OneMove(moves[k], own[k - 1])
      PROVE  IsOwners(own, moves, n)
  <2>1. \A k \in 0 .. n : k # 0 => k \in 1 .. n
    OBVIOUS
  <2>2. \A k \in 0 .. n : own[k] = IF k = 0 THEN live
                          ELSE IF moves[k][2] \in own[k - 1]
                            THEN (own[k - 1] \ {moves[k][2]}) \cup {moves[k][1]}
                          ELSE own[k - 1]
    BY <1>2, <2>1 DEF OneMove
  <2> QED
    BY <1>2, <2>2 DEF IsOwners
<1> QED
  BY <1>1, <1>2

LEMMA OwnersExist ==
  ASSUME NEW moves, NEW n \in Nat
  PROVE  \E own : IsOwners(own, moves, n)
<1> DEFINE S == {k \in Nat : \E own : IsOwners(own, moves, k)}
<1>1. 0 \in S
  <2> DEFINE h == [k \in 0 .. 0 |-> live]
  <2>1. h = [k \in 0 .. 0 |-> h[k]] /\ h[0] = live /\ \A k \in 1 .. 0 : h[k] = OneMove(moves[k], h[k - 1])
    OBVIOUS
  <2> HIDE DEF h
  <2>2. IsOwners(h, moves, 0)
    BY <2>1, OwnersSteps
  <2> QED
    BY <2>2
<1>2. \A k \in Nat : k \in S => k + 1 \in S
  <2> SUFFICES ASSUME NEW k \in Nat, NEW h, IsOwners(h, moves, k)
               PROVE  \E own : IsOwners(own, moves, k + 1)
    OBVIOUS
  <2>1. /\ h[0] = live /\ \A i \in 1 .. k : h[i] = OneMove(moves[i], h[i - 1])
    BY OwnersSteps
  <2> DEFINE g == [i \in 0 .. k + 1 |-> IF i = k + 1 THEN OneMove(moves[k + 1], h[k]) ELSE h[i]]
  <2>2. g = [i \in 0 .. k + 1 |-> g[i]] /\ g[0] = live
    BY <2>1
  <2>3. ASSUME NEW i \in 1 .. k + 1 PROVE g[i] = OneMove(moves[i], g[i - 1])
    <3>1. CASE i = k + 1
      <4>1. g[i] = OneMove(moves[i], h[i - 1]) /\ g[i - 1] = h[i - 1]
        BY <3>1
      <4> QED
        BY <4>1
    <3>2. CASE i # k + 1
      <4>1. i \in 1 .. k /\ i \in 0 .. k + 1 /\ i - 1 \in 0 .. k + 1 /\ i - 1 # k + 1
        BY <2>3, <3>2
      <4>2. g[i] = h[i] /\ g[i - 1] = h[i - 1]
        BY <3>2, <4>1
      <4> QED
        BY <2>1, <4>1, <4>2
    <3> QED
      BY <3>1, <3>2
  <2> HIDE DEF g
  <2>4. k + 1 \in Nat
    OBVIOUS
  <2>5. IsOwners(g, moves, k + 1)
    BY <2>2, <2>3, <2>4, OwnersSteps
  <2> QED
    BY <2>5
<1> HIDE DEF S
<1>3. n \in S
  BY <1>1, <1>2, NatSet
<1> QED
  BY <1>3 DEF S

LEMMA OwnersAfterIs ==
  ASSUME NEW moves, Len(moves) \in Nat
  PROVE  /\ OwnersAfter(moves)[0] = live
         /\ \A k \in 1 .. Len(moves) :
              OwnersAfter(moves)[k] = OneMove(moves[k], OwnersAfter(moves)[k - 1])
<1>1. IsOwners(OwnersAfter(moves), moves, Len(moves))
  <2>1. \E own : IsOwners(own, moves, Len(moves))
    BY OwnersExist
  <2> QED
    BY <2>1 DEF OwnersAfter, IsOwners
<1> QED
  BY <1>1, OwnersSteps

(* The moves of a block do not change what the guards weigh. *)
LEMMA MovedWeighs ==
  ASSUME KindsOk, OwnersOk(live), NEW id, GuardsMoved(id),
         Len(Block(id[1], id[2]).moves) \in Nat
  PROVE  Weighs(MovedOwners(id), live)
<1>0. Weighs(live, live)
  BY DEF Weighs
<1>1. CASE id[3] \in {"start", "unsafe", "ret", "return", "atomic"}
  BY <1>0, <1>1 DEF MovedOwners
<1>2. CASE id[3] \notin {"start", "unsafe", "ret", "return", "atomic"}
  <2> DEFINE moves == Block(id[1], id[2]).moves
             n == Len(moves)
             own == OwnersAfter(moves)
             S == {k \in Nat : k =< n => Weighs(own[k], live)}
  <2>1. n \in Nat /\ own[0] = live /\ \A k \in 1 .. n : own[k] = OneMove(moves[k], own[k - 1])
    BY OwnersAfterIs
  <2>2. \A k \in 1 .. n : moves[k][2] \in own[k - 1] =>
          moves[k][1] \notin own[k - 1] /\ Owner(moves[k][1]) = Owner(moves[k][2])
    BY <1>2 DEF GuardsMoved
  <2>3. MovedOwners(id) = own[n]
    BY <1>2 DEF MovedOwners
  <2> HIDE DEF moves, own, n
  <2>4. 0 \in S
    BY <1>0, <2>1
  <2>5. ASSUME NEW k \in Nat, k \in S PROVE k + 1 \in S
    <3> SUFFICES ASSUME k + 1 =< n PROVE Weighs(own[k + 1], live)
      OBVIOUS
    <3>1. k =< n /\ k + 1 \in 1 .. n /\ (k + 1) - 1 = k
      BY <2>1
    <3>2. Weighs(own[k], live)
      BY <2>5, <3>1
    <3>3. own[k + 1] = OneMove(moves[k + 1], own[k])
      BY <2>1, <3>1
    <3>4. CASE moves[k + 1][2] \in own[k]
      <4>1. moves[k + 1][1] \notin own[k] /\ Owner(moves[k + 1][1]) = Owner(moves[k + 1][2])
        BY <2>2, <3>1, <3>4
      <4>2. own[k + 1] = (own[k] \ {moves[k + 1][2]}) \cup {moves[k + 1][1]}
        BY <3>3, <3>4 DEF OneMove
      <4> QED
        BY <3>2, <3>4, <4>1, <4>2, WeighedMoved
    <3>5. CASE moves[k + 1][2] \notin own[k]
      BY <3>2, <3>3, <3>5 DEF OneMove
    <3> QED
      BY <3>4, <3>5
  <2> HIDE DEF S
  <2>6. n \in S
    BY <2>1, <2>4, <2>5, NatSet
  <2> QED
    BY <2>1, <2>3, <2>6 DEF S
<1> QED
  BY <1>1, <1>2

(* The moves of the block the step leaves. *)
LEMMA MovesCounted ==
  ASSUME NEW th, NEW id, Steps(th, id), OwnersOk(live)
  PROVE  Weighs(MovedOwners(id), live) /\ KindsOk
<1>1. Regular /\ Orderly /\ Comparable /\ th \in NodeFuncs /\ id \in Labels(th) /\ Ready(th, id)
  BY DEF Steps, Ready
<1>2. KindsOk /\ GuardsMoved(id)
  BY <1>1 DEF Regular, KindsOk, Orderly
<1>3. CASE id[3] \in {"start", "unsafe", "ret", "return", "atomic"}
  BY <1>2, <1>3 DEF MovedOwners, Weighs
<1>4. CASE id[3] \notin {"start", "unsafe", "ret", "return", "atomic"}
  <2>1. /\ id \in TermLabels(Top(th).f, Top(th).b) /\ TermRegular(Top(th).f, Top(th).b)
        /\ HasPlace(Top(th).f, Top(th).b) /\ Term(Top(th).f, Top(th).b).op \in Ops
    BY <1>4, StepFrame
  <2>2. id[1] = Top(th).f /\ id[2] = Top(th).b
    BY <1>4, <2>1, TermLabelled
  <2>3. Len(Block(id[1], id[2]).moves) \in Nat
    BY <2>1, <2>2 DEF TermRegular
  <2> QED
    BY <1>2, <2>3, MovedWeighs
<1> QED
  BY <1>2, <1>3, <1>4

(* What the owners of the locks are after the step weighs as much more, or  *)
(* less, as the transition takes or gives.                                  *)
LEMMA LocksStep ==
  ASSUME NEW th, NEW id, Steps(th, id), OwnersOk(live), Step(th, id),
         NEW R, NEW Q, LocksAgree(id, R, Q)
  PROVE  /\ OwnersOk(live')
         /\ \A l : /\ Weighed(live, l) \in Nat /\ Weighed(live', l) \in Nat
                   /\ Arc(LockPlace(l), R) \in Nat /\ Arc(LockPlace(l), Q) \in Nat
                   /\ Weighed(live', l) + Arc(LockPlace(l), Q) = Weighed(live, l) + Arc(LockPlace(l), R)
<1> DEFINE A == MovedOwners(id)
<1>1. Weighs(A, live) /\ KindsOk
  BY MovesCounted
<1>2. OwnersOk(A) /\ \A l : Weighed(A, l) = Weighed(live, l)
  BY <1>1 DEF Weighs
<1>3. \A l : Weighed(A, l) \in Nat
  <2>1. \A l, kinds : HeldIn(A, l, kinds) \in Nat
    BY <1>2, HeldInNat DEF OwnersOk
  <2> QED
    BY <2>1 DEF Weighed, Weight, RwLockCapacity
<1>4. /\ \A x \in Released(id) : x \in A <=> IsGuard(x)
      /\ \A x \in Acquired(id) : x \notin A
  BY DEF Steps, Ready, Orderly
<1>5. Forwarded(id, A) = {}
  <2>1. id[3] = "call" => TermOf(id).api # "forward"
    <3> SUFFICES ASSUME id[3] = "call" PROVE TermOf(id).api # "forward"
      OBVIOUS
    <3>1. CallRegular(Top(th).f, Top(th).b) /\ TermOf(id) = Term(Top(th).f, Top(th).b)
      BY CallHere
    <3> QED
      BY <3>1 DEF CallRegular
  <2> QED
    BY <2>1 DEF Forwarded
<1>6. live' = (A \ Released(id)) \cup Acquired(id)
  BY <1>5 DEF Step
<1> HIDE DEF A
<1>7. CASE Released(id) \cap A = {} /\ Acquired(id) = {}
  <2>1. live' = A
    BY <1>6, <1>7
  <2>2. Released(id) \cap DOMAIN prog.guard = {}
    BY <1>4, <1>7 DEF IsGuard
  <2>3. \A l : Arc(LockPlace(l), R) = 0 /\ Arc(LockPlace(l), Q) = 0
    BY <1>7, <2>2 DEF LocksAgree
  <2> QED
    BY <1>2, <1>3, <2>1, <2>3
<1>8. CASE Released(id) \cap A # {}
  <2>1. PICK x \in Released(id) : x \in A
    BY <1>8
  <2>2. x \in DOMAIN prog.guard /\ Released(id) = {x} /\ Acquired(id) = {}
    BY <1>4, <2>1 DEF IsGuard, LocksAgree
  <2>3. live' = A \ {x}
    BY <1>6, <2>2
  <2>4. \A l : Arc(LockPlace(l), R) = 0 /\ Arc(LockPlace(l), Q) = Share(x, l)
    BY <2>2 DEF LocksAgree
  <2>5. /\ OwnersOk(A \ {x})
        /\ \A l : /\ Weighed(A \ {x}, l) \in Nat /\ Share(x, l) \in Nat
                  /\ Weighed(A, l) = Weighed(A \ {x}, l) + Share(x, l)
    BY <1>1, <1>2, <2>1, WeighedLess
  <2>6. OwnersOk(live')
    BY <2>3, <2>5
  <2>7. ASSUME NEW l
        PROVE  /\ Weighed(live, l) \in Nat /\ Weighed(live', l) \in Nat
               /\ Arc(LockPlace(l), R) \in Nat /\ Arc(LockPlace(l), Q) \in Nat
               /\ Weighed(live', l) + Arc(LockPlace(l), Q) = Weighed(live, l) + Arc(LockPlace(l), R)
    <3>1. /\ Weighed(A, l) \in Nat /\ Weighed(A, l) = Weighed(live, l)
          /\ Arc(LockPlace(l), R) = 0 /\ Arc(LockPlace(l), Q) = Share(x, l)
          /\ Weighed(A, l) = Weighed(live', l) + Share(x, l)
          /\ Share(x, l) \in Nat /\ Weighed(live', l) \in Nat
      BY <1>2, <1>3, <2>3, <2>4, <2>5
    <3> QED
      BY ONLY <3>1
  <2> QED
    BY <2>6, <2>7
<1>9. CASE Released(id) \cap A = {} /\ Acquired(id) # {}
  <2>1. PICK x \in Acquired(id) : TRUE
    BY <1>9
  <2>2. Acquired(id) = {x} /\ Released(id) = {} /\ x \notin A
    BY <1>4, <2>1 DEF LocksAgree
  <2>3. Owner(x) \in {prog.guard[g] : g \in DOMAIN prog.guard}
    BY <2>1 DEF LocksAgree
  <2>4. live' = A \cup {x}
    BY <1>6, <2>2
  <2>5. \A l : Arc(LockPlace(l), Q) = 0 /\ Arc(LockPlace(l), R) = Share(x, l)
    BY <2>2 DEF LocksAgree
  <2>6. /\ OwnersOk(A \cup {x})
        /\ \A l : Weighed(A \cup {x}, l) = Weighed(A, l) + Share(x, l) /\ Share(x, l) \in Nat
    <3>1. OwnersOk(A \cup {x})
      BY <1>1, <1>2, <2>2, <2>3, WeighedOne
    <3>2. ASSUME NEW l PROVE Weighed(A \cup {x}, l) = Weighed(A, l) + Share(x, l) /\ Share(x, l) \in Nat
      <4>1. KindsOk /\ OwnersOk(A) /\ x \notin A /\ Owner(x) \in {prog.guard[g] : g \in DOMAIN prog.guard}
        BY <1>1, <1>2, <2>2, <2>3
      <4> QED
        BY ONLY <4>1, WeighedOne
    <3> QED
      BY <3>1, <3>2
  <2>7. OwnersOk(live')
    BY <2>4, <2>6
  <2>8. ASSUME NEW l
        PROVE  /\ Weighed(live, l) \in Nat /\ Weighed(live', l) \in Nat
               /\ Arc(LockPlace(l), R) \in Nat /\ Arc(LockPlace(l), Q) \in Nat
               /\ Weighed(live', l) + Arc(LockPlace(l), Q) = Weighed(live, l) + Arc(LockPlace(l), R)
    <3>1. /\ Weighed(A, l) \in Nat /\ Weighed(A, l) = Weighed(live, l)
          /\ Arc(LockPlace(l), Q) = 0 /\ Arc(LockPlace(l), R) = Share(x, l)
          /\ Weighed(live', l) = Weighed(A, l) + Share(x, l) /\ Share(x, l) \in Nat
      BY <1>2, <1>3, <2>4, <2>5, <2>6
    <3> QED
      BY ONLY <3>1
  <2> QED
    BY <2>7, <2>8
<1> QED
  BY <1>7, <1>8, <1>9
-----------------------------------------------------------------------------
(* The marking after the step. *)
Fires(th, id) == Steps(th, id) /\ Step(th, id) /\ Fire(id) /\ prog' = prog /\ UNCHANGED transVars

LEMMA CapacityNat ==
  ASSUME BuildInv, Regular, phase = "run"
  PROVE  \A p \in Place : capacity[p] = CapacityOf(p) /\ capacity[p] \in Nat
<1>1. \A p \in Place : capacity[p] = CapacityOf(p)
  BY DEF BuildInv, PlacesDone
<1> QED
  BY <1>1 DEF CapacityOf, LockCapacity, RwLockCapacity, ChannelCapacity

(* In detail: the tokens of each kind of place. *)
LEMMA ArcsCount ==
  ASSUME NEW th, NEW id, NEW gone, NEW come, NEW R, NEW Q, Effect(th, id, gone, come, R, Q),
         Mirrored, Fire(id), Steps(th, id)
  PROVE  /\ Place' = Place
         /\ \A p \in Place : /\ marking'[p] = After(id, p) /\ marking'[p] \in Nat
                             /\ marking'[p] =< capacity'[p]
                             /\ Arc(p, trans[id].in) \in Nat /\ Arc(p, trans[id].out) \in Nat
         /\ \A p \in Place : p[1] \in ControlKinds =>
              marking'[p] = IF (p \in OccupiedPlaces /\ p \notin gone) \/ p \in come THEN 1 ELSE 0
         /\ \A p \in Place : p[1] \notin ControlKinds =>
              marking'[p] = (marking[p] - Arc(p, R)) + Arc(p, Q)
<1>1. Place' = Place /\ \A p \in Place : marking'[p] = After(id, p)
  BY DEF Fire, Place
<1>2. /\ Room(gone, come)
      /\ Carried(trans[id].in, gone, R) /\ Carried(trans[id].out, come, Q)
  BY DEF Effect
<1>3. \A p : Arc(p, trans[id].in) \in Nat /\ Arc(p, trans[id].out) \in Nat
  BY <1>2 DEF Carried
<1>4. \A p \in Place : marking[p] \in Nat /\ Arc(p, trans[id].in) =< marking[p]
  <2>1. \A p \in Place : marking[p] \in Nat
    BY DEF Mirrored
  <2>2. \A p \in DOMAIN trans[id].in : Arc(p, trans[id].in) =< marking[p]
    BY DEF Fire, IsEnabled
  <2>3. \A p : p \notin DOMAIN trans[id].in => Arc(p, trans[id].in) = 0
    BY DEF Arc
  <2> QED
    BY <2>1, <2>2, <2>3
<1>5. \A p \in Place : marking'[p] \in Nat
  BY <1>1, <1>3, <1>4 DEF After
<1>8. ASSUME NEW p \in Place PROVE marking'[p] =< capacity'[p]
  <2>0. capacity' = capacity /\ capacity[p] \in Nat
    <3>1. BuildInv /\ Regular /\ phase = "run"
      BY DEF Steps, Comparable
    <3> QED
      BY <3>1, CapacityNat DEF Fire
  <2>1. CASE p \in DOMAIN trans[id].out
    BY <1>1, <2>0, <2>1 DEF Fire, IsEnabled
  <2>2. CASE p \notin DOMAIN trans[id].out
    <3>1. Arc(p, trans[id].out) = 0 /\ marking[p] =< capacity[p]
      BY <2>2 DEF Arc, Mirrored
    <3> QED
      BY <1>1, <1>3, <1>4, <2>0, <3>1 DEF After
  <2> QED
    BY <2>1, <2>2
<1>6. ASSUME NEW p \in Place, p[1] \in ControlKinds
      PROVE  marking'[p] = IF (p \in OccupiedPlaces /\ p \notin gone) \/ p \in come THEN 1 ELSE 0
  <2>1. /\ Arc(p, trans[id].in) = IF p \in gone THEN 1 ELSE 0
        /\ Arc(p, trans[id].out) = IF p \in come THEN 1 ELSE 0
    BY <1>2, <1>6 DEF Carried
  <2>2. marking[p] = IF p \in OccupiedPlaces THEN 1 ELSE 0
    BY <1>6 DEF Mirrored
  <2>3. /\ p \in gone => p \in OccupiedPlaces
        /\ p \in come /\ p \in OccupiedPlaces => p \in gone
    BY <1>2 DEF Room
  <2> QED
    BY <1>1, <2>1, <2>2, <2>3 DEF After
<1>7. ASSUME NEW p \in Place, p[1] \notin ControlKinds
      PROVE  marking'[p] = (marking[p] - Arc(p, R)) + Arc(p, Q)
  <2>1. Arc(p, trans[id].in) = Arc(p, R) /\ Arc(p, trans[id].out) = Arc(p, Q)
    BY <1>2, <1>7 DEF Carried
  <2> QED
    BY <1>1, <2>1 DEF After
<1> QED
  BY <1>1, <1>3, <1>5, <1>8, <1>6, <1>7

LEMMA MirroredKept ==
  ASSUME NEW th, NEW id, Fires(th, id), ~Leaving(id), Mirrored,
         NEW gone, NEW come, NEW R, NEW Q, Effect(th, id, gone, come, R, Q)
  PROVE  Stacks' /\ Mirrored'
<1>1. prog' = prog /\ functions' = functions /\ Step(th, id) /\ Fire(id) /\ Steps(th, id)
  BY DEF Fires, transVars
<1>2. Stacks' /\ Moves(gone, come) /\ come \subseteq Place
  BY <1>1 DEF Effect
<1>3. Mirrored'
  <2>1. OccupiedPlaces' \subseteq Place'
    BY <1>1, <1>2, ArcsCount DEF Moves, Mirrored
  <2>2. \A p \in Place' : p[1] \in ControlKinds => marking'[p] = IF p \in OccupiedPlaces' THEN 1 ELSE 0
    BY <1>1, <1>2, ArcsCount DEF Moves
  <2>3. ASSUME NEW a \in UNION Range(prog.atomic) PROVE marking'[AtomicPlace(a)] = 1
    <3>1. AtomicPlace(a) \in Place
      <4>1. BuildInv /\ Regular /\ phase = "run"
        BY DEF Fires, Steps, Comparable
      <4>2. SharedPlaces \subseteq Place
        BY <4>1, RunNet
      <4> QED
        BY <4>2 DEF SharedPlaces
    <3>2. AtomicPlace(a)[1] \notin ControlKinds /\ marking[AtomicPlace(a)] = 1
      BY DEF AtomicPlace, ControlKinds, Mirrored
    <3>3. marking'[AtomicPlace(a)] = (marking[AtomicPlace(a)] - Arc(AtomicPlace(a), R)) + Arc(AtomicPlace(a), Q)
      BY <1>1, <3>1, <3>2, ArcsCount
    <3>4. Arc(AtomicPlace(a), R) = Arc(AtomicPlace(a), Q) /\ Arc(AtomicPlace(a), R) \in {0, 1}
      BY DEF Effect, ResourcesAgree, OthersAgree
    <3> QED
      BY <3>2, <3>3, <3>4
  <2>4. \A p \in Place' : marking'[p] \in Nat /\ marking'[p] =< capacity'[p]
    BY <1>1, ArcsCount
  <2>5. ControlKinds' = ControlKinds /\ UNION Range(prog.atomic)' = UNION Range(prog.atomic)
        /\ \A a : AtomicPlace(a)' = AtomicPlace(a)
    BY <1>1 DEF ControlKinds, Range, AtomicPlace
  <2> QED
    BY <1>1, <2>1, <2>2, <2>3, <2>4, <2>5 DEF Mirrored, Range, AtomicPlace
<1> QED
  BY <1>2, <1>3

LEMMA ChannelsKept ==
  ASSUME NEW th, NEW id, Fires(th, id), Mirrored, ChannelsMirrored,
         NEW gone, NEW come, NEW R, NEW Q, Effect(th, id, gone, come, R, Q)
  PROVE  ChannelsMirrored'
<1>1. prog' = prog /\ Step(th, id) /\ Fire(id) /\ Ready(th, id) /\ Steps(th, id)
  BY DEF Fires, Step
<1>2. DOMAIN sent' = DOMAIN sent /\ DOMAIN sent = UNION Range(prog.channel)
  BY <1>1 DEF Step, ChannelsMirrored
<1>3. ASSUME NEW c \in DOMAIN sent
      PROVE  sent'[c] \in Nat /\ marking'[ChannelPlace(c)] = sent'[c]
  <2>1. ChannelPlace(c) \in Place
    <3>1. BuildInv /\ Regular /\ phase = "run"
      BY DEF Fires, Steps, Comparable
    <3>2. SharedPlaces \subseteq Place
      BY <3>1, RunNet
    <3> QED
      BY <1>2, <3>2 DEF SharedPlaces
  <2>2. sent[c] \in Nat /\ marking[ChannelPlace(c)] = sent[c]
    BY DEF ChannelsMirrored
  <2>3. sent'[c] = IF Sends(id, c) THEN sent[c] + 1
                   ELSE IF Receives(id, c) THEN sent[c] - 1 ELSE sent[c]
    BY <1>1 DEF Step, Sends, Receives
  <2>4. Receives(id, c) => sent[c] > 0
    BY <1>1 DEF Receives, Ready
  <2>5. /\ Arc(ChannelPlace(c), R) = IF Receives(id, c) THEN 1 ELSE 0
        /\ Arc(ChannelPlace(c), Q) = IF Sends(id, c) THEN 1 ELSE 0
    BY DEF Effect, ResourcesAgree, OthersAgree
  <2>6. ~(Receives(id, c) /\ Sends(id, c))
    BY DEF Receives, Sends
  <2>7. ChannelPlace(c)[1] \notin ControlKinds
    BY DEF ChannelPlace, ControlKinds
  <2>8. marking'[ChannelPlace(c)] =
          (marking[ChannelPlace(c)] - Arc(ChannelPlace(c), R)) + Arc(ChannelPlace(c), Q)
    BY <1>1, <2>1, <2>7, ArcsCount
  <2> QED
    BY <2>2, <2>3, <2>4, <2>5, <2>6, <2>8
<1> QED
  BY <1>1, <1>2, <1>3 DEF ChannelsMirrored, Range, ChannelPlace

LEMMA LocksKept ==
  ASSUME NEW th, NEW id, Fires(th, id), Mirrored, LocksMirrored,
         NEW gone, NEW come, NEW R, NEW Q, Effect(th, id, gone, come, R, Q)
  PROVE  LocksMirrored'
<1>1. prog' = prog /\ Step(th, id) /\ Fire(id) /\ Steps(th, id)
  BY DEF Fires
<1>2. OwnersOk(live) /\ LocksAgree(id, R, Q)
  BY DEF LocksMirrored, OwnersOk, Effect, ResourcesAgree
<1>3. /\ OwnersOk(live')
      /\ \A l : /\ Weighed(live, l) \in Nat /\ Weighed(live', l) \in Nat
                /\ Arc(LockPlace(l), R) \in Nat /\ Arc(LockPlace(l), Q) \in Nat
                /\ Weighed(live', l) + Arc(LockPlace(l), Q) = Weighed(live, l) + Arc(LockPlace(l), R)
  BY <1>1, <1>2, LocksStep
<1>4. ASSUME NEW l \in Locks
      PROVE  marking'[LockPlace(l)] + Weighed(live', l) = LockCapacity(l)
  <2>1. LockPlace(l) \in Place
    <3>1. BuildInv /\ Regular /\ phase = "run"
      BY DEF Fires, Steps, Comparable
    <3>2. SharedPlaces \subseteq Place
      BY <3>1, RunNet
    <3> QED
      BY <3>2 DEF SharedPlaces
  <2>2. LockPlace(l)[1] \notin ControlKinds
    BY DEF LockPlace, ControlKinds
  <2>3. marking'[LockPlace(l)] =
          (marking[LockPlace(l)] - Arc(LockPlace(l), R)) + Arc(LockPlace(l), Q)
    BY <1>1, <2>1, <2>2, ArcsCount
  <2>4. marking[LockPlace(l)] \in Nat
    BY <2>1 DEF Mirrored
  <2>5. marking[LockPlace(l)] + Weighed(live, l) = LockCapacity(l)
    <3>1. /\ HeldIn(live, l, {"mutex", "read"}) = Held(l, {"mutex", "read"})
          /\ HeldIn(live, l, {"write"}) = Held(l, {"write"})
      BY DEF HeldIn, Held
    <3>2. marking[LockPlace(l)] + Held(l, {"mutex", "read"})
            + Weight("write") * Held(l, {"write"}) = LockCapacity(l)
      BY DEF LocksMirrored
    <3>3. Held(l, {"mutex", "read"}) \in Nat /\ Held(l, {"write"}) \in Nat
      BY <1>2, <3>1, HeldInNat DEF OwnersOk
    <3> QED
      BY <2>4, <3>1, <3>2, <3>3 DEF Weighed, Weight, RwLockCapacity
  <2> DEFINE m == marking[LockPlace(l)]
             r == Arc(LockPlace(l), R)
             q == Arc(LockPlace(l), Q)
             w == Weighed(live, l)
             z == Weighed(live', l)
  <2>6. m \in Nat /\ r \in Nat /\ q \in Nat /\ w \in Nat /\ z \in Nat /\ z + q = w + r
    BY <1>3, <2>4
  <2> HIDE DEF m, r, q, w, z
  <2>7. ((m - r) + q) + z = m + w
    BY <2>6
  <2> QED
    BY <2>3, <2>5, <2>7 DEF m, r, q, w, z
<1>5. IsFiniteSet(live') /\ \A x \in live' : Owner(x) \in {prog.guard[g] : g \in DOMAIN prog.guard}
  BY <1>3 DEF OwnersOk
<1>6. /\ \A x : Owner(x)' = Owner(x)
      /\ Locks' = Locks /\ \A l : LockCapacity(l)' = LockCapacity(l) /\ LockPlace(l)' = LockPlace(l)
      /\ Weight("write")' = Weight("write")
      /\ {prog.guard[g] : g \in DOMAIN prog.guard}' = {prog.guard[g] : g \in DOMAIN prog.guard}
  BY <1>1 DEF Owner, IsGuard, Locks, LockCapacity, LockPlace, Weight, RwLockCapacity
<1>7. \A l, kinds : Held(l, kinds)' = HeldIn(live', l, kinds)
  BY <1>6 DEF Held, HeldIn
<1>8. ASSUME NEW l \in Locks
      PROVE  marking'[LockPlace(l)] + HeldIn(live', l, {"mutex", "read"})
               + Weight("write") * HeldIn(live', l, {"write"}) = LockCapacity(l)
  <2> DEFINE a == HeldIn(live', l, {"mutex", "read"})
             b == HeldIn(live', l, {"write"})
             m == marking'[LockPlace(l)]
             k == LockCapacity(l)
  <2>1. a \in Nat /\ b \in Nat
    BY <1>3, HeldInNat DEF OwnersOk
  <2>2. m + (a + 10 * b) = k
    BY <1>4 DEF Weighed, Weight, RwLockCapacity
  <2>3. m \in Nat
    <3>1. LockPlace(l) \in Place
      <4>1. BuildInv /\ Regular /\ phase = "run"
        BY DEF Fires, Steps, Comparable
      <4> QED
        BY <4>1, RunNet DEF SharedPlaces
    <3> QED
      BY <1>1, <3>1, ArcsCount
  <2> HIDE DEF a, b, m, k
  <2>4. m + a + 10 * b = k
    BY <2>1, <2>2, <2>3
  <2> QED
    BY <2>4 DEF a, b, m, k, Weight, RwLockCapacity
<1> QED
  BY <1>5, <1>6, <1>7, <1>8 DEF LocksMirrored

-----------------------------------------------------------------------------
(* Net and program together. *)

(* What Regular says does not change. *)
LEMMA RegularStays ==
  ASSUME prog' = prog, Regular
  PROVE  Regular'
<1>1. NodeFuncs' = NodeFuncs /\ Translated' = Translated /\ \A f : BlocksOf(f)' = BlocksOf(f)
  BY DEF NodeFuncs, Translated, BlocksOf
<1>2. \A f, b : Term(f, b)' = Term(f, b) /\ Block(f, b)' = Block(f, b)
  BY DEF Term, Block
<1>3. \A f, b : HasPlace(f, b)' = HasPlace(f, b) /\ Excluded(f, b)' = Excluded(f, b)
  BY <1>1, <1>2 DEF HasPlace, Excluded
<1>4. Describable'
  <2>1. \A f, b : Returns(f, b)' = Returns(f, b)
    BY <1>2, <1>3 DEF Returns, Suspends
  <2> QED
    BY <1>1, <1>2, <1>3, <2>1 DEF Regular, Describable
<1>5. Threads' = Threads /\ \A t : Callee(t)' = Callee(t)
  BY <1>1, SMT DEF Threads, Started, TermOf, Term, Block, ClosureAt, ClosureArgs, BlocksOf, Callee
<1>6. ASSUME NEW f, NEW b, CallRegular(f, b) PROVE CallRegular(f, b)'
  <2>1. \A t : /\ Handler(f, t)' = Handler(f, t) /\ ChannelsOf(t)' = ChannelsOf(t)
               /\ ClosureArgs(t)' = ClosureArgs(t) /\ Lands(f, t)' = Lands(f, t)
               /\ IsGuard(t.args[2])' = IsGuard(t.args[2])
               /\ Owner(t.args[2])' = Owner(t.args[2]) /\ Owner(t.dest)' = Owner(t.dest)
    BY <1>3, SMT DEF Handler, Acquires, IsGuard, Recognised, ChannelsOf, ClosureAt, ClosureArgs,
      Block, Lands, Owner
  <2> QED
    BY <1>1, <1>2, <1>3, <1>5, <1>6, <2>1 DEF CallRegular
<1>7. ASSUME NEW f, NEW b, TermRegular(f, b) PROVE TermRegular(f, b)'
  <2>1. /\ \A t : Lands(f, t)' = Lands(f, t) /\ ExitsProgram(f, t)' = ExitsProgram(f, t)
        /\ Continuation(f, b)' = Continuation(f, b)
    BY <1>3, SMT DEF Lands, ExitsProgram, Block, Continuation, Others, Least, Term, BlocksOf
  <2> QED
    BY <1>1, <1>2, <1>3, <1>6, <1>7, <2>1 DEF TermRegular
<1> QED
  BY <1>1, <1>3, <1>4, <1>7 DEF Regular

(* A step the two take together. *)
LEMMA AlikeRun ==
  ASSUME BuildInv, Regular, Orderly, Alike, Run
  PROVE  Alike' /\ BuildInv' /\ phase = "run" /\ phase' = "run" /\ prog' = prog
<1>1. /\ Comparable /\ prog' = prog /\ UNCHANGED transVars /\ phase' = "run" /\ functions' = functions
      /\ phase = "run"
  BY DEF Run, Comparable, transVars
<1>2. PICK th \in NodeFuncs : \E id \in Labels(th) : Step(th, id) /\ Fire(id)
  BY DEF Run
<1>3. PICK id \in Labels(th) : Step(th, id) /\ Fire(id)
  BY <1>2
<1>4. Stacks /\ Mirrored /\ LocksMirrored /\ ChannelsMirrored
  BY <1>1 DEF Alike
<1>5. Steps(th, id)
  BY <1>1, <1>2, <1>3, <1>4 DEF Steps, Step
<1>6. Fires(th, id)
  BY <1>1, <1>3, <1>5 DEF Fires
<1>7. PICK gone, come, R, Q : Effect(th, id, gone, come, R, Q)
  BY <1>5, AllFollow DEF Follows
<1>8. ASSUME Leaving(id) PROVE Alike'
  <2>1. th = prog.main
    <3>1. Ready(th, id)
      BY <1>5 DEF Steps
    <3> QED
      BY <1>1, <1>2, <1>3, <1>8, <3>1 DEF Orderly, Leaving
  <2>2. StackAfter(th, id) = <<Frame(th, 0, "end")>>
    BY <1>8, LeavingStack
  <2>3. stack'[th] = <<Frame(th, 0, "end")>>
    BY <1>2, <1>3, <2>2 DEF Step
  <2>4. Len(stack'[th]) = 1 /\ Last(stack'[th]).at = "end"
    BY ONLY <2>3 DEF Last, Frame
  <2>5. Ended(prog.main)'
    BY <1>1, <2>1, <2>4 DEF Ended, Top
  <2> QED
    BY <2>5 DEF Alike, Comparable
<1>9. ASSUME ~Leaving(id) PROVE Alike'
  BY <1>4, <1>6, <1>7, <1>9, MirroredKept, ChannelsKept, LocksKept DEF Alike
<1>10. BuildInv'
  <2>1. trans' = trans /\ capacity' = capacity /\ marking' = [p \in Place |-> After(id, p)]
    BY <1>3 DEF Fire
  <2>2. VisitorPlaced'
    BY <1>1 DEF BuildInv, VisitorPlaced, transVars, bodyVars, fn, NodeFuncs, BlocksOf, Excluded, Block,
      Term, ExpectFails, ExpectedBlocks, Here, Suspends
  <2>3. /\ seen' = seen /\ node' = node /\ bb' = bb /\ step' = step /\ ret' = ret /\ fn' = fn
        /\ step = "body"
    BY <1>1 DEF transVars, bodyVars, fn, BuildInv, VisitorPlaced
  <2>4. SeenInOrder'
    BY <1>1, <2>3, StaticBlocks DEF SeenInOrder, BuildInv, Begun
  <2>5. Current' = {} /\ Current = {}
    BY <2>3 DEF Current
  <2>6. \A f, b : Begun(f)' = Begun(f) /\ Done(f, b)' = Done(f, b)
    BY <1>1, <2>3, StaticBlocks DEF Begun, Done
  <2>7. TransitionsDone'
    BY <1>1, <2>1, <2>5, <2>6, StaticBlocks, StaticIds, StaticShape DEF BuildInv, TransitionsDone
  <2>8. PlacesDone'
    BY <1>1, <2>1, <2>3, <2>6, StaticBlocks, StaticIds DEF BuildInv, PlacesDone, Place, ReadyPlace, BlockPlace
  <2> QED
    BY <1>1, <2>2, <2>4, <2>7, <2>8 DEF BuildInv
<1> QED
  BY <1>1, <1>8, <1>9, <1>10

(* The program starts where the net does. *)
LEMMA AlikeStart ==
  ASSUME BuildInv, Regular, ProgInit, Finish, UNCHANGED progVars
  PROVE  Alike'
<1>0. phase' = "run" /\ prog' = prog /\ functions' = functions /\ UNCHANGED netVars
  BY DEF Finish
<1> DEFINE m == prog.main
<1>1. /\ stack' = [f \in NodeFuncs |-> IF f = m THEN <<Entry(f)>> ELSE <<>>]
      /\ live' = {} /\ sent' = [c \in UNION Range(prog.channel) |-> 0]
  BY DEF ProgInit, progVars
<1>2. m \in Translated /\ m \in NodeFuncs /\ HasPlace(m, 0) /\ m \in Threads
  BY DEF Regular, Translated, Describable, Threads
<1>3. FrameOk(Entry(m)) /\ Entry(m) \in Frames /\ Entry(m).f = m /\ Entry(m).at = "entry"
      /\ FramePlace(Entry(m)) = StartPlace(m)
  BY <1>2 DEF FrameOk, Entry, Frame, Frames, HasPlace, BlocksOf, FramePlace
<1>4. \A f \in NodeFuncs : \A i \in DOMAIN stack'[f] :
        f = m /\ i = 1 /\ stack'[f] = <<Entry(m)>> /\ stack'[f][i] = Entry(m) /\ Len(stack'[f]) = 1
  <2> SUFFICES ASSUME NEW f \in NodeFuncs, NEW i \in DOMAIN stack'[f]
               PROVE  f = m /\ i = 1 /\ stack'[f] = <<Entry(m)>> /\ stack'[f][i] = Entry(m) /\ Len(stack'[f]) = 1
    OBVIOUS
  <2>1. f = m
    BY <1>1
  <2>2. stack'[f] = <<Entry(m)>>
    BY <1>1, <2>1
  <2>3. DOMAIN stack'[f] = {1} /\ stack'[f][1] = Entry(m) /\ Len(stack'[f]) = 1
    BY ONLY <2>2
  <2> QED
    BY <2>1, <2>2, <2>3
<1>5. Stacks'
  <2>1. stack' \in [NodeFuncs -> Seq(Frames)]
    <3>1. <<Entry(m)>> \in Seq(Frames) /\ <<>> \in Seq(Frames)
      BY <1>3
    <3> QED
      BY <1>1, <3>1
  <2>2. ASSUME NEW f \in NodeFuncs, NEW i \in DOMAIN stack'[f] PROVE SpotOk(f, i)'
    <3>1. f = m /\ i = 1 /\ stack'[f][i] = Entry(m) /\ Len(stack'[f]) = 1
      BY <1>4
    <3> QED
      BY <1>0, <1>2, <1>3, <3>1, StaticProgram DEF SpotOk
  <2> QED
    BY <1>0, <1>4, <2>1, <2>2, StaticProgram DEF Stacks
<1>6. \A p : p \in OccupiedPlaces' <=> p = StartPlace(m)
  <2>1. NodeFuncs' = NodeFuncs /\ \A fr : FramePlace(fr)' = FramePlace(fr)
    BY <1>0, StaticProgram
  <2>2. \A p : p \in OccupiedPlaces' <=> \E x \in NodeFuncs : \E i \in DOMAIN stack'[x] : FramePlace(stack'[x][i]) = p
    BY <2>1, OccupiedNext DEF OccupiedIs, Occupies, FramePlace, StartPlace, BlockPlace, ReadyPlace,
      OperationPlace, WaitPlace, EndPlace
  <2>3. stack'[m] = <<Entry(m)>>
    BY <1>1, <1>2
  <2>4. 1 \in DOMAIN stack'[m] /\ stack'[m][1] = Entry(m)
    BY ONLY <2>3
  <2> QED
    BY <1>2, <1>3, <1>4, <2>2, <2>4
<1>7. /\ SharedPlaces \subseteq Place /\ Place' = Place /\ capacity' = capacity /\ marking' = marking
      /\ \A p \in Place : marking[p] = TokensAtStart(p) /\ capacity[p] = CapacityOf(p)
      /\ m \in functions
  <2>1. m \in functions
    BY <1>2 DEF Finish, Translated, BuildInv, VisitorPlaced
  <2> QED
    BY <1>0, <2>1 DEF Finish, BuildInv, PlacesDone, netVars, Place
<1>8. Mirrored'
  <2>1. OccupiedPlaces' \subseteq Place'
    BY <1>6, <1>7 DEF SharedPlaces
  <2>2. ASSUME NEW p \in Place', p[1] \in ControlKinds
        PROVE  marking'[p] = IF p \in OccupiedPlaces' THEN 1 ELSE 0
    BY <1>6, <1>7, <2>2 DEF TokensAtStart, ControlKinds
  <2>3. ASSUME NEW a \in UNION Range(prog.atomic) PROVE marking'[AtomicPlace(a)] = 1
    <3>1. AtomicPlace(a) \in Place
      BY <1>7 DEF SharedPlaces
    <3> QED
      BY <1>7, <3>1 DEF TokensAtStart, AtomicPlace
  <2>4. ASSUME NEW p \in Place' PROVE marking'[p] \in Nat /\ marking'[p] =< capacity'[p]
    <3>1. marking'[p] = TokensAtStart(p) /\ capacity'[p] = CapacityOf(p)
      BY <1>7
    <3> QED
      BY <3>1 DEF TokensAtStart, CapacityOf, LockCapacity, RwLockCapacity, ChannelCapacity, StartPlace
  <2> QED
    BY <1>0, <2>1, <2>2, <2>3, <2>4 DEF Mirrored, ControlKinds, Range, AtomicPlace
<1>9. LocksMirrored'
  <2>1. \A l, kinds : Held(l, kinds)' = 0
    <3> SUFFICES ASSUME NEW l, NEW kinds PROVE Held(l, kinds)' = 0
      OBVIOUS
    <3>1. {x \in live' : Owner(x)'.lock = l /\ Owner(x)'.kind \in kinds} = {}
      BY <1>1
    <3> QED
      BY <3>1, FS_EmptySet DEF Held
  <2>2. ASSUME NEW l \in Locks
        PROVE  marking'[LockPlace(l)] = LockCapacity(l) /\ LockCapacity(l) \in Nat
    <3>1. LockPlace(l) \in Place
      BY <1>7 DEF SharedPlaces
    <3> QED
      BY <1>7, <3>1 DEF TokensAtStart, LockPlace, LockCapacity, RwLockCapacity
  <2>3. /\ Locks' = Locks /\ \A l : LockCapacity(l)' = LockCapacity(l) /\ LockPlace(l)' = LockPlace(l)
        /\ Weight("write")' = 10
    BY <1>0 DEF Locks, LockCapacity, LockPlace, Weight, RwLockCapacity
  <2>4. \A l \in Locks : marking'[LockPlace(l)] + 0 + 10 * 0 = LockCapacity(l)
    BY <2>2
  <2>5. IsFiniteSet(live') /\ \A x \in live' : FALSE
    BY <1>1, FS_EmptySet
  <2> QED
    BY <2>1, <2>3, <2>4, <2>5 DEF LocksMirrored
<1>10. ChannelsMirrored'
  <2>1. ASSUME NEW c \in UNION Range(prog.channel) PROVE marking'[ChannelPlace(c)] = 0
    <3>1. ChannelPlace(c) \in Place
      BY <1>7 DEF SharedPlaces
    <3> QED
      BY <1>7, <3>1 DEF TokensAtStart, ChannelPlace, StartPlace
  <2> QED
    BY <1>0, <1>1, <2>1 DEF ChannelsMirrored, Range, ChannelPlace
<1> QED
  BY <1>5, <1>8, <1>9, <1>10 DEF Alike

(* Nothing happens. *)
LEMMA BuildStays ==
  ASSUME BuildInv, UNCHANGED <<prog, netVars, transVars>>
  PROVE  BuildInv'
<1>1. /\ prog' = prog /\ phase' = phase /\ functions' = functions /\ node' = node /\ seen' = seen
      /\ bb' = bb /\ step' = step /\ ret' = ret
      /\ capacity' = capacity /\ marking' = marking /\ trans' = trans
  BY DEF netVars, transVars, bodyVars
<1>2. fn' = fn
  BY <1>1 DEF fn
<1>3. VisitorPlaced'
  BY <1>1, <1>2 DEF BuildInv, VisitorPlaced, NodeFuncs, BlocksOf, Excluded, Block, Term, ExpectFails,
    ExpectedBlocks, Here, Suspends, fn
<1>4. NothingBuilt => NothingBuilt'
  BY <1>1 DEF NothingBuilt
<1>5. \A f, b : Begun(f)' = Begun(f) /\ Done(f, b)' = Done(f, b)
  BY <1>1, <1>2, StaticBlocks DEF Begun, Done
<1>6. Begun(fn)' = Begun(fn)
  BY <1>1, <1>2 DEF Begun
<1>7. SeenInOrder => SeenInOrder'
  BY <1>1, <1>2, <1>5, <1>6, StaticBlocks DEF SeenInOrder, Returns, HasPlace, BlocksOf, Block, Term, Suspends, Excluded
<1>8. Current' = Current
  BY <1>1, <1>2, SMT DEF Current, StmtIds, StartIds, Accessed, Term, Block, Merged
<1>9. TransitionsDone => TransitionsDone'
  BY <1>1, <1>5, <1>8, StaticBlocks, StaticIds, StaticShape DEF TransitionsDone
<1>10. Accessed(fn, bb)' = Accessed(fn, bb) /\ ReadyPlace(fn, bb)' = ReadyPlace(fn, bb)
  BY <1>1, <1>2 DEF Accessed, Term, Block, Merged, ReadyPlace
<1>11. PlacesDone => PlacesDone'
  BY <1>1, <1>2, <1>5, <1>10, StaticBlocks, StaticIds DEF PlacesDone, Place, ReadyPlace, BlockPlace
<1> QED
  BY <1>1, <1>3, <1>4, <1>7, <1>9, <1>11 DEF BuildInv

LEMMA AlikeStays ==
  ASSUME Alike, UNCHANGED <<prog, netVars, transVars, progVars>>
  PROVE  Alike'
<1>1. /\ prog' = prog /\ phase' = phase /\ functions' = functions
      /\ capacity' = capacity /\ marking' = marking
      /\ stack' = stack /\ live' = live /\ sent' = sent
  BY DEF netVars, transVars, progVars
<1>2. Comparable' = Comparable
  BY <1>1 DEF Comparable, Ended, Top
<1>3. Stacks => Stacks'
  <2>1. \A th, i : SpotOk(th, i)' = SpotOk(th, i)
    BY <1>1, StaticProgram, SMT DEF SpotOk
  <2> QED
    BY <1>1, <2>1, StaticProgram DEF Stacks
<1>4. OccupiedPlaces' = OccupiedPlaces
  BY <1>1 DEF OccupiedPlaces, FramePlace, NodeFuncs, StartPlace, BlockPlace, ReadyPlace,
    OperationPlace, WaitPlace, EndPlace
<1>5. Mirrored => Mirrored'
  BY <1>1, <1>4 DEF Mirrored, Place, ControlKinds, Range, AtomicPlace
<1>6. LocksMirrored => LocksMirrored'
  <2>1. /\ \A x : Owner(x)' = Owner(x)
        /\ Locks' = Locks /\ \A l : LockCapacity(l)' = LockCapacity(l) /\ LockPlace(l)' = LockPlace(l)
        /\ Weight("write")' = Weight("write")
    BY <1>1 DEF Owner, IsGuard, Locks, LockCapacity, LockPlace, Weight, RwLockCapacity
  <2>2. \A l, kinds : Held(l, kinds)' = Held(l, kinds)
    BY <1>1, <2>1 DEF Held
  <2> QED
    BY <1>1, <2>1, <2>2 DEF LocksMirrored
<1>7. ChannelsMirrored => ChannelsMirrored'
  BY <1>1 DEF ChannelsMirrored, Range, ChannelPlace
<1> QED
  BY <1>2, <1>3, <1>5, <1>6, <1>7 DEF Alike

(* The inductive invariant. *)
LEMMA SimInit == Init /\ Regular => Sim /\ Regular
<1> SUFFICES ASSUME Init, Regular PROVE Sim
  OBVIOUS
<1>1. BuildInv /\ ProgInit /\ phase = "construct"
  BY BuildInit DEF Init, TransInit
<1> QED
  BY <1>1 DEF Sim, Alike, Comparable

LEMMA SimNext == Sim /\ Regular /\ HandlesFollowed /\ Orderly /\ [Next]_vars => Sim' /\ Regular'
<1> SUFFICES ASSUME Sim, Regular, HandlesFollowed, Orderly, [Next]_vars PROVE Sim' /\ Regular'
  OBVIOUS
<1>1. CASE Translate /\ UNCHANGED progVars
  <2>1. BuildInv' /\ prog' = prog
    BY <1>1, BuildKept, PlacedKept DEF Sim, Regular, BuildInv
  <2>2. Regular'
    BY <2>1, RegularStays
  <2>3. phase \in {"construct", "visit"}
    BY <1>1 DEF Translate, Construct, BeginBody, SkipBody, EndBody, Finish, SkipBlock, VisitStatements,
      StartBlock, Panic, Terminator, AtTerm, AtCall, Call, Goto, AssertGoto, Fallthrough, Terminal,
      Switch, Suspend, Return, Drop, DivergingCall, ConnectCall, LockCall, NotifyCall,
      WaitCall, DropCall, SendCall, RecvCall, SpawnCall, JoinCall, ScopeSpawnCall,
      RayonJoinCall, AtomicCall, PanicCall, NormalCall
  <2>4. ProgInit /\ ProgInit'
    BY <1>1, <2>1, <2>3 DEF Sim, ProgInit, progVars, NodeFuncs, Range
  <2>5. CASE Finish
    BY <1>1, <2>1, <2>2, <2>4, <2>5, AlikeStart DEF Sim
  <2>6. CASE ~Finish
    <3>1. phase' # "run"
      BY <1>1, <2>3, <2>6 DEF Translate, Construct, BeginBody, SkipBody, EndBody, SkipBlock, VisitStatements,
        StartBlock, Panic, Terminator, AtTerm, AtCall, Call, Goto, AssertGoto, Fallthrough, Terminal,
        Switch, Suspend, Return, Drop, DivergingCall, ConnectCall, LockCall, NotifyCall,
        WaitCall, DropCall, SendCall, RecvCall, SpawnCall, JoinCall, ScopeSpawnCall,
        RayonJoinCall, AtomicCall, PanicCall, NormalCall, SimpleCall, WaitRet, EndBlock
    <3> QED
      BY <2>1, <2>2, <2>4, <3>1 DEF Sim, Alike, Comparable
  <2> QED
    BY <2>5, <2>6
<1>2. CASE Run
  <2>1. Alike' /\ BuildInv' /\ phase' = "run" /\ prog' = prog
    BY <1>2, AlikeRun DEF Sim
  <2> QED
    BY <2>1, RegularStays DEF Sim
<1>3. CASE UNCHANGED vars
  <2>1. /\ prog' = prog /\ UNCHANGED transVars /\ UNCHANGED progVars /\ UNCHANGED netVars
        /\ UNCHANGED bodyVars
    BY <1>3 DEF vars, transVars
  <2>2. BuildInv' /\ Alike'
    BY <2>1, BuildStays, AlikeStays DEF Sim
  <2>3. phase' = phase /\ (ProgInit => ProgInit')
    BY <2>1 DEF transVars, ProgInit, progVars, NodeFuncs, Range
  <2> QED
    BY <2>1, <2>2, <2>3, RegularStays DEF Sim
<1> QED
  BY <1>1, <1>2, <1>3 DEF Next

-----------------------------------------------------------------------------
(* The translation never gives up on a program whose blocks jump to blocks  *)
(* that are translated, except where an ignored function returns: the       *)
(* places mir_to_pn asks for with expect() exist, whatever is translated    *)
(* before, and in whatever way the other calls are resolved.                *)
THEOREM ExpectationsHoldAlways == Spec /\ JumpsLand => []ExpectationsHold
<1>1. Init => VisitorPlaced
  BY PlacedInit DEF Init
<1>2. VisitorPlaced /\ JumpsLand /\ [Next]_vars => VisitorPlaced' /\ JumpsLand'
  <2> SUFFICES ASSUME VisitorPlaced, JumpsLand, [Next]_vars
               PROVE  VisitorPlaced' /\ prog' = prog
    BY DEF JumpsLand, NodeFuncs, BlocksOf, Excluded, Block, Term, ExpectedBlocks
  <2>1. CASE Translate
    BY <2>1, PlacedKept
  <2>2. CASE UNCHANGED <<prog, transVars>>
    BY <2>2 DEF VisitorPlaced, transVars, fn, NodeFuncs, BlocksOf, Excluded, Block, Term, ExpectFails,
      ExpectedBlocks, Here, Suspends
  <2> QED
    BY <2>1, <2>2 DEF Next, Run, vars
<1>3. VisitorPlaced /\ JumpsLand => ExpectationsHold
  BY PanicsAtIgnored DEF ExpectationsHold
<1> QED
  BY <1>1, <1>2, <1>3, PTL DEF Spec

(* The net and the program stay alike.                                      *)
LEMMA AlwaysSim == Spec /\ Regular /\ [](HandlesFollowed /\ Orderly) => [](Sim /\ Regular)
  BY SimInit, SimNext, PTL DEF Spec

(* While a regular program runs the marking tells where its threads are,    *)
(* which guards they hold on every path, and what was sent: the token game  *)
(* of the net never drifts from the program, whatever the threads do and    *)
(* however long.                                                            *)
THEOREM MarkingMirrors ==
  Spec /\ Regular /\ [](HandlesFollowed /\ Orderly) => []MarkingMirrorsThreads
<1>1. Sim => MarkingMirrorsThreads
  <2> SUFFICES ASSUME Sim, Comparable
               PROVE  MarkingMirrorsThreads
    BY DEF MarkingMirrorsThreads
  <2>1. Mirrored /\ LocksMirrored /\ ChannelsMirrored
    BY DEF Sim, Alike
  <2>2. \A p \in Place : p[1] \in ControlKinds => (marking[p] = 1 <=> p \in OccupiedPlaces)
    BY <2>1 DEF Mirrored
  <2> QED
    BY <2>1, <2>2 DEF MarkingMirrorsThreads, LocksMirrored, ChannelsMirrored, ControlKinds
<1> QED
  BY <1>1, AlwaysSim, PTL

-----------------------------------------------------------------------------
(* Whatever a thread can do the net can do. *)

AlikeNow == Mirrored /\ LocksMirrored /\ ChannelsMirrored

(* The tokens of a lock and its owners. *)
LEMMA LockBalance ==
  ASSUME BuildInv, Regular, phase = "run", AlikeNow, NEW l \in Locks
  PROVE  /\ LockPlace(l) \in Place /\ marking[LockPlace(l)] \in Nat /\ Weighed(live, l) \in Nat
         /\ LockCapacity(l) \in Nat /\ capacity[LockPlace(l)] = LockCapacity(l)
         /\ marking[LockPlace(l)] + Weighed(live, l) = LockCapacity(l)
         /\ OwnersOk(live) /\ KindsOk
<1>1. LockPlace(l) \in Place
  BY RunNet DEF SharedPlaces
<1>2. marking[LockPlace(l)] \in Nat /\ OwnersOk(live)
  BY <1>1 DEF AlikeNow, Mirrored, LocksMirrored, OwnersOk
<1> DEFINE a == HeldIn(live, l, {"mutex", "read"})
           b == HeldIn(live, l, {"write"})
           m == marking[LockPlace(l)]
<1>3. a \in Nat /\ b \in Nat
  BY <1>2, HeldInNat DEF OwnersOk
<1>4. m + a + 10 * b = LockCapacity(l)
  BY DEF AlikeNow, LocksMirrored, HeldIn, Held, Weight, RwLockCapacity
<1>5. Weighed(live, l) = a + 10 * b
  BY DEF Weighed, Weight, RwLockCapacity
<1>6. LockCapacity(l) \in Nat
  BY DEF LockCapacity, RwLockCapacity
<1>7. capacity[LockPlace(l)] = LockCapacity(l)
  BY <1>1, CapacityNat DEF CapacityOf, LockPlace
<1> HIDE DEF a, b
<1> QED
  BY <1>1, <1>2, <1>3, <1>4, <1>5, <1>6, <1>7 DEF Regular, KindsOk

LEMMA WeighedNone ==
  ASSUME NEW S, NEW l, \A y \in S : Owner(y).lock # l
  PROVE  Weighed(S, l) = 0
<1>1. \A kinds : {x \in S : Owner(x).lock = l /\ Owner(x).kind \in kinds} = {}
  OBVIOUS
<1>2. \A kinds : HeldIn(S, l, kinds) = 0
  BY <1>1, FS_EmptySet DEF HeldIn
<1> QED
  BY <1>2 DEF Weighed, Weight, RwLockCapacity

(* A lock a thread may take has the tokens. *)
LEMMA TokensThere ==
  ASSUME BuildInv, Regular, phase = "run", AlikeNow,
         NEW x, Owner(x) \in {prog.guard[g] : g \in DOMAIN prog.guard}, Available(Owner(x)),
         Owner(x).kind = "read" => Held(Owner(x).lock, {"read"}) < RwLockCapacity,
         NEW l \in Locks
  PROVE  Share(x, l) =< marking[LockPlace(l)]
<1> DEFINE m == marking[LockPlace(l)]
           w == Weighed(live, l)
<1>1. m \in Nat /\ w \in Nat /\ LockCapacity(l) \in Nat /\ m + w = LockCapacity(l)
  BY LockBalance
<1>2. PICK g \in DOMAIN prog.guard : Owner(x) = prog.guard[g]
  OBVIOUS
<1>3. /\ prog.guard[g].kind \in {"mutex", "read", "write"}
      /\ \A y \in DOMAIN prog.guard : prog.guard[y].lock = prog.guard[g].lock =>
           (prog.guard[y].kind = "mutex" <=> prog.guard[g].kind = "mutex")
  BY DEF Regular
<1>4. CASE Owner(x).lock # l
  BY <1>1, <1>4 DEF Share
<1>5. CASE Owner(x).lock = l /\ Owner(x).kind # "read"
  <2>1. \A y \in live : Owner(y).lock # l
    BY <1>5 DEF Available
  <2>2. w = 0
    BY <2>1, WeighedNone
  <2>3. LockCapacity(l) = Weight(Owner(x).kind)
    BY <1>2, <1>3, <1>5 DEF LockCapacity, Weight
  <2> HIDE DEF m, w
  <2> QED
    BY <1>1, <1>5, <2>2, <2>3 DEF Share, m
<1>6. CASE Owner(x).lock = l /\ Owner(x).kind = "read"
  <2>1. \A y \in live : Owner(y).lock = l => Owner(y).kind = "read"
    BY <1>6 DEF Available
  <2>2. /\ {y \in live : Owner(y).lock = l /\ Owner(y).kind \in {"mutex", "read"}}
             = {y \in live : Owner(y).lock = l /\ Owner(y).kind \in {"read"}}
        /\ {y \in live : Owner(y).lock = l /\ Owner(y).kind \in {"write"}} = {}
    BY <2>1
  <2>3. HeldIn(live, l, {"mutex", "read"}) = Held(l, {"read"}) /\ HeldIn(live, l, {"write"}) = 0
    BY <2>2, FS_EmptySet DEF HeldIn, Held
  <2>4. HeldIn(live, l, {"mutex", "read"}) \in Nat
    BY LockBalance, HeldInNat DEF OwnersOk
  <2>5. w < 10
    BY <1>6, <2>3, <2>4 DEF Weighed, Weight, RwLockCapacity
  <2>6. LockCapacity(l) = 10
    BY <1>2, <1>3, <1>6 DEF LockCapacity, RwLockCapacity
  <2>7. Share(x, l) = 1
    BY <1>6 DEF Share, Weight
  <2> HIDE DEF m, w
  <2>8. 1 =< m
    BY <1>1, <2>5, <2>6
  <2> QED
    BY <2>7, <2>8 DEF m
<1> QED
  BY <1>4, <1>5, <1>6

(* A lock a thread gives back has room for its tokens. *)
LEMMA RoomForTokens ==
  ASSUME NEW th, NEW id, Steps(th, id), AlikeNow, NEW x \in Released(id) \cap DOMAIN prog.guard,
         NEW l \in Locks
  PROVE  Share(x, l) \in Nat /\ marking[LockPlace(l)] + Share(x, l) =< LockCapacity(l)
<1> DEFINE A == MovedOwners(id)
           m == marking[LockPlace(l)]
           w == Weighed(live, l)
           z == Weighed(A \ {x}, l)
           s == Share(x, l)
<1>0. BuildInv /\ Regular /\ phase = "run"
  BY DEF Steps, Comparable
<1>1. /\ m \in Nat /\ w \in Nat /\ LockCapacity(l) \in Nat /\ m + w = LockCapacity(l)
      /\ OwnersOk(live) /\ KindsOk
  BY <1>0, LockBalance
<1>2. OwnersOk(A) /\ Weighed(A, l) = w
  BY <1>1, MovesCounted DEF Weighs
<1>3. x \in A
  BY DEF Steps, Orderly, Ready, IsGuard
<1> HIDE DEF A
<1>4. z \in Nat /\ s \in Nat /\ w = z + s
  <2>1. Weighed(A, l) = z + s /\ z \in Nat /\ s \in Nat
    BY <1>1, <1>2, <1>3, WeighedLess
  <2> QED
    BY <1>2, <2>1
<1> HIDE DEF m, w, z, s
<1>5. m + s =< LockCapacity(l)
  BY <1>1, <1>4
<1> QED
  BY <1>4, <1>5 DEF m, s

(* What the step takes of what is shared is there, and there is room for    *)
(* what it gives.                                                           *)
LEMMA SharedServes ==
  ASSUME NEW th, NEW id, Steps(th, id), AlikeNow, ~CondvarStep(id),
         NEW R, NEW Q, ResourcesAgree(id, R, Q), NEW p \in SharedPlaces, p[1] \notin ControlKinds,
         Arc(p, R) \in Nat, Arc(p, Q) \in Nat
  PROVE  Arc(p, R) =< marking[p] /\ (marking[p] - Arc(p, R)) + Arc(p, Q) =< capacity[p]
<1>0. BuildInv /\ Regular /\ phase = "run" /\ Comparable /\ Orderly /\ Ready(th, id) /\ th \in NodeFuncs
      /\ id \in Labels(th)
  BY DEF Steps, Comparable, Ready
<1>1. p \in Place /\ marking[p] \in Nat /\ marking[p] =< capacity[p] /\ capacity[p] \in Nat
  <2>1. p \in Place
    BY <1>0, RunNet
  <2> QED
    BY <1>0, <2>1, CapacityNat DEF AlikeNow, Mirrored
<1>2. ASSUME NEW l \in Locks, p = LockPlace(l) PROVE Arc(p, R) =< marking[p] /\ (marking[p] - Arc(p, R)) + Arc(p, Q) =< capacity[p]
  <2>1. capacity[p] = LockCapacity(l) /\ LockCapacity(l) \in Nat
    BY <1>0, <1>2, LockBalance
  <2>2. Arc(p, R) =< marking[p]
    <3>1. CASE Acquired(id) = {}
      BY <1>1, <1>2, <3>1 DEF ResourcesAgree, LocksAgree
    <3>2. ASSUME NEW x \in Acquired(id) PROVE Arc(p, R) =< marking[p]
      <4>1. Arc(p, R) = Share(x, l) /\ Owner(x) \in {prog.guard[g] : g \in DOMAIN prog.guard}
        BY <1>2 DEF ResourcesAgree, LocksAgree
      <4>2. Available(Owner(x)) /\ (Owner(x).kind = "read" => Held(Owner(x).lock, {"read"}) < RwLockCapacity)
        BY <1>0 DEF Ready, Orderly
      <4> QED
        BY <1>0, <1>2, <4>1, <4>2, TokensThere
    <3> QED
      BY <3>1, <3>2
  <2>3. (marking[p] - Arc(p, R)) + Arc(p, Q) =< capacity[p]
    <3>1. CASE Released(id) \cap DOMAIN prog.guard = {}
      <4>1. Arc(p, Q) = 0
        BY <1>2, <3>1 DEF ResourcesAgree, LocksAgree
      <4> QED
        BY <1>1, <2>2, <4>1
    <3>2. ASSUME NEW x \in Released(id) \cap DOMAIN prog.guard PROVE (marking[p] - Arc(p, R)) + Arc(p, Q) =< capacity[p]
      <4>1. Arc(p, Q) = Share(x, l) /\ Acquired(id) = {}
        BY <1>2 DEF ResourcesAgree, LocksAgree
      <4>2. Arc(p, R) = 0
        BY <1>2, <4>1 DEF ResourcesAgree, LocksAgree
      <4>3. Share(x, l) \in Nat /\ marking[p] + Share(x, l) =< LockCapacity(l)
        BY <1>2, RoomForTokens
      <4> QED
        BY <1>1, <2>1, <4>1, <4>2, <4>3
    <3> QED
      BY <3>1, <3>2
  <2> QED
    BY <2>2, <2>3
<1>3. ASSUME NEW c \in UNION Range(prog.channel), p = ChannelPlace(c)
      PROVE  Arc(p, R) =< marking[p] /\ (marking[p] - Arc(p, R)) + Arc(p, Q) =< capacity[p]
  <2>1. marking[p] = sent[c] /\ capacity[p] = ChannelCapacity
    BY <1>0, <1>1, <1>3, CapacityNat DEF AlikeNow, ChannelsMirrored, CapacityOf, ChannelPlace
  <2>2. /\ Arc(p, R) = IF Receives(id, c) THEN 1 ELSE 0
        /\ Arc(p, Q) = IF Sends(id, c) THEN 1 ELSE 0
    BY <1>3 DEF ResourcesAgree, OthersAgree
  <2>3. Receives(id, c) => sent[c] > 0
    BY <1>0 DEF Ready, Receives
  <2>4. Sends(id, c) => sent[c] < ChannelCapacity
    BY <1>0 DEF Orderly, Sends
  <2> QED
    BY <1>1, <2>1, <2>2, <2>3, <2>4 DEF ChannelCapacity
<1>4. ASSUME NEW a \in UNION Range(prog.atomic), p = AtomicPlace(a)
      PROVE  Arc(p, R) =< marking[p] /\ (marking[p] - Arc(p, R)) + Arc(p, Q) =< capacity[p]
  <2>1. Arc(p, R) = Arc(p, Q) /\ Arc(p, R) \in {0, 1}
    BY <1>4 DEF ResourcesAgree, OthersAgree
  <2>2. marking[p] = 1
    BY <1>4 DEF AlikeNow, Mirrored
  <2> QED
    BY <1>1, <2>1, <2>2
<1>5. ASSUME NEW c \in UNION Range(prog.condvar), p = CondvarPlace(c)
      PROVE  Arc(p, R) =< marking[p] /\ (marking[p] - Arc(p, R)) + Arc(p, Q) =< capacity[p]
  <2>1. Arc(p, R) = 0 /\ Arc(p, Q) = 0
    BY <1>5 DEF ResourcesAgree, OthersAgree
  <2> QED
    BY <1>1, <2>1
<1> QED
  BY <1>2, <1>3, <1>4, <1>5 DEF SharedPlaces, StartPlace, EndPlace, ControlKinds

LEMMA Offered ==
  ASSUME NEW th, NEW id, Steps(th, id), AlikeNow, ~CondvarStep(id)
  PROVE  id \in DOMAIN trans /\ IsEnabled(id)
<1>0. BuildInv /\ Regular /\ phase = "run"
  BY DEF Steps, Comparable
<1>1. PICK gone, come, R, Q : Effect(th, id, gone, come, R, Q)
  BY AllFollow DEF Follows
<1>2. /\ id \in DOMAIN trans /\ Room(gone, come) /\ come \subseteq Place
      /\ Carried(trans[id].in, gone, R) /\ Carried(trans[id].out, come, Q)
      /\ ResourcesAgree(id, R, Q)
  BY <1>1 DEF Effect
<1>3. SharedPlaces \subseteq Place /\ gone \subseteq Place
  BY <1>0, <1>2, RunNet DEF Room, AlikeNow, Mirrored
<1>4. \A p \in Place : marking[p] \in Nat /\ marking[p] =< capacity[p] /\ capacity[p] \in Nat
                       /\ capacity[p] = CapacityOf(p)
  BY <1>0, CapacityNat DEF AlikeNow, Mirrored
<1>5. \A p : /\ Arc(p, trans[id].in) \in Nat /\ Arc(p, trans[id].out) \in Nat
  BY <1>2 DEF Carried
<1>6. DOMAIN trans[id].in \subseteq Place /\ DOMAIN trans[id].out \subseteq Place
  BY <1>2, <1>3 DEF Carried
<1>7. ASSUME NEW p \in Place, p[1] \in ControlKinds
      PROVE  Arc(p, trans[id].in) =< marking[p] /\ After(id, p) =< capacity[p]
  <2>1. /\ Arc(p, trans[id].in) = IF p \in gone THEN 1 ELSE 0
        /\ Arc(p, trans[id].out) = IF p \in come THEN 1 ELSE 0
    BY <1>2, <1>7 DEF Carried
  <2>2. marking[p] = IF p \in OccupiedPlaces THEN 1 ELSE 0
    BY <1>7 DEF AlikeNow, Mirrored
  <2>3. /\ p \in gone => p \in OccupiedPlaces
        /\ p \in come /\ p \in OccupiedPlaces => p \in gone
    BY <1>2 DEF Room
  <2>4. capacity[p] = 1
    BY <1>4, <1>7 DEF CapacityOf, ControlKinds
  <2> QED
    BY <2>1, <2>2, <2>3, <2>4 DEF After
<1>8. ASSUME NEW p \in DOMAIN trans[id].in \cup DOMAIN trans[id].out, p[1] \notin ControlKinds
      PROVE  Arc(p, trans[id].in) =< marking[p] /\ After(id, p) =< capacity[p]
  <2>1. p \in SharedPlaces /\ Arc(p, trans[id].in) = Arc(p, R) /\ Arc(p, trans[id].out) = Arc(p, Q)
    BY <1>2, <1>8 DEF Carried
  <2>2. Arc(p, R) =< marking[p] /\ (marking[p] - Arc(p, R)) + Arc(p, Q) =< capacity[p]
    BY <1>2, <1>5, <1>8, <2>1, SharedServes
  <2> QED
    BY <2>1, <2>2 DEF After
<1> QED
  BY <1>2, <1>6, <1>7, <1>8 DEF IsEnabled

(* Whatever a thread of a regular program can do next the net can do, but   *)
(* for condition variables: a marking in which nothing is enabled is no     *)
(* false alarm of the deadlock detector, and no step that a thread could    *)
(* take is missing from the state graph.                                    *)
THEOREM NoStepIsMissed ==
  Spec /\ Regular /\ [](HandlesFollowed /\ Orderly) => []NetMissesNoStep
<1>1. Sim /\ Regular /\ Orderly => NetMissesNoStep
  <2> SUFFICES ASSUME Sim, Regular, Orderly, Comparable, NEW th \in NodeFuncs, NEW id \in Labels(th),
                      Ready(th, id), ~CondvarStep(id)
               PROVE  id \in DOMAIN trans /\ IsEnabled(id)
    BY DEF NetMissesNoStep
  <2>1. Steps(th, id) /\ AlikeNow
    BY DEF Sim, Alike, Steps, AlikeNow
  <2> QED
    BY <2>1, Offered
<1> QED
  BY <1>1, AlwaysSim, PTL

-----------------------------------------------------------------------------
(* Whatever is enabled in the net some thread can do. *)

Going == BuildInv /\ Regular /\ Comparable /\ Stacks /\ AlikeNow

(* The transition is one of the block, with the arcs it has there. *)
OfBlock(id, f, b) ==
  /\ id \in DOMAIN trans /\ Shape(id, trans[id])
  /\ f \in Translated /\ f \in NodeFuncs /\ f \in functions
  /\ b \in BlocksOf(f) /\ HasPlace(f, b) /\ id \in IdsOf(f, b)
  /\ TermRegular(f, b) /\ Term(f, b).op \in Ops
  /\ StartPlace(f) \in Place /\ BlockPlace(f, b) \in Place /\ Leaves(f, b) \in Place
  /\ TermPlaces(f, b) \subseteq Place

LEMMA BlockOf ==
  ASSUME Going, NEW id \in DOMAIN trans
  PROVE  \E f, b : OfBlock(id, f, b)
<1>0. BuildInv /\ Regular /\ phase = "run"
  BY DEF Going, Comparable
<1>1. PICK f \in NodeFuncs \ prog.serde : \E b \in BlocksOf(f) : HasPlace(f, b) /\ id \in IdsOf(f, b)
  BY <1>0, RunNet
<1>2. PICK b \in BlocksOf(f) : HasPlace(f, b) /\ id \in IdsOf(f, b)
  BY <1>1
<1>3. f \in Translated /\ Translated \subseteq functions
  BY <1>0, RunNet DEF Regular, Translated
<1>4. TermRegular(f, b) /\ Term(f, b).op \in Ops
  BY <1>0, <1>2, <1>3 DEF Regular, Describable
<1>5. /\ BlockPlace(f, b) \in Place /\ TermPlaces(f, b) \subseteq Place /\ Leaves(f, b) \in Place
      /\ Shape(id, trans[id])
  BY <1>0, <1>2, <1>3, RunNet DEF Leaves
<1>6. StartPlace(f) \in Place
  BY <1>0, <1>3, RunNet DEF SharedPlaces
<1> QED
  BY <1>2, <1>3, <1>4, <1>5, <1>6 DEF OfBlock

(* The control place an enabled transition takes a token from is one where  *)
(* a thread is.                                                             *)
LEMMA Taken ==
  ASSUME Going, NEW id, IsEnabled(id), NEW p \in Place, p[1] \in ControlKinds,
         Arc(p, trans[id].in) \in Nat \ {0}
  PROVE  p \in OccupiedPlaces
<1>1. p \in DOMAIN trans[id].in
  BY DEF Arc
<1>2. Arc(p, trans[id].in) =< marking[p]
  BY <1>1 DEF IsEnabled
<1>3. marking[p] = IF p \in OccupiedPlaces THEN 1 ELSE 0
  BY DEF Going, AlikeNow, Mirrored
<1> QED
  BY <1>2, <1>3

(* The frame of a place. *)
LEMMA FrameAt ==
  ASSUME NEW fr \in Frames, NEW f, NEW b
  PROVE  /\ FramePlace(fr) = StartPlace(f) => fr.at = "entry" /\ fr.f = f
         /\ FramePlace(fr) = EndPlace(f) => fr.at = "end" /\ fr.f = f
         /\ FramePlace(fr) = BlockPlace(f, b) => fr.at = "block" /\ fr.f = f /\ fr.b = b
         /\ FramePlace(fr) = ReadyPlace(f, b) => fr.at = "accessed" /\ fr.f = f /\ fr.b = b
         /\ FramePlace(fr) = OperationPlace(f, b) => fr.at = "operation" /\ fr.f = f /\ fr.b = b
         /\ FramePlace(fr) = WaitPlace(f, b) => fr.at = "await" /\ fr.f = f /\ fr.b = b
  BY DEF Frames, FramePlace, StartPlace, BlockPlace, ReadyPlace, OperationPlace, WaitPlace, EndPlace

LEMMA Occupant ==
  ASSUME Stacks, NEW p \in OccupiedPlaces
  PROVE  \E th \in NodeFuncs : \E i \in DOMAIN stack[th] :
           /\ FramePlace(stack[th][i]) = p
           /\ stack[th][i] \in Frames /\ FrameOk(stack[th][i]) /\ SpotOk(th, i)
           /\ stack[th] # <<>> /\ Len(stack[th]) \in Nat /\ i \in 1 .. Len(stack[th])
<1>1. PICK th \in NodeFuncs : \E i \in DOMAIN stack[th] : Occupies(p, th, i)
  BY OccupiedAre DEF OccupiedIs
<1>2. PICK i \in DOMAIN stack[th] : Occupies(p, th, i)
  BY <1>1
<1>3. /\ stack[th] \in Seq(Frames) /\ stack[th][i] \in Frames /\ SpotOk(th, i)
      /\ i \in 1 .. Len(stack[th]) /\ Len(stack[th]) \in Nat
  BY OnePlace
<1>4. stack[th] # <<>> /\ FrameOk(stack[th][i])
  BY <1>3 DEF SpotOk
<1> QED
  BY <1>2, <1>3, <1>4 DEF Occupies

(* A frame that does not wait is the one its thread goes on from. *)
LEMMA OnTop ==
  ASSUME Stacks, NEW p \in OccupiedPlaces, p[1] # "wait"
  PROVE  \E th \in NodeFuncs :
           /\ stack[th] # <<>> /\ Top(th) \in Frames /\ FrameOk(Top(th))
           /\ FramePlace(Top(th)) = p
<1>1. PICK th \in NodeFuncs : \E i \in DOMAIN stack[th] :
           /\ FramePlace(stack[th][i]) = p
           /\ stack[th][i] \in Frames /\ FrameOk(stack[th][i]) /\ SpotOk(th, i)
           /\ stack[th] # <<>> /\ Len(stack[th]) \in Nat /\ i \in 1 .. Len(stack[th])
  BY Occupant
<1>2. PICK i \in DOMAIN stack[th] :
           /\ FramePlace(stack[th][i]) = p
           /\ stack[th][i] \in Frames /\ FrameOk(stack[th][i]) /\ SpotOk(th, i)
           /\ stack[th] # <<>> /\ Len(stack[th]) \in Nat /\ i \in 1 .. Len(stack[th])
  BY <1>1
<1>3. stack[th][i].at # "await"
  BY <1>2, Placed DEF WaitPlace
<1>4. ~(i < Len(stack[th]))
  BY <1>2, <1>3 DEF SpotOk
<1>5. i = Len(stack[th])
  BY <1>2, <1>4
<1>6. Top(th) = stack[th][i]
  BY <1>2, <1>5, TopFrame
<1> QED
  BY <1>2, <1>6

(* The end of a thread's own function is the end of the thread. *)
LEMMA EndedAt ==
  ASSUME Stacks, NEW g \in Threads, EndPlace(g) \in OccupiedPlaces
  PROVE  stack[g] # <<>> /\ Ended(g)
<1>1. EndPlace(g)[1] # "wait"
  BY DEF EndPlace
<1>2. PICK th \in NodeFuncs :
           /\ stack[th] # <<>> /\ Top(th) \in Frames /\ FrameOk(Top(th))
           /\ FramePlace(Top(th)) = EndPlace(g)
  BY <1>1, OnTop
<1>3. Top(th).at = "end" /\ Top(th).f = g
  BY <1>2, FrameAt
<1>4. Top(th) = stack[th][Len(stack[th])] /\ SpotOk(th, Len(stack[th])) /\ Len(stack[th]) \in Nat \ {0}
  BY <1>2, TopFrame
<1>5. Len(stack[th]) = 1 /\ th = g
  BY <1>3, <1>4 DEF SpotOk
<1> QED
  BY <1>2, <1>3, <1>5 DEF Ended

(* A lock whose tokens are there may be taken. *)
LEMMA TokensFree ==
  ASSUME BuildInv, Regular, phase = "run", AlikeNow,
         NEW own \in {prog.guard[g] : g \in DOMAIN prog.guard},
         Weight(own.kind) =< marking[LockPlace(own.lock)]
  PROVE  Available(own)
<1> SUFFICES ASSUME NEW x \in live, Owner(x).lock = own.lock
             PROVE  "read" = own.kind /\ "read" = Owner(x).kind
  BY DEF Available
<1> DEFINE l == own.lock
           m == marking[LockPlace(l)]
           w == Weighed(live, l)
           z == Weighed(live \ {x}, l)
           k == LockCapacity(l)
<1>1. PICK g \in DOMAIN prog.guard : own = prog.guard[g]
  OBVIOUS
<1>2. l \in Locks
  BY <1>1 DEF Locks
<1>3. m \in Nat /\ w \in Nat /\ k \in Nat /\ m + w = k /\ OwnersOk(live) /\ KindsOk
  BY <1>2, LockBalance
<1>4. z \in Nat /\ w = z + Share(x, l)
  BY <1>3, WeighedLess
<1>5. Share(x, l) = Weight(Owner(x).kind)
  BY DEF Share
<1>6. PICK h \in DOMAIN prog.guard : Owner(x) = prog.guard[h]
  BY <1>3 DEF OwnersOk
<1>7. /\ own.kind \in {"mutex", "read", "write"} /\ Owner(x).kind \in {"mutex", "read", "write"}
      /\ \A y \in DOMAIN prog.guard : prog.guard[y].lock = l =>
           /\ prog.guard[y].kind = "mutex" <=> own.kind = "mutex"
           /\ prog.guard[y].kind = "mutex" <=> Owner(x).kind = "mutex"
  BY <1>1, <1>6 DEF Regular
<1>8. own.kind = "mutex" <=> Owner(x).kind = "mutex"
  BY <1>6, <1>7
<1>9. k = IF own.kind = "mutex" THEN 1 ELSE 10
  BY <1>1, <1>7 DEF LockCapacity, RwLockCapacity
<1>10. Weight("mutex") = 1 /\ Weight("read") = 1 /\ Weight("write") = 10
  BY DEF Weight, RwLockCapacity
<1>11. Weight(own.kind) =< m
  OBVIOUS
<1> HIDE DEF m, w, z, k
<1>12. CASE own.kind = "mutex"
  <2>1. k = 1 /\ Share(x, l) = 1 /\ 1 =< m
    BY <1>5, <1>8, <1>9, <1>10, <1>11, <1>12
  <2> QED
    BY <1>3, <1>4, <2>1
<1>13. CASE own.kind = "write"
  <2>1. k = 10 /\ Share(x, l) \in {1, 10} /\ 10 =< m
    BY <1>5, <1>7, <1>9, <1>10, <1>11, <1>13
  <2> QED
    BY <1>3, <1>4, <2>1
<1>14. CASE own.kind = "read" /\ Owner(x).kind = "write"
  <2>1. k = 10 /\ Share(x, l) = 10 /\ 1 =< m
    BY <1>5, <1>9, <1>10, <1>11, <1>14
  <2> QED
    BY <1>3, <1>4, <2>1
<1> QED
  BY <1>7, <1>8, <1>12, <1>13, <1>14

(* The transition of a terminator is its label. *)
LEMMA LabelledTerm ==
  ASSUME NEW f, NEW b, HasPlace(f, b), TermRegular(f, b), Term(f, b).op \in Ops,
         NEW id \in TermIds(f, b), id[3] \notin {"ret", "atomic"}
  PROVE  /\ id \in TermLabels(f, b)
         /\ id[3] = "call" => /\ id = <<f, b, "call", 0>> /\ Term(f, b).op = "call"
                              /\ ~ExitsProgram(f, Term(f, b)) /\ CallRegular(f, b)
         /\ id[3] = "return" => id[1] = f
<1> DEFINE t == Term(f, b)
<1>1. CASE t.op = "return" /\ Suspends(f, b)
  BY <1>1 DEF TermIds, TermLabels, ExitsProgram, Suspends
<1>2. CASE t.op = "return" /\ ~Suspends(f, b)
  <2>1. ~Block(f, b).pending
    BY <1>2 DEF TermRegular, Suspends
  <2> QED
    BY <1>2, <2>1 DEF TermIds, TermLabels, ExitsProgram, ReturnId
<1>3. CASE t.op = "goto"
  <2>1. t.targets # <<>> /\ (ExitsProgram(f, t) <=> Block(f, t.targets[1]).cleanup)
    BY <1>3 DEF TermRegular, ExitsProgram, Lands
  <2> QED
    BY <1>3, <2>1 DEF TermIds, TermLabels
<1>4. CASE t.op = "assert"
  BY <1>4 DEF TermIds, TermLabels, ExitsProgram
<1>5. CASE t.op = "fallthrough"
  BY <1>5 DEF TermIds, TermLabels, ExitsProgram
<1>6. CASE t.op = "terminal"
  BY <1>6 DEF TermIds, TermLabels, ExitsProgram
<1>7. CASE t.op = "switch"
  <2>1. PICK i \in SwitchTargets(f, b) : id = <<f, b, "switch", i>>
    BY <1>7 DEF TermIds
  <2>2. i \in DOMAIN t.targets /\ ~Excluded(f, t.targets[i])
    BY <2>1 DEF SwitchTargets
  <2>3. CASE b = 0 /\ f \in prog.coroutine
    <3>1. /\ 1 \in DOMAIN t.targets /\ ~Excluded(f, t.targets[1]) /\ i \in Nat \ {0}
      BY <1>7, <2>2, <2>3 DEF TermRegular, HasPlace
    <3>2. i =< 1
      BY <2>1, <2>3, <3>1 DEF SwitchTargets
    <3>3. i = 1
      BY <3>1, <3>2
    <3> QED
      BY <1>7, <2>1, <2>3, <3>3 DEF TermLabels, ExitsProgram
  <2>4. CASE ~(b = 0 /\ f \in prog.coroutine)
    BY <1>7, <2>1, <2>2, <2>4 DEF TermLabels, ExitsProgram
  <2> QED
    BY <2>3, <2>4
<1>8. CASE t.op = "drop"
  BY <1>8 DEF TermIds, TermLabels, ExitsProgram
<1>9. CASE t.op = "call"
  <2>1. Handler(f, t) = "unwind" <=> ExitsProgram(f, t)
    BY <1>9 DEF Handler, ExitsProgram, Recognised
  <2>2. id \in CallIds(f, b, t)
    BY <1>9 DEF TermIds
  <2>3. id = IF ExitsProgram(f, t) THEN <<f, b, "exit", 0>> ELSE <<f, b, "call", 0>>
    BY <2>1, <2>2 DEF CallIds
  <2>4. ~ExitsProgram(f, t) => CallRegular(f, b)
    BY <1>9 DEF TermRegular
  <2>5. id \in TermLabels(f, b)
    BY <1>9, <2>3 DEF TermLabels
  <2> QED
    BY <1>9, <2>3, <2>4, <2>5
<1> QED
  BY <1>1, <1>2, <1>3, <1>4, <1>5, <1>6, <1>7, <1>8, <1>9 DEF Ops

(* Steps that nothing holds up. *)
LEMMA Unhindered ==
  ASSUME Regular, NEW th \in NodeFuncs, NEW id \in Labels(th), id[3] \notin {"call", "ret"},
         id[3] = "return" => id[1] \in NodeFuncs
  PROVE  Ready(th, id)
<1>1. id[3] = "return" => ScopedThreads(id[1]) = {}
  BY DEF ScopedThreads, Regular, Describable
<1>2. Acquired(id) = {} /\ Collected(id) = {}
  BY <1>1 DEF Acquired, Collected
<1> QED
  BY <1>2 DEF Ready

(* A thread that is where the terminator leaves from offers its labels. *)
LEMMA AtTerminator ==
  ASSUME Going, NEW id, NEW f, NEW b, OfBlock(id, f, b), Leaves(f, b) \in OccupiedPlaces
  PROVE  \E th \in NodeFuncs : Labels(th) = TermLabels(f, b)
<1>1. Stacks
  BY DEF Going
<1>2. Leaves(f, b)[1] # "wait"
  BY DEF Leaves, ReadyPlace, BlockPlace
<1>3. PICK th \in NodeFuncs :
           /\ stack[th] # <<>> /\ Top(th) \in Frames /\ FrameOk(Top(th))
           /\ FramePlace(Top(th)) = Leaves(f, b)
  BY <1>1, <1>2, OnTop
<1>4. CASE Accessed(f, b)
  <2>1. Top(th).at = "accessed" /\ Top(th).f = f /\ Top(th).b = b
    BY <1>3, <1>4, FrameAt DEF Leaves
  <2> QED
    BY <1>3, <2>1 DEF Labels
<1>5. CASE ~Accessed(f, b)
  <2>1. Top(th).at = "block" /\ Top(th).f = f /\ Top(th).b = b
    BY <1>3, <1>5, FrameAt DEF Leaves
  <2>2. Block(f, b).accesses = {}
    BY <1>5, AccessesMerged DEF OfBlock, TermRegular, Accessed
  <2> QED
    BY <1>3, <2>1, <2>2 DEF Labels
<1> QED
  BY <1>4, <1>5

LEMMA CountsOne ==
  ASSUME NEW p, NEW B, Arc(p, B) \in Nat
  PROVE  Arc(p, One(p) (+) B) \in Nat \ {0}
<1>1. Arc(p, One(p) (+) B) = 1 + Arc(p, B)
  BY ArcSum, ArcOne
<1> QED
  BY <1>1

(* The transitions of a terminator that are no calls. *)
LEMMA TermAllowed ==
  ASSUME Going, NEW id, NEW f, NEW b, OfBlock(id, f, b), IsEnabled(id),
         id \in TermIds(f, b), id[3] \notin {"call", "ret", "atomic"}
  PROVE  \E th \in NodeFuncs : Ready(th, id)
<1>0. Regular
  BY DEF Going
<1>1. id \in TermLabels(f, b) /\ (id[3] = "return" => id[1] = f)
  BY LabelledTerm DEF OfBlock
<1>2. id[1] = f /\ id[3] \in {"goto", "switch", "drop", "exit", "return"}
      /\ (id[3] # "return" => id[2] = b) /\ (id[3] = "return" => Returns(f, b))
  <2>1. id[1] = f /\ (id[3] = "return" => Returns(f, b)) /\ (id[3] # "return" => id[2] = b)
    BY <1>0, IdsNamed DEF OfBlock, Regular
  <2>2. Term(f, b).op \in Ops
    BY DEF OfBlock
  <2>3. id[3] \in {"goto", "switch", "drop", "exit", "return"}
    <3>1. CASE Term(f, b).op = "call"
      BY <3>1 DEF TermIds, CallIds
    <3>2. CASE Term(f, b).op = "return"
      BY <3>2 DEF TermIds, ReturnId
    <3>3. CASE Term(f, b).op = "switch"
      BY <3>3 DEF TermIds
    <3>4. CASE Term(f, b).op \in Ops \ {"call", "return", "switch"}
      BY <3>4 DEF TermIds, Ops
    <3> QED
      BY <2>2, <3>1, <3>2, <3>3, <3>4
  <2> QED
    BY <2>1, <2>3
<1>3. trans[id].in = One(Leaves(f, b))
  <2>1. Shape(id, trans[id]) /\ b \in BlocksOf(f)
    BY DEF OfBlock
  <2>2. CASE id[3] = "return"
    BY <1>2, <2>1, <2>2 DEF Shape, ReturnShape
  <2>3. CASE id[3] # "return"
    BY <1>2, <2>1, <2>3 DEF Shape, GotoShape, SwitchShape, DropShape, ExitShape
  <2> QED
    BY <2>2, <2>3
<1>4. Leaves(f, b) \in OccupiedPlaces
  <2>1. Arc(Leaves(f, b), trans[id].in) = 1
    BY <1>3, ArcOne
  <2>2. Leaves(f, b) \in Place /\ Leaves(f, b)[1] \in ControlKinds
    BY DEF OfBlock, Leaves, ReadyPlace, BlockPlace, ControlKinds
  <2> QED
    BY <2>1, <2>2, Taken
<1>5. PICK th \in NodeFuncs : Labels(th) = TermLabels(f, b)
  BY <1>4, AtTerminator
<1>6. id \in Labels(th) /\ id[1] \in NodeFuncs
  BY <1>1, <1>2, <1>5 DEF OfBlock
<1> QED
  BY <1>0, <1>6, Unhindered

(* What a call takes: the tokens of the lock, a message, or an end. *)
LEMMA TakesCounted ==
  ASSUME NEW f, NEW t, NEW takes \in CallTakes(f, t), NEW p
  PROVE  Arc(p, takes) \in Nat
<1>1. Arc(p, Tokens(t.dest)) \in Nat
  <2>1. CASE IsGuard(t.dest)
    <3>1. Weight(prog.guard[t.dest].kind) \in Nat
      BY DEF Weight, RwLockCapacity
    <3> QED
      BY <2>1, <3>1, ArcTimes DEF Tokens
  <2>2. CASE ~IsGuard(t.dest)
    BY <2>2, ArcNone DEF Tokens
  <2> QED
    BY <2>1, <2>2
<1>2. Arc(p, None) \in Nat /\ \A q : Arc(p, One(q)) \in Nat
  BY ArcNone, ArcOne
<1> QED
  BY <1>1, <1>2 DEF CallTakes, Channels

(* A call whose thread is there waits for nothing the net has not waited    *)
(* for.                                                                     *)
CallServed(f, b, takes) ==
  /\ CallRegular(f, b) /\ Term(f, b).op = "call" /\ f \in NodeFuncs /\ b \in BlocksOf(f)
  /\ takes \in CallTakes(f, Term(f, b))
  /\ \A p \in DOMAIN takes : Arc(p, takes) =< marking[p]

LEMMA LockServed ==
  ASSUME Going, NEW f, NEW b, NEW takes, CallServed(f, b, takes), Term(f, b).api = "lock"
  PROVE  Available(Owner(Term(f, b).dest))
<1> DEFINE t == Term(f, b)
           x == t.dest
<1>1. Handler(f, t) = "lock"
  BY DEF CallServed, CallRegular
<1>2. IsGuard(x)
  BY <1>1 DEF Handler, Acquires, Recognised
<1>3. takes = Tokens(x)
  BY <1>1 DEF CallServed, CallTakes
<1>4. Owner(x) = prog.guard[x] /\ Owner(x) \in {prog.guard[g] : g \in DOMAIN prog.guard}
  BY <1>2 DEF Owner, IsGuard
<1>5. takes = Times(LockPlace(Owner(x).lock), Weight(Owner(x).kind))
  BY <1>2, <1>3, <1>4 DEF Tokens
<1>6. Weight(Owner(x).kind) =< marking[LockPlace(Owner(x).lock)]
  <2>1. LockPlace(Owner(x).lock) \in DOMAIN takes
    BY <1>5 DEF Times
  <2> QED
    BY <1>5, <2>1, ArcTimes DEF CallServed
<1> QED
  BY <1>4, <1>6, TokensFree DEF Going, Comparable

LEMMA EndServed ==
  ASSUME Going, NEW g \in Translated, g \in Threads, 1 =< marking[EndPlace(g)]
  PROVE  stack[g] # <<>> /\ Ended(g)
<1>1. EndPlace(g) \in Place
  BY RunNet DEF Going, Comparable, SharedPlaces
<1>2. EndPlace(g) \in OccupiedPlaces
  BY <1>1 DEF Going, AlikeNow, Mirrored, EndPlace, ControlKinds
<1> QED
  BY <1>2, EndedAt DEF Going

LEMMA JoinServed ==
  ASSUME Going, NEW f, NEW b, NEW takes, CallServed(f, b, takes), Term(f, b).api = "join"
  PROVE  LET g == prog.thread[Term(f, b).args[1]] IN stack[g] # <<>> /\ Ended(g)
<1> DEFINE t == Term(f, b)
           g == prog.thread[t.args[1]]
<1>1. Handler(f, t) = "join" /\ g \in Translated /\ t.args[1] \in DOMAIN prog.thread
  BY DEF CallServed, CallRegular
<1>2. takes = One(EndPlace(g))
  BY <1>1 DEF CallServed, CallTakes
<1>3. g \in Threads
  BY <1>1 DEF Threads
<1>4. 1 =< marking[EndPlace(g)]
  <2>1. EndPlace(g) \in DOMAIN takes
    BY <1>2, Domains
  <2> QED
    BY <1>2, <2>1, ArcOne DEF CallServed
<1> QED
  BY <1>1, <1>3, <1>4, EndServed

LEMMA RecvServed ==
  ASSUME Going, NEW f, NEW b, NEW takes, CallServed(f, b, takes), Term(f, b).api = "recv"
  PROVE  \A c \in prog.channel[Term(f, b).args[1]] : sent[c] > 0
<1> DEFINE t == Term(f, b)
<1>1. Handler(f, t) = "recv" /\ \E c \in ChannelsOf(t) : ChannelsOf(t) = {c}
  BY DEF CallServed, CallRegular
<1>2. PICK c : ChannelsOf(t) = {c}
  BY <1>1
<1>3. prog.channel[t.args[1]] = {c} /\ t.args[1] \in DOMAIN prog.channel
  BY <1>2 DEF ChannelsOf
<1>4. takes = One(ChannelPlace(c))
  BY <1>1, <1>2 DEF CallServed, CallTakes, Channels
<1>5. 1 =< marking[ChannelPlace(c)]
  <2>1. ChannelPlace(c) \in DOMAIN takes
    BY <1>4, Domains
  <2> QED
    BY <1>4, <2>1, ArcOne DEF CallServed
<1>6. c \in DOMAIN sent
  <2>1. c \in UNION Range(prog.channel)
    BY <1>3 DEF Range
  <2> QED
    BY <2>1 DEF Going, AlikeNow, ChannelsMirrored
<1>7. sent[c] > 0
  BY <1>5, <1>6 DEF Going, AlikeNow, ChannelsMirrored
<1> QED
  BY <1>3, <1>7

(* The transition of a call. *)
LEMMA CallAllowed ==
  ASSUME Going, NEW id, NEW f, NEW b, OfBlock(id, f, b), IsEnabled(id),
         id \in TermIds(f, b), id[3] = "call"
  PROVE  \E th \in NodeFuncs : Ready(th, id)
<1> DEFINE t == Term(f, b)
<1>1. /\ id \in TermLabels(f, b) /\ id = <<f, b, "call", 0>> /\ t.op = "call"
      /\ CallRegular(f, b)
  BY LabelledTerm DEF OfBlock
<1>2. TermOf(id) = t
  BY <1>1 DEF TermOf
<1>3. CallShape(f, b, trans[id])
  BY <1>1 DEF OfBlock, Shape
<1>4. Leaves(f, b) \in Place /\ Leaves(f, b)[1] \in ControlKinds /\ f \in NodeFuncs /\ b \in BlocksOf(f)
  BY DEF OfBlock, Leaves, ReadyPlace, BlockPlace, ControlKinds
<1>5. t.api \in {"lock", "join", "recv"} =>
        \E takes \in CallTakes(f, t) : trans[id].in = One(Leaves(f, b)) (+) takes
  <2> SUFFICES ASSUME t.api \in {"lock", "join", "recv"}
               PROVE  \E takes \in CallTakes(f, t) : trans[id].in = One(Leaves(f, b)) (+) takes
    OBVIOUS
  <2>1. Handler(f, t) = t.api
    BY <1>1 DEF CallRegular
  <2>2. ~OnAtomic(f, t) /\ Handler(f, t) # "panic"
    BY <2>1 DEF OnAtomic
  <2> QED
    BY <1>3, <2>2 DEF CallShape
<1>6. Arc(Leaves(f, b), trans[id].in) \in Nat \ {0}
  <2>1. CASE trans[id].in = One(Leaves(f, b))
    BY <2>1, ArcOne
  <2>2. CASE \E takes \in CallTakes(f, t) : trans[id].in = One(Leaves(f, b)) (+) takes
    BY <2>2, TakesCounted, CountsOne
  <2> QED
    BY <1>3, <2>1, <2>2 DEF CallShape
<1>7. PICK th \in NodeFuncs : Labels(th) = TermLabels(f, b)
  BY <1>4, <1>6, Taken, AtTerminator
<1>8. ASSUME t.api \in {"lock", "join", "recv"}
      PROVE  \E takes : CallServed(f, b, takes)
  <2>1. PICK takes \in CallTakes(f, t) : trans[id].in = One(Leaves(f, b)) (+) takes
    BY <1>5, <1>8
  <2>2. ASSUME NEW p \in DOMAIN takes PROVE Arc(p, takes) =< marking[p]
    <3>1. p \in DOMAIN trans[id].in
      BY <2>1 DEF (+)
    <3>2. Arc(p, trans[id].in) =< marking[p]
      BY <3>1 DEF IsEnabled
    <3>3. Arc(p, trans[id].in) = Arc(p, One(Leaves(f, b))) + Arc(p, takes)
      BY <2>1, ArcSum
    <3>4. Arc(p, One(Leaves(f, b))) \in {0, 1} /\ Arc(p, takes) \in Nat
      BY ArcOne, TakesCounted
    <3>5. CASE p = Leaves(f, b)
      <4>1. marking[p] \in Nat
        BY <1>4, <3>5 DEF Going, AlikeNow, Mirrored
      <4> QED
        BY <3>2, <3>3, <3>4, <4>1
    <3>6. CASE p # Leaves(f, b)
      <4>1. Arc(p, trans[id].in) = Arc(p, takes)
        BY <3>3, <3>4, <3>6, ArcOne
      <4> QED
        BY <3>2, <4>1
    <3> QED
      BY <3>5, <3>6
  <2> QED
    BY <1>1, <1>4, <2>1, <2>2 DEF CallServed
<1>9. \A x \in Acquired(id) : Available(Owner(x))
  <2>1. Acquired(id) # {} => t.api = "lock" /\ Acquired(id) = {t.dest}
    BY <1>1, <1>2 DEF Acquired
  <2> QED
    BY <1>8, <2>1, LockServed
<1>10. \A g \in Collected(id) : stack[g] # <<>> /\ Ended(g)
  <2>1. t.api # "scopeJoin"
    BY <1>1 DEF CallRegular
  <2>2. Collected(id) # {} => t.api = "join" /\ Collected(id) = {prog.thread[t.args[1]]}
    BY <1>1, <1>2, <2>1 DEF Collected
  <2> QED
    BY <1>8, <2>2, JoinServed
<1>11. t.api = "recv" => \A c \in prog.channel[t.args[1]] : sent[c] > 0
  BY <1>8, RecvServed
<1> QED
  BY <1>1, <1>2, <1>7, <1>9, <1>10, <1>11 DEF Ready

(* The transition of an operation on an atomic. *)
LEMMA AtomicAllowed ==
  ASSUME Going, NEW id, NEW f, NEW b, OfBlock(id, f, b), IsEnabled(id),
         id \in TermIds(f, b), id[3] = "atomic"
  PROVE  \E th \in NodeFuncs : Ready(th, id)
<1> DEFINE t == Term(f, b)
           p == OperationPlace(f, b)
<1>1. t.op = "call"
  BY DEF OfBlock, TermIds, ReturnId, Ops
<1>2. OnAtomic(f, t) /\ \E a \in AtomicsOf(t.args[1]) : id = <<f, b, "atomic", a>>
  BY <1>1 DEF TermIds, CallIds
<1>3. PICK a \in AtomicsOf(t.args[1]) : id = <<f, b, "atomic", a>>
  BY <1>2
<1>4. trans[id].in = (One(p) (+) One(AtomicPlace(a))) (+) None
  BY <1>3 DEF OfBlock, Shape, AtomicShape
<1>5. Arc(p, trans[id].in) \in Nat \ {0}
  <2>1. Arc(p, One(p) (+) One(AtomicPlace(a))) \in Nat \ {0}
    BY ArcOne, CountsOne
  <2> QED
    BY <1>4, <2>1, ArcSum, ArcNone
<1>6. p \in Place /\ p[1] \in ControlKinds /\ p[1] # "wait"
  <2>1. p \in TermPlaces(f, b)
    BY <1>1, <1>2 DEF TermPlaces, OnAtomic, ComesBack
  <2> QED
    BY <2>1 DEF OfBlock, OperationPlace, ControlKinds
<1>7. p \in OccupiedPlaces
  BY <1>5, <1>6, Taken
<1>8. PICK th \in NodeFuncs :
           /\ stack[th] # <<>> /\ Top(th) \in Frames /\ FrameOk(Top(th))
           /\ FramePlace(Top(th)) = p
  BY <1>6, <1>7, OnTop DEF Going
<1>9. Top(th).at = "operation" /\ Top(th).f = f /\ Top(th).b = b
  BY <1>8, FrameAt
<1>10. id \in Labels(th)
  BY <1>3, <1>8, <1>9 DEF Labels
<1> QED
  BY <1>3, <1>10, Unhindered DEF Going

(* Where a call is that comes back. *)
LEMMA RetOf ==
  ASSUME Going, NEW id, NEW f, NEW b, OfBlock(id, f, b), IsEnabled(id),
         id \in TermIds(f, b), id[3] = "ret"
  PROVE  /\ id = <<f, b, "ret", 0>> /\ TermOf(id) = Term(f, b) /\ CallRegular(f, b)
         /\ Term(f, b).op = "call" /\ ComesBack(f, Term(f, b)) /\ Lands(f, Term(f, b))
         /\ \A p \in DOMAIN RetTakes(f, Term(f, b)) :
              Arc(p, RetTakes(f, Term(f, b))) \in Nat => Arc(p, RetTakes(f, Term(f, b))) =< marking[p]
         /\ Arc(WaitPlace(f, b), RetTakes(f, Term(f, b))) \in Nat => WaitPlace(f, b) \in OccupiedPlaces
<1> DEFINE t == Term(f, b)
           takes == RetTakes(f, t)
           w == WaitPlace(f, b)
<1>1. t.op = "call"
  BY DEF OfBlock, TermIds, ReturnId, Ops
<1>2. ComesBack(f, t) /\ id = <<f, b, "ret", 0>> /\ Handler(f, t) # "unwind"
  BY <1>1 DEF TermIds, CallIds
<1>3. ~ExitsProgram(f, t)
  BY <1>1, <1>2 DEF ExitsProgram, Handler
<1>4. CallRegular(f, b)
  BY <1>1, <1>3 DEF OfBlock, TermRegular
<1>5. Lands(f, t)
  <2>1. t.api # "panic"
    BY <1>2, <1>4 DEF CallRegular, ComesBack
  <2> QED
    BY <1>4, <2>1 DEF CallRegular
<1>6. trans[id].in = One(w) (+) takes
  BY <1>2 DEF OfBlock, Shape, RetShape
<1>7. w \in Place /\ w[1] \in ControlKinds
  <2>1. w \in TermPlaces(f, b)
    BY <1>1, <1>2 DEF TermPlaces
  <2> QED
    BY <2>1 DEF OfBlock, WaitPlace, ControlKinds
<1>8. marking[w] \in Nat
  BY <1>7 DEF Going, AlikeNow, Mirrored
<1> HIDE DEF takes
<1>9. ASSUME NEW p \in DOMAIN takes, Arc(p, takes) \in Nat PROVE Arc(p, takes) =< marking[p]
  <2>1. p \in DOMAIN trans[id].in
    BY <1>6 DEF (+)
  <2>2. Arc(p, trans[id].in) =< marking[p]
    BY <2>1 DEF IsEnabled
  <2>3. Arc(p, trans[id].in) = Arc(p, One(w)) + Arc(p, takes)
    BY <1>6, ArcSum
  <2>4. CASE p = w
    BY <1>8, <1>9, <2>2, <2>3, <2>4, ArcOne
  <2>5. CASE p # w
    <3>1. Arc(p, trans[id].in) = Arc(p, takes)
      BY <1>9, <2>3, <2>5, ArcOne
    <3> QED
      BY <2>2, <3>1
  <2> QED
    BY <2>4, <2>5
<1>10. ASSUME Arc(w, takes) \in Nat PROVE w \in OccupiedPlaces
  BY <1>6, <1>7, <1>10, CountsOne, Taken
<1>11. TermOf(id) = t
  BY <1>2 DEF TermOf
<1> QED
  BY <1>1, <1>2, <1>4, <1>5, <1>9, <1>10, <1>11 DEF takes

(* The frame that waits at the call. *)
LEMMA Awaits ==
  ASSUME Stacks, NEW f, NEW b, WaitPlace(f, b) \in OccupiedPlaces
  PROVE  \E th \in NodeFuncs : \E i \in DOMAIN stack[th] :
           LET fr == stack[th][i] IN
           /\ fr.f = f /\ fr.b = b /\ fr.at = "await" /\ SpotOk(th, i)
           /\ stack[th] # <<>> /\ Len(stack[th]) \in Nat /\ i \in 1 .. Len(stack[th])
           /\ i = Len(stack[th]) => Top(th) = fr
<1>1. PICK th \in NodeFuncs : \E i \in DOMAIN stack[th] :
           /\ FramePlace(stack[th][i]) = WaitPlace(f, b)
           /\ stack[th][i] \in Frames /\ FrameOk(stack[th][i]) /\ SpotOk(th, i)
           /\ stack[th] # <<>> /\ Len(stack[th]) \in Nat /\ i \in 1 .. Len(stack[th])
  BY Occupant
<1>2. PICK i \in DOMAIN stack[th] :
           /\ FramePlace(stack[th][i]) = WaitPlace(f, b)
           /\ stack[th][i] \in Frames /\ FrameOk(stack[th][i]) /\ SpotOk(th, i)
           /\ stack[th] # <<>> /\ Len(stack[th]) \in Nat /\ i \in 1 .. Len(stack[th])
  BY <1>1
<1>3. stack[th][i].f = f /\ stack[th][i].b = b /\ stack[th][i].at = "await"
  BY <1>2, FrameAt
<1>4. i = Len(stack[th]) => Top(th) = stack[th][i]
  BY <1>2, TopFrame
<1> QED
  BY <1>2, <1>3, <1>4

(* Nobody is called by a call that waits for itself. *)
LEMMA AwaitsItself ==
  ASSUME Stacks, NEW id, NEW f, NEW b, id = <<f, b, "ret", 0>>, WaitPlace(f, b) \in OccupiedPlaces,
         Term(f, b).api \in {"wait", "rayonJoin"}
  PROVE  \E th \in NodeFuncs : id \in Labels(th)
<1>1. PICK th \in NodeFuncs : \E i \in DOMAIN stack[th] :
           LET fr == stack[th][i] IN
           /\ fr.f = f /\ fr.b = b /\ fr.at = "await" /\ SpotOk(th, i)
           /\ stack[th] # <<>> /\ Len(stack[th]) \in Nat /\ i \in 1 .. Len(stack[th])
           /\ i = Len(stack[th]) => Top(th) = fr
  BY Awaits
<1>2. PICK i \in DOMAIN stack[th] :
           LET fr == stack[th][i] IN
           /\ fr.f = f /\ fr.b = b /\ fr.at = "await" /\ SpotOk(th, i)
           /\ stack[th] # <<>> /\ Len(stack[th]) \in Nat /\ i \in 1 .. Len(stack[th])
           /\ i = Len(stack[th]) => Top(th) = fr
  BY <1>1
<1>3. Callee(Term(f, b)) = {}
  BY DEF Callee
<1>4. ~(i < Len(stack[th]))
  BY <1>2, <1>3 DEF SpotOk
<1>5. i = Len(stack[th])
  BY <1>2, <1>4
<1> QED
  BY <1>2, <1>5 DEF Labels

(* A wait has the condition variable's lock before it goes on. *)
LEMMA WaitAllowed ==
  ASSUME Going, NEW id, NEW f, NEW b, OfBlock(id, f, b), IsEnabled(id),
         id \in TermIds(f, b), id[3] = "ret", Term(f, b).api = "wait"
  PROVE  \E th \in NodeFuncs : Ready(th, id)
<1> DEFINE t == Term(f, b)
           x == t.args[2]
           lock == LockPlace(prog.guard[x].lock)
           cs == OneEach({CondvarPlace(c) : c \in CondvarsOf(t)})
<1>1. /\ id = <<f, b, "ret", 0>> /\ TermOf(id) = t /\ CallRegular(f, b) /\ t.op = "call"
  BY RetOf
<1>2. Handler(f, t) = "wait" /\ IsGuard(x) /\ Owner(x).kind = "mutex" /\ Owner(t.dest) = Owner(x)
  BY <1>1 DEF CallRegular
<1>3. RetTakes(f, t) = One(lock) (+) cs
  BY <1>2 DEF RetTakes, WaitLock
<1>4. \A p : Arc(p, RetTakes(f, t)) \in Nat
  <2>1. \A p : Arc(p, One(lock)) \in Nat /\ Arc(p, cs) \in Nat
    BY ArcOne, ArcOneEach
  <2> HIDE DEF cs, lock
  <2> QED
    BY <1>3, <2>1, ArcSum
<1>5. WaitPlace(f, b) \in OccupiedPlaces
  BY <1>4, RetOf
<1>6. 1 =< marking[lock]
  <2>1. lock \in DOMAIN RetTakes(f, t)
    <3>1. lock \in DOMAIN One(lock)
      BY Domains
    <3> HIDE DEF lock, cs
    <3> QED
      BY <1>3, <3>1 DEF (+)
  <2>2. Arc(lock, RetTakes(f, t)) =< marking[lock]
    BY <1>4, <2>1, RetOf
  <2>3. Arc(lock, RetTakes(f, t)) \in Nat \ {0}
    <3>1. Arc(lock, cs) \in Nat
      BY ArcOneEach
    <3> HIDE DEF lock, cs
    <3> QED
      BY <1>3, <3>1, CountsOne
  <2>4. lock \in Place
    BY <1>2, RunNet DEF Going, Comparable, SharedPlaces, Locks, IsGuard
  <2>5. marking[lock] \in Nat
    BY <2>4 DEF Going, AlikeNow, Mirrored
  <2> QED
    BY <2>2, <2>3, <2>5
<1>7. Available(Owner(t.dest))
  <2>1. Owner(t.dest) = prog.guard[x] /\ x \in DOMAIN prog.guard
    BY <1>2 DEF Owner, IsGuard
  <2>2. Weight(Owner(t.dest).kind) =< marking[LockPlace(Owner(t.dest).lock)]
    BY <1>2, <1>6, <2>1 DEF Weight
  <2> QED
    BY <2>1, <2>2, TokensFree DEF Going, Comparable
<1>8. PICK th \in NodeFuncs : id \in Labels(th)
  BY <1>1, <1>5, AwaitsItself DEF Going
<1>9. Acquired(id) = {t.dest} /\ Collected(id) = {}
  BY <1>1 DEF Acquired, Collected
<1> QED
  BY <1>1, <1>7, <1>8, <1>9 DEF Ready

(* A fork has both closures before it goes on. *)
LEMMA ForkAllowed ==
  ASSUME Going, NEW id, NEW f, NEW b, OfBlock(id, f, b), IsEnabled(id),
         id \in TermIds(f, b), id[3] = "ret", Term(f, b).api = "rayonJoin"
  PROVE  \E th \in NodeFuncs : Ready(th, id)
<1> DEFINE t == Term(f, b)
           gs == ClosureArgs(t)
<1>1. /\ id = <<f, b, "ret", 0>> /\ TermOf(id) = t /\ CallRegular(f, b) /\ t.op = "call"
  BY RetOf
<1>2. Handler(f, t) = "rayonJoin" /\ gs \subseteq Translated
  BY <1>1 DEF CallRegular
<1>3. Translated \subseteq functions
  BY RunNet DEF Going, Comparable
<1>4. RetTakes(f, t) = OneEach({EndPlace(g) : g \in gs})
  <2>1. gs \cap functions = gs
    BY <1>2, <1>3
  <2> QED
    BY <1>2, <2>1 DEF RetTakes, Ends
<1>5. \A p : Arc(p, RetTakes(f, t)) \in Nat
  BY <1>4, ArcOneEach
<1>6. WaitPlace(f, b) \in OccupiedPlaces
  BY <1>5, RetOf
<1>7. ASSUME NEW g \in gs PROVE stack[g] # <<>> /\ Ended(g)
  <2>1. EndPlace(g) \in DOMAIN RetTakes(f, t) /\ Arc(EndPlace(g), RetTakes(f, t)) = 1
    BY <1>4, Domains, ArcOneEach
  <2>2. 1 =< marking[EndPlace(g)]
    BY <1>5, <2>1, RetOf
  <2>3. g \in Threads
    <3>1. g \in Started(<<f, b, "call", 0>>)
      BY <1>1 DEF Started, TermOf
    <3> QED
      BY <3>1 DEF Threads, OfBlock
  <2> QED
    BY <1>2, <2>2, <2>3, EndServed
<1>8. PICK th \in NodeFuncs : id \in Labels(th)
  BY <1>1, <1>6, AwaitsItself DEF Going
<1>9. Acquired(id) = {} /\ Collected(id) = gs
  BY <1>1 DEF Acquired, Collected
<1> QED
  BY <1>1, <1>7, <1>8, <1>9 DEF Ready

(* A call that has called comes back when what it called has ended.         *)
LEMMA BackAllowed ==
  ASSUME Going, NEW id, NEW f, NEW b, OfBlock(id, f, b), IsEnabled(id),
         id \in TermIds(f, b), id[3] = "ret", Term(f, b).api = "plain"
  PROVE  \E th \in NodeFuncs : Ready(th, id)
<1> DEFINE t == Term(f, b)
<1>1. /\ id = <<f, b, "ret", 0>> /\ TermOf(id) = t /\ CallRegular(f, b) /\ t.op = "call"
      /\ ComesBack(f, t) /\ Lands(f, t)
  BY RetOf
<1>2. Handler(f, t) = "normal"
  BY <1>1 DEF CallRegular
<1>3. /\ CalleeOf(t) = Callee(t) /\ Callee(t) \subseteq Translated
      /\ Callee(t) = {} \/ \E g : Callee(t) = {g}
  BY <1>1, CalleeAgrees DEF Going, Comparable
<1>4. CalleeOf(t) # {}
  BY <1>1, <1>2 DEF ComesBack
<1>5. PICK g : Callee(t) = {g}
  BY <1>3, <1>4
<1>6. RetTakes(f, t) = OneEach({EndPlace(g)})
  <2>1. RetTakes(f, t) = Ends({g})
    BY <1>1, <1>2, <1>3, <1>5 DEF RetTakes, Lands
  <2>2. {EndPlace(h) : h \in {g}} = {EndPlace(g)}
    OBVIOUS
  <2> QED
    BY <2>1, <2>2 DEF Ends
<1>7. \A p : Arc(p, RetTakes(f, t)) \in Nat
  BY <1>6, ArcOneEach
<1>8. WaitPlace(f, b) \in OccupiedPlaces
  BY <1>7, RetOf
<1>9. EndPlace(g) \in OccupiedPlaces
  <2>1. EndPlace(g) \in DOMAIN RetTakes(f, t)
    BY <1>6 DEF OneEach, SetToBag
  <2>2. Arc(EndPlace(g), RetTakes(f, t)) = 1
    BY <1>6, ArcOneEach
  <2>3. 1 =< marking[EndPlace(g)]
    BY <1>7, <2>1, <2>2, RetOf
  <2>4. EndPlace(g) \in Place
    BY <1>3, <1>5, RunNet DEF Going, Comparable, SharedPlaces
  <2> QED
    BY <2>3, <2>4 DEF Going, AlikeNow, Mirrored, EndPlace, ControlKinds
<1>10. PICK th \in NodeFuncs : \E i \in DOMAIN stack[th] :
           LET fr == stack[th][i] IN
           /\ fr.f = f /\ fr.b = b /\ fr.at = "await" /\ SpotOk(th, i)
           /\ stack[th] # <<>> /\ Len(stack[th]) \in Nat /\ i \in 1 .. Len(stack[th])
           /\ i = Len(stack[th]) => Top(th) = fr
  BY <1>8, Awaits DEF Going
<1>11. PICK i \in DOMAIN stack[th] :
           LET fr == stack[th][i] IN
           /\ fr.f = f /\ fr.b = b /\ fr.at = "await" /\ SpotOk(th, i)
           /\ stack[th] # <<>> /\ Len(stack[th]) \in Nat /\ i \in 1 .. Len(stack[th])
           /\ i = Len(stack[th]) => Top(th) = fr
  BY <1>10
<1>12. i < Len(stack[th]) /\ stack[th][i + 1].f = g
  <2>1. i # Len(stack[th])
    BY <1>11 DEF SpotOk
  <2>2. i < Len(stack[th])
    BY <1>11, <2>1
  <2>3. Callee(t) = {stack[th][i + 1].f}
    BY <1>11, <2>2 DEF SpotOk
  <2> QED
    BY <1>5, <2>2, <2>3
<1>13. PICK other \in NodeFuncs :
           /\ stack[other] # <<>> /\ Top(other) \in Frames /\ FrameOk(Top(other))
           /\ FramePlace(Top(other)) = EndPlace(g)
  <2>1. EndPlace(g)[1] # "wait"
    BY DEF EndPlace
  <2> QED
    BY <1>9, <2>1, OnTop DEF Going
<1>14. Top(other).at = "end" /\ Top(other).f = g
  BY <1>13, FrameAt
<1>15. /\ Len(stack[other]) \in DOMAIN stack[other] /\ Top(other) = stack[other][Len(stack[other])]
  BY <1>13, TopFrame DEF Going
<1>16. i + 1 \in DOMAIN stack[th]
  <2>1. DOMAIN stack[th] = 1 .. Len(stack[th])
    BY <1>11, TopFrame DEF Going
  <2> QED
    BY <1>11, <1>12, <2>1
<1>17. other = th /\ i + 1 = Len(stack[th])
  BY <1>12, <1>14, <1>15, <1>16 DEF Going, Stacks
<1>18. Len(stack[th]) # 1 /\ Len(stack[th]) - 1 = i
  <2> DEFINE n == Len(stack[th])
  <2>1. n \in Nat /\ i \in 1 .. n /\ i + 1 = n
    BY <1>11, <1>17
  <2> HIDE DEF n
  <2>2. n # 1 /\ n - 1 = i
    BY ONLY <2>1
  <2> QED
    BY <2>2 DEF n
<1>19. Caller(th) = stack[th][i]
  BY <1>18 DEF Caller
<1>20. id \in Labels(th)
  BY <1>1, <1>11, <1>14, <1>17, <1>18, <1>19 DEF Labels
<1>21. Acquired(id) = {} /\ Collected(id) = {}
  BY <1>1 DEF Acquired, Collected
<1> QED
  BY <1>1, <1>20, <1>21 DEF Ready

(* The transitions of the start and of the accesses of a block. *)
LEMMA BeginAllowed ==
  ASSUME Going, NEW id, NEW f, NEW b, OfBlock(id, f, b), IsEnabled(id), id \in StartIds(f, b)
  PROVE  \E th \in NodeFuncs : Ready(th, id)
<1>1. id = <<f, 0, "start", 0>>
  BY DEF StartIds
<1>2. trans[id].in = One(StartPlace(f))
  BY <1>1 DEF OfBlock, Shape, StartShape
<1>3. StartPlace(f) \in OccupiedPlaces
  <2>1. Arc(StartPlace(f), trans[id].in) = 1
    BY <1>2, ArcOne
  <2>2. StartPlace(f) \in Place /\ StartPlace(f)[1] \in ControlKinds
    BY DEF OfBlock, StartPlace, ControlKinds
  <2> QED
    BY <2>1, <2>2, Taken
<1>4. PICK th \in NodeFuncs :
           /\ stack[th] # <<>> /\ Top(th) \in Frames /\ FrameOk(Top(th))
           /\ FramePlace(Top(th)) = StartPlace(f)
  <2>1. StartPlace(f)[1] # "wait"
    BY DEF StartPlace
  <2> QED
    BY <1>3, <2>1, OnTop DEF Going
<1>5. Top(th).at = "entry" /\ Top(th).f = f
  BY <1>4, FrameAt
<1>6. id \in Labels(th)
  BY <1>1, <1>4, <1>5 DEF Labels
<1> QED
  BY <1>1, <1>6, Unhindered DEF Going

LEMMA AccessAllowed ==
  ASSUME Going, NEW id, NEW f, NEW b, OfBlock(id, f, b), IsEnabled(id), id \in StmtIds(f, b)
  PROVE  \E th \in NodeFuncs : Ready(th, id)
<1>1. id = <<f, b, "unsafe", 0>> /\ Accessed(f, b)
  BY DEF StmtIds
<1>2. trans[id].in = One(BlockPlace(f, b))
  BY <1>1 DEF OfBlock, Shape, AccessShape
<1>3. BlockPlace(f, b) \in OccupiedPlaces
  <2>1. Arc(BlockPlace(f, b), trans[id].in) = 1
    BY <1>2, ArcOne
  <2>2. BlockPlace(f, b) \in Place /\ BlockPlace(f, b)[1] \in ControlKinds
    BY DEF OfBlock, BlockPlace, ControlKinds
  <2> QED
    BY <2>1, <2>2, Taken
<1>4. PICK th \in NodeFuncs :
           /\ stack[th] # <<>> /\ Top(th) \in Frames /\ FrameOk(Top(th))
           /\ FramePlace(Top(th)) = BlockPlace(f, b)
  <2>1. BlockPlace(f, b)[1] # "wait"
    BY DEF BlockPlace
  <2> QED
    BY <1>3, <2>1, OnTop DEF Going
<1>5. Top(th).at = "block" /\ Top(th).f = f /\ Top(th).b = b
  BY <1>4, FrameAt
<1>6. Block(f, b).accesses # {}
  BY <1>1 DEF Accessed, Merged
<1>7. id \in Labels(th)
  BY <1>1, <1>4, <1>5, <1>6 DEF Labels
<1> QED
  BY <1>1, <1>7, Unhindered DEF Going

LEMMA Allowed ==
  ASSUME Going, NEW id \in DOMAIN trans, IsEnabled(id)
  PROVE  \E th \in NodeFuncs : Ready(th, id)
<1>1. PICK f, b : OfBlock(id, f, b)
  BY BlockOf
<1>2. CASE id \in StartIds(f, b)
  BY <1>1, <1>2, BeginAllowed
<1>3. CASE id \in StmtIds(f, b)
  BY <1>1, <1>3, AccessAllowed
<1>4. CASE id \in TermIds(f, b) /\ id[3] \notin {"call", "ret", "atomic"}
  BY <1>1, <1>4, TermAllowed
<1>5. CASE id \in TermIds(f, b) /\ id[3] = "call"
  BY <1>1, <1>5, CallAllowed
<1>6. CASE id \in TermIds(f, b) /\ id[3] = "atomic"
  BY <1>1, <1>6, AtomicAllowed
<1>7. CASE id \in TermIds(f, b) /\ id[3] = "ret"
  <2>1. CallRegular(f, b) /\ ComesBack(f, Term(f, b))
    BY <1>1, <1>7, RetOf
  <2>2. Term(f, b).api \in {"wait", "rayonJoin", "plain"}
    BY <2>1 DEF CallRegular, ComesBack
  <2> QED
    BY <1>1, <1>7, <2>2, WaitAllowed, ForkAllowed, BackAllowed
<1>8. id \in IdsOf(f, b)
  BY <1>1 DEF OfBlock
<1> QED
  BY <1>2, <1>3, <1>4, <1>5, <1>6, <1>7, <1>8 DEF IdsOf

(* Whatever is enabled in the net of a regular program some thread can do   *)
(* next: no transition gets past a lock that is held, a thread that has not *)
(* ended, an empty channel or a callee that runs, so a deadlock of the      *)
(* program is a marking in which nothing is enabled.                        *)
THEOREM OnlyTheProgramRuns ==
  Spec /\ Regular /\ [](HandlesFollowed /\ Orderly) => []NetAllowsOnlyProgram
<1>1. Sim /\ Regular => NetAllowsOnlyProgram
  <2> SUFFICES ASSUME Sim, Regular, Comparable, NEW id \in DOMAIN trans, IsEnabled(id)
               PROVE  \E th \in NodeFuncs : Ready(th, id)
    BY DEF NetAllowsOnlyProgram
  <2>1. Going
    BY DEF Sim, Alike, Going, AlikeNow
  <2> QED
    BY <2>1, Allowed
<1> QED
  BY <1>1, AlwaysSim, PTL

-----------------------------------------------------------------------------
(* Races: what is accessed in a marking is what the threads are about to    *)
(* access.                                                                  *)

Accesses(id, op) ==
  /\ id \in DOMAIN trans /\ trans[id].type = "UnsafeAccess" /\ IsEnabled(id)
  /\ op \in trans[id].ops

Writes(op, other) == op[2] \/ other[2]

LEMMA ReportedPair ==
  ASSUME NEW v
  PROVE  RaceReported(v) <=>
           \E x, y, op, other : /\ Accesses(x, op) /\ Accesses(y, other)
                                /\ op[1] = v /\ other[1] = v
                                /\ Site(x) # Site(y) /\ Writes(op, other)
<1> DEFINE of(x, op) == [var |-> op[1], write |-> op[2], site |-> Site(x)]
<1>1. \A a : a \in StateAccesses <=> \E x, op : Accesses(x, op) /\ a = of(x, op)
  BY DEF StateAccesses, Accesses
<1>2. ASSUME RaceReported(v)
      PROVE  \E x, y, op, other : /\ Accesses(x, op) /\ Accesses(y, other)
                                  /\ op[1] = v /\ other[1] = v
                                  /\ Site(x) # Site(y) /\ Writes(op, other)
  <2>1. PICK pair \in AccessesTo(v) \X AccessesTo(v) :
          pair[1].site # pair[2].site /\ (pair[1].write \/ pair[2].write)
    BY <1>2, Zenon DEF RaceReported, CandidatePairs
  <2>2. pair[1] \in StateAccesses /\ pair[2] \in StateAccesses /\ pair[1].var = v /\ pair[2].var = v
    BY <2>1 DEF AccessesTo
  <2>3. PICK x, op : Accesses(x, op) /\ pair[1] = of(x, op)
    BY <1>1, <2>2
  <2>4. PICK y, other : Accesses(y, other) /\ pair[2] = of(y, other)
    BY <1>1, <2>2
  <2>5. pair[1].write = op[2] /\ pair[2].write = other[2]
    <3>1. \A z, o : of(z, o).write = o[2]
      OBVIOUS
    <3> QED
      BY <2>3, <2>4, <3>1
  <2>6. Writes(op, other)
    BY <2>1, <2>5, Zenon DEF Writes
  <2>7. op[1] = v /\ other[1] = v /\ Site(x) # Site(y)
    BY <2>1, <2>2, <2>3, <2>4
  <2> QED
    BY <2>3, <2>4, <2>6, <2>7
<1>3. ASSUME NEW x, NEW y, NEW op, NEW other, Accesses(x, op), Accesses(y, other),
             op[1] = v, other[1] = v, Site(x) # Site(y), Writes(op, other)
      PROVE  RaceReported(v)
  <2> DEFINE pair == <<of(x, op), of(y, other)>>
  <2>1. of(x, op) \in AccessesTo(v) /\ of(y, other) \in AccessesTo(v)
    BY <1>1, <1>3 DEF AccessesTo
  <2>2. pair[1].site # pair[2].site
    BY <1>3
  <2>3. pair[1].write \/ pair[2].write
    BY <1>3, Zenon DEF Writes
  <2>4. pair \in AccessesTo(v) \X AccessesTo(v)
    BY <2>1
  <2> HIDE DEF pair
  <2>5. pair \in CandidatePairs(v)
    BY <2>2, <2>3, <2>4, Zenon DEF CandidatePairs
  <2> QED
    BY <2>5 DEF RaceReported
<1> QED
  BY <1>2, <1>3

(* An access that is enabled is that of a thread.                           *)
LEMMA AccessedBy ==
  ASSUME Going, NEW id, NEW op, Accesses(id, op)
  PROVE  \E th \in NodeFuncs :
           /\ id \in Labels(th) /\ id[3] = "unsafe" /\ op \in Block(id[1], id[2]).accesses
           /\ stack[th] # <<>> /\ id = <<Top(th).f, Top(th).b, "unsafe", 0>>
<1>1. id \in DOMAIN trans /\ trans[id].type = "UnsafeAccess" /\ IsEnabled(id) /\ op \in trans[id].ops
  BY DEF Accesses
<1>2. PICK f, b : OfBlock(id, f, b)
  BY <1>1, BlockOf
<1>3. id[3] = "unsafe"
  BY <1>1, <1>2 DEF OfBlock, Shape
<1>4. id \in StmtIds(f, b)
  BY <1>2, <1>3, Kinds DEF OfBlock, IdsOf, StartIds, Going, Regular
<1>5. id = <<f, b, "unsafe", 0>> /\ Accessed(f, b)
  BY <1>4 DEF StmtIds
<1>6. trans[id].in = One(BlockPlace(f, b)) /\ trans[id].ops = Merged(Block(f, b).accesses)
  BY <1>2, <1>5 DEF OfBlock, Shape, AccessShape
<1>7. BlockPlace(f, b) \in OccupiedPlaces
  <2>1. Arc(BlockPlace(f, b), trans[id].in) = 1
    BY <1>6, ArcOne
  <2>2. BlockPlace(f, b) \in Place /\ BlockPlace(f, b)[1] \in ControlKinds
    BY <1>2 DEF OfBlock, BlockPlace, ControlKinds
  <2> QED
    BY <1>1, <2>1, <2>2, Taken
<1>8. PICK th \in NodeFuncs :
           /\ stack[th] # <<>> /\ Top(th) \in Frames /\ FrameOk(Top(th))
           /\ FramePlace(Top(th)) = BlockPlace(f, b)
  <2>1. BlockPlace(f, b)[1] # "wait"
    BY DEF BlockPlace
  <2> QED
    BY <1>7, <2>1, OnTop DEF Going
<1>9. Top(th).at = "block" /\ Top(th).f = f /\ Top(th).b = b
  BY <1>8, FrameAt
<1>10. op \in Block(f, b).accesses
  BY <1>1, <1>6 DEF Merged
<1>11. id \in Labels(th)
  BY <1>5, <1>8, <1>9, <1>10 DEF Labels
<1> QED
  BY <1>5, <1>8, <1>9, <1>10, <1>11

(* What a thread is about to access is enabled.                             *)
LEMMA UpcomingSeen ==
  ASSUME Going, Orderly, NEW th \in NodeFuncs, NEW id \in Labels(th), id[3] = "unsafe"
  PROVE  /\ stack[th] # <<>> /\ id = <<Top(th).f, Top(th).b, "unsafe", 0>> /\ Top(th).f \in NodeFuncs
         /\ \A op \in Merged(Block(id[1], id[2]).accesses) : Accesses(id, op)
<1>1. Regular /\ Ready(th, id)
  BY Unhindered DEF Going
<1>2. Steps(th, id)
  BY <1>1 DEF Going, Steps
<1>3. /\ stack[th] # <<>> /\ Top(th).f \in NodeFuncs /\ HasPlace(Top(th).f, Top(th).b)
      /\ TermRegular(Top(th).f, Top(th).b) /\ Term(Top(th).f, Top(th).b).op \in Ops
  BY <1>2, StepFrame
<1>4. id \notin TermLabels(Top(th).f, Top(th).b)
  BY <1>3, TermLabelled
<1>5. id = <<Top(th).f, Top(th).b, "unsafe", 0>>
  BY <1>2, <1>4, StepFrame
<1>6. id \in DOMAIN trans /\ IsEnabled(id)
  BY <1>2, Offered DEF CondvarStep, Going
<1>7. trans[id].type = "UnsafeAccess" /\ trans[id].ops = Merged(Block(id[1], id[2]).accesses)
  BY <1>2, InNet DEF Shape, AccessShape
<1> QED
  BY <1>3, <1>5, <1>6, <1>7 DEF Accesses

(* Merging the accesses of a block keeps a write, and one of each variable. *)
LEMMA MergedKeeps ==
  ASSUME NEW S, NEW a \in S
  PROVE  \E m \in Merged(S) : m[1] = a[1] /\ (a[2] => m[2])
<1> DEFINE w == <<a[1], TRUE>>
<1>1. w[1] = a[1] /\ w[2]
  OBVIOUS
<1> HIDE DEF w
<1>2. CASE a[2]
  <2>1. a \in Merged(S)
    BY <1>2, Zenon DEF Merged
  <2> QED
    BY <2>1, Zenon
<1>3. CASE w \in S
  <2>1. w \in Merged(S)
    BY <1>1, <1>3, Zenon DEF Merged
  <2> QED
    BY <1>1, <2>1, Zenon
<1>4. CASE ~a[2] /\ w \notin S
  <2>1. a \in Merged(S)
    BY <1>4, Zenon DEF Merged, w
  <2> QED
    BY <2>1, Zenon
<1> QED
  BY <1>2, <1>3, <1>4, Zenon

(* The accesses of two threads are those of two functions, so of two sites. *)
LEMMA SitesApart ==
  ASSUME Going, ~HasMergedSites, NEW th \in NodeFuncs, NEW other \in NodeFuncs, th # other,
         stack[th] # <<>>, stack[other] # <<>>, Top(th).f \in NodeFuncs, Top(other).f \in NodeFuncs,
         NEW x, NEW y, x[1] = Top(th).f, y[1] = Top(other).f
  PROVE  Site(x) # Site(y)
<1>1. /\ Len(stack[th]) \in DOMAIN stack[th] /\ Top(th) = stack[th][Len(stack[th])]
      /\ Len(stack[other]) \in DOMAIN stack[other] /\ Top(other) = stack[other][Len(stack[other])]
  BY TopFrame DEF Going
<1>2. Top(th).f # Top(other).f
  BY <1>1 DEF Going, Stacks
<1>3. prog.scope[Top(th).f] # prog.scope[Top(other).f]
  BY <1>2 DEF HasMergedSites
<1> QED
  BY <1>3 DEF Site

LEMMA ReportedRace ==
  ASSUME Going, NEW v, RaceReported(v)
  PROVE  Racing(v)
<1>1. PICK x, y, op, ip : /\ Accesses(x, op) /\ Accesses(y, ip)
                          /\ op[1] = v /\ ip[1] = v
                          /\ Site(x) # Site(y) /\ Writes(op, ip)
  BY ReportedPair
<1>2. PICK th \in NodeFuncs :
           /\ x \in Labels(th) /\ x[3] = "unsafe" /\ op \in Block(x[1], x[2]).accesses
           /\ stack[th] # <<>> /\ x = <<Top(th).f, Top(th).b, "unsafe", 0>>
  BY <1>1, AccessedBy
<1>3. PICK other \in NodeFuncs :
           /\ y \in Labels(other) /\ y[3] = "unsafe" /\ ip \in Block(y[1], y[2]).accesses
           /\ stack[other] # <<>> /\ y = <<Top(other).f, Top(other).b, "unsafe", 0>>
  BY <1>1, AccessedBy
<1>4. th # other
  BY <1>1, <1>2, <1>3
<1>5. op \in Upcoming(th) /\ ip \in Upcoming(other)
  BY <1>2, <1>3 DEF Upcoming
<1>6. op[2] \/ ip[2]
  BY <1>1, Zenon DEF Writes
<1> QED
  BY <1>1, <1>4, <1>5, <1>6, Zenon DEF Racing

LEMMA RaceSeen ==
  ASSUME Going, Orderly, ~HasMergedSites, NEW v, Racing(v)
  PROVE  RaceReported(v)
<1>1. PICK th \in NodeFuncs : \E other \in NodeFuncs :
         /\ th # other
         /\ \E a \in Upcoming(th), b \in Upcoming(other) :
              a[1] = v /\ b[1] = v /\ (a[2] \/ b[2])
  BY Zenon DEF Racing
<1>2. PICK other \in NodeFuncs :
         /\ th # other
         /\ \E a \in Upcoming(th), b \in Upcoming(other) :
              a[1] = v /\ b[1] = v /\ (a[2] \/ b[2])
  BY <1>1, Zenon
<1>3. PICK a \in Upcoming(th), b \in Upcoming(other) : a[1] = v /\ b[1] = v /\ (a[2] \/ b[2])
  BY <1>2, Zenon
<1>4. PICK x \in Labels(th) : x[3] = "unsafe" /\ a \in Block(x[1], x[2]).accesses
  BY <1>3 DEF Upcoming
<1>5. PICK y \in Labels(other) : y[3] = "unsafe" /\ b \in Block(y[1], y[2]).accesses
  BY <1>3 DEF Upcoming
<1>6. PICK op \in Merged(Block(x[1], x[2]).accesses) : op[1] = a[1] /\ (a[2] => op[2])
  BY <1>4, MergedKeeps, Zenon
<1>7. PICK ip \in Merged(Block(y[1], y[2]).accesses) : ip[1] = b[1] /\ (b[2] => ip[2])
  BY <1>5, MergedKeeps, Zenon
<1>8. /\ Accesses(x, op) /\ stack[th] # <<>> /\ Top(th).f \in NodeFuncs
      /\ x = <<Top(th).f, Top(th).b, "unsafe", 0>>
  BY <1>4, <1>6, UpcomingSeen
<1>9. /\ Accesses(y, ip) /\ stack[other] # <<>> /\ Top(other).f \in NodeFuncs
      /\ y = <<Top(other).f, Top(other).b, "unsafe", 0>>
  BY <1>5, <1>7, UpcomingSeen
<1>10. Site(x) # Site(y)
  BY <1>2, <1>8, <1>9, SitesApart
<1>11. Writes(op, ip)
  BY <1>3, <1>6, <1>7, Zenon DEF Writes
<1>12. op[1] = v /\ ip[1] = v
  BY <1>3, <1>6, <1>7, Zenon
<1> QED
  BY <1>8, <1>9, <1>10, <1>11, <1>12, ReportedPair

(* The variables the data race detector reports in a marking of a regular   *)
(* program's net, if no two functions share their sites, are exactly those  *)
(* that two threads are about to access in conflict: no lock, join or spawn *)
(* that orders them is lost in the net, and none is added.                  *)
THEOREM RacesAreReal ==
  Spec /\ Regular /\ [](HandlesFollowed /\ Orderly) => []RacesAreConcurrent
<1>1. Sim /\ Regular /\ Orderly => RacesAreConcurrent
  <2> SUFFICES ASSUME Sim, Regular, Orderly, Comparable, ~HasMergedSites, NEW v \in Variables
               PROVE  RaceReported(v) <=> Racing(v)
    BY DEF RacesAreConcurrent
  <2>1. Going
    BY DEF Sim, Alike, Going, AlikeNow
  <2> QED
    BY <2>1, ReportedRace, RaceSeen
<1> QED
  BY <1>1, AlwaysSim, PTL

-----------------------------------------------------------------------------
(* The joins of a program that uses its handles only after it was given     *)
(* them, in the order of the blocks, are given the ends of the threads they *)
(* join, through however many moves: track_joinhandle_dataflow() and the    *)
(* handlers of spawn and join never take one thread for another there.      *)
THEOREM HandlesAreFollowed == Spec /\ HandlesInOrder => []HandlesFollowed
<1> DEFINE Inv == VisitorPlaced /\ HandlesKnown /\ HandlesInOrder
<1>1. Init /\ HandlesInOrder => Inv
  BY PlacedInit, HandlesInit DEF Init
<1>2. Inv /\ [Next]_vars => Inv'
  <2> SUFFICES ASSUME VisitorPlaced, HandlesKnown, HandlesInOrder, [Next]_vars PROVE Inv'
    OBVIOUS
  <2>1. CASE Translate
    BY <2>1, PlacedKept, HandlesStep, OrderStays
  <2>2. CASE UNCHANGED <<prog, transVars>>
    <3>1. VisitorPlaced'
      BY <2>2 DEF VisitorPlaced, transVars, fn, NodeFuncs, BlocksOf, Excluded, Block, Term,
        ExpectFails, ExpectedBlocks, Here, Suspends
    <3>2. /\ prog' = prog /\ fn' = fn /\ bb' = bb /\ step' = step
          /\ handle' = handle /\ Visiting' = Visiting
      BY <2>2 DEF transVars, bodyVars, fn, Visiting
    <3>3. Stands(handle)' = Stands(handle) /\ \A c : MovesKnown(handle, fn, c)' = MovesKnown(handle, fn, c)
      BY <3>2 DEF Stands, EndPlace, MovesKnown, IsHandle, Move, HandleMoves, Term, Block
    <3>4. HandlesKnown'
      BY <3>2, <3>3, StaticHandles DEF HandlesKnown
    <3> QED
      BY <3>1, <3>2, <3>4, OrderStays
  <2> QED
    BY <2>1, <2>2 DEF Next, Run, vars
<1>3. Inv => HandlesFollowed
  BY JoinFollowed
<1> HIDE DEF Inv
<1> QED
  BY <1>1, <1>2, <1>3, PTL DEF Spec

(* All of it, of the regular programs that use their handles in order: net  *)
(* and program offer the same steps, the marking tells where the threads    *)
(* are, and a race is reported where there is one.                          *)
THEOREM NetIsTheProgram ==
  Spec /\ Regular /\ HandlesInOrder /\ []Orderly =>
    [](MarkingMirrorsThreads /\ NetMissesNoStep /\ NetAllowsOnlyProgram /\ RacesAreConcurrent)
  BY HandlesAreFollowed, MarkingMirrors, NoStepIsMissed, OnlyTheProgramRuns, RacesAreReal, PTL
=============================================================================
