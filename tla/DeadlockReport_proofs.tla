----------------------- MODULE DeadlockReport_proofs -----------------------
(***************************************************************************)
(* Proofs about the deadlock detector, for every net and every state graph *)
(* of it, cyclic or not, of any size, with any number of locks: first the  *)
(* search, then the report.  What is reported is a deadlock, the path an   *)
(* explanation is read from is a shortest one, and the explanation         *)
(* accounts for every missing token and names the holder of a lock.        *)
(***************************************************************************)
EXTENDS DeadlockReport, Iteration, SequenceTheorems, TLAPS

Nodes == graph.nodes
Frame == [node : Nodes, rest : SUBSET graph.edges]

(* The path without the intermediate sequence Path. *)
FramesSimple ==
  /\ stack = {frames[i].node : i \in 1 .. Len(frames)}
  /\ \A i, j \in 1 .. Len(frames) : frames[i].node = frames[j].node => i = j
  /\ \A i \in 1 .. Len(frames) - 1 :
       \E e \in Out(frames[i].node) : e.to = frames[i + 1].node

(* What is reachable, without counting steps: a set that no edge leaves; a  *)
(* set that is reachable from each of its states.                           *)
Closed(S) == \A e \in graph.edges : e.from \in S => e.to \in S
Connected(c) == \A S \in SUBSET Nodes : Closed(S) /\ S \cap c # {} => c \subseteq S

(* A connected set of states that cannot be left, in which nothing is       *)
(* terminal, the locks ls are always disabled and another lock is not.      *)
Trap(c, ls) ==
  /\ c \subseteq Nodes
  /\ Connected(c)
  /\ Stable(c)
  /\ \A n \in c : ~Terminal(n)
  /\ ls # {} /\ ls = AlwaysDisabled(c)
  /\ ~ KnownLocks \subseteq ls

InTrapOf(n, ls) == \E c \in SUBSET Nodes : Trap(c, ls) /\ n \in c
InTrap(n) == \E ls \in SUBSET Lock : InTrapOf(n, ls)

GroupsInTraps == \A ls \in SUBSET Lock : \A n \in groups[ls] : InTrapOf(n, ls)

(* A reported state is terminal and no normal end, or in a trap. *)
ReportedInTraps ==
  \A n \in deadlocks : (Terminal(n) /\ n \notin graph.exits) \/ InTrap(n)

(* Types need the path: the slice of a cycle is a set of states only        *)
(* because the state it returns to is on the path.                          *)
IInv == TypeOK /\ FramesSimple /\ GroupsInTraps /\ ReportedInTraps
-----------------------------------------------------------------------------
(* Edges join states of the graph and carry locks or none. *)
LEMMA GraphFields ==
  ASSUME TypeOK
  PROVE  /\ Nodes \subseteq Node
         /\ \A e \in graph.edges : e.from \in Nodes /\ e.to \in Nodes
         /\ \A n : Out(n) \subseteq graph.edges
         /\ KnownLocks \subseteq Lock
         /\ IsFiniteSet(Nodes)
BY GraphAssumption DEF TypeOK, WellFormed, Nodes, Out, KnownLocks

(* The path has the states of the frames. *)
LEMMA PathOfFrames ==
  ASSUME TypeOK
  PROVE  /\ Path \in Seq(Nodes)
         /\ Len(Path) = Len(frames)
         /\ DOMAIN Path = 1 .. Len(frames)
         /\ \A i \in 1 .. Len(frames) : Path[i] = frames[i].node
<1>1. frames \in Seq(Frame)
  BY DEF TypeOK, Frame, Nodes
<1>2. DOMAIN frames = 1 .. Len(frames) /\ Len(frames) \in Nat
  BY <1>1
<1>3. \A i \in 1 .. Len(frames) : frames[i].node \in Nodes
  <2>1. \A i \in 1 .. Len(frames) : frames[i] \in Frame
    BY <1>1, ElementOfSeq
  <2> QED
    BY <2>1 DEF Frame
<1>4. Path = [i \in 1 .. Len(frames) |-> frames[i].node]
  BY <1>2 DEF Path
<1>5. Path \in [1 .. Len(frames) -> Nodes]
  BY <1>3, <1>4
<1>6. Path \in Seq(Nodes)
  BY <1>2, <1>5, SeqDef
<1>7. 1 .. Len(Path) = 1 .. Len(frames) /\ Len(Path) \in Nat
  BY <1>5, <1>6, LenProperties
<1>8. Len(Path) = Len(frames)
  BY <1>2, <1>7
<1> QED
  BY <1>2, <1>4, <1>6, <1>8

(* The two ways to say that the path is simple agree. *)
LEMMA SimplePath ==
  ASSUME TypeOK
  PROVE  FramesSimple <=> PathIsSimple
<1>1. /\ DOMAIN Path = 1 .. Len(frames)
      /\ Len(Path) = Len(frames)
      /\ Len(frames) \in Nat
      /\ \A i \in 1 .. Len(frames) : Path[i] = frames[i].node
  BY PathOfFrames DEF TypeOK
<1>2. Range(Path) = {frames[i].node : i \in 1 .. Len(frames)}
  BY <1>1 DEF Range
<1>3. \A i \in 1 .. Len(frames) - 1 : i \in 1 .. Len(frames) /\ i + 1 \in 1 .. Len(frames)
  BY <1>1
<1>4. (\A i, j \in DOMAIN Path : Path[i] = Path[j] => i = j)
        <=> \A i, j \in 1 .. Len(frames) : frames[i].node = frames[j].node => i = j
  BY <1>1
<1>5. \A i \in 1 .. Len(frames) - 1 :
        Path[i] = frames[i].node /\ Path[i + 1] = frames[i + 1].node
  BY <1>1, <1>3
<1>6. (\A i \in 1 .. Len(frames) - 1 : \E e \in Out(frames[i].node) : e.to = frames[i + 1].node)
        <=> \A i \in 1 .. Len(Path) - 1 : \E e \in Out(Path[i]) : e.to = Path[i + 1]
  BY <1>1, <1>5
<1> QED
  BY <1>2, <1>4, <1>6 DEF FramesSimple, PathIsSimple
-----------------------------------------------------------------------------
(* A set that no edge leaves contains the rest of the path with any state   *)
(* on it.                                                                   *)
LEMMA AlongPath ==
  ASSUME TypeOK, FramesSimple, NEW S, Closed(S),
         NEW i \in 1 .. Len(frames), frames[i].node \in S
  PROVE  \A j \in i .. Len(frames) : frames[j].node \in S
<1> DEFINE K == {k \in Nat : i + k =< Len(frames) => frames[i + k].node \in S}
<1>1. Len(frames) \in Nat
  BY PathOfFrames, LenProperties DEF TypeOK
<1>2. 0 \in K
  OBVIOUS
<1>3. ASSUME NEW k \in K PROVE k + 1 \in K
  <2> SUFFICES ASSUME i + (k + 1) =< Len(frames) PROVE frames[i + (k + 1)].node \in S
    OBVIOUS
  <2>1. /\ i + k \in 1 .. Len(frames) - 1 /\ i + k =< Len(frames)
        /\ (i + k) + 1 = i + (k + 1)
    BY <1>1
  <2>2. PICK d \in Out(frames[i + k].node) : d.to = frames[i + (k + 1)].node
    BY <2>1 DEF FramesSimple
  <2>3. frames[i + k].node \in S
    BY <1>3, <2>1
  <2> QED
    BY <2>2, <2>3 DEF Closed, Out
<1> HIDE DEF K
<1>4. Nat \subseteq K
  BY <1>2, <1>3, NatSet DEF K
<1>5. ASSUME NEW j \in i .. Len(frames) PROVE frames[j].node \in S
  <2>1. j - i \in Nat /\ i + (j - i) = j /\ j =< Len(frames)
    BY <1>1
  <2>2. j - i \in K
    BY <1>4, <2>1
  <2> QED
    BY <2>1, <2>2 DEF K
<1> QED
  BY <1>5

(* What closes a cycle: the slice of the path is a set of states, each of   *)
(* which has a successor in it, and one can go round.                       *)
LEMMA SliceOfPath ==
  ASSUME TypeOK, FramesSimple, NEW e \in Out(Top.node), frames # <<>>, e.to \in stack
  PROVE  /\ CycleFrom(e.to) \subseteq Nodes
         /\ \A n \in CycleFrom(e.to) : ~Terminal(n)
         /\ Connected(CycleFrom(e.to))
<1> DEFINE start == CHOOSE i \in DOMAIN Path : Path[i] = e.to
<1>1. /\ DOMAIN Path = 1 .. Len(frames)
      /\ Len(Path) = Len(frames)
      /\ Len(frames) \in Nat \ {0}
      /\ \A i \in 1 .. Len(frames) : Path[i] = frames[i].node /\ Path[i] \in Nodes
  BY PathOfFrames DEF TypeOK
<1>2. \E i \in DOMAIN Path : Path[i] = e.to
  BY <1>1 DEF FramesSimple
<1>3. start \in 1 .. Len(frames)
  BY <1>1, <1>2
<1>4. CycleFrom(e.to) = {Path[i] : i \in start .. Len(frames)}
  BY <1>1 DEF CycleFrom
<1>5. \A i \in start .. Len(frames) : i \in 1 .. Len(frames)
  BY <1>1, <1>3
<1>6. ASSUME NEW i \in 1 .. Len(frames) PROVE Out(frames[i].node) # {}
  <2>1. CASE i = Len(frames)
    BY <2>1 DEF Top
  <2>2. CASE i # Len(frames)
    <3>0. Len(frames) \in Nat
      BY <1>1
    <3>1. i \in 1 .. Len(frames) - 1
      BY <2>2, <3>0
    <3> QED
      BY <3>1 DEF FramesSimple
  <2> QED
    BY <2>1, <2>2
<1>7. Connected(CycleFrom(e.to))
  <2> SUFFICES ASSUME NEW S \in SUBSET Nodes, Closed(S), NEW i \in start .. Len(frames), Path[i] \in S
               PROVE  CycleFrom(e.to) \subseteq S
    BY <1>4 DEF Connected
  <2> HIDE DEF start
  <2>1. /\ i \in 1 .. Len(frames) /\ Len(frames) \in i .. Len(frames)
        /\ frames[i].node \in S
    BY <1>1, <1>3, <1>5
  <2>2. Top.node \in S
    BY <2>1, AlongPath DEF Top
  <2>3. e \in graph.edges /\ e.from = Top.node
    BY DEF Out
  <2>4. e.to \in S
    BY <2>2, <2>3 DEF Closed
  <2>5. frames[start].node \in S
    BY <1>1, <1>2, <1>3, <2>4 DEF start
  <2>6. \A j \in start .. Len(frames) : frames[j].node \in S
    BY <1>3, <2>5, AlongPath
  <2> QED
    BY <1>1, <1>4, <1>5, <2>6
<1> QED
  BY <1>1, <1>4, <1>5, <1>6, <1>7 DEF Terminal

(* A cycle that is reported is a trap. *)
LEMMA BlockedCycle ==
  ASSUME TypeOK, NEW c \in SUBSET Nodes, \A n \in c : ~Terminal(n), Connected(c),
         ConsistentlyBlocked(c) # {}
  PROVE  Trap(c, ConsistentlyBlocked(c)) /\ ConsistentlyBlocked(c) \subseteq Lock
<1>1. ConsistentlyBlocked(c) = AlwaysDisabled(c) /\ Stable(c) /\ ~ KnownLocks \subseteq AlwaysDisabled(c)
  BY DEF ConsistentlyBlocked
<1>2. AlwaysDisabled(c) \subseteq Lock
  BY DEF AlwaysDisabled, KnownLocks
<1> QED
  BY <1>1, <1>2 DEF Trap

(* Traps are a matter of the graph, which never changes. *)
LEMMA SameInTrap ==
  ASSUME graph' = graph
  PROVE  /\ \A n, ls : InTrapOf(n, ls)' <=> InTrapOf(n, ls)
         /\ \A n : InTrap(n)' <=> InTrap(n)
<1>1. Nodes' = Nodes /\ KnownLocks' = KnownLocks
  BY DEF Nodes, KnownLocks
<1>2. \A n : Out(n)' = Out(n)
  BY DEF Out
<1>3. \A n : Terminal(n)' = Terminal(n)
  BY <1>2 DEF Terminal
<1>4. \A l, n : Disabled(l, n)' <=> Disabled(l, n)
  BY <1>2 DEF Disabled
<1>5. \A c : AlwaysDisabled(c)' = AlwaysDisabled(c)
  BY <1>1, <1>4 DEF AlwaysDisabled
<1>6. \A c : Stable(c)' <=> Stable(c)
  BY <1>2 DEF Stable
<1>7. \A c : Connected(c)' <=> Connected(c)
  BY <1>1 DEF Connected, Closed
<1>8. \A c, ls : Trap(c, ls)' <=> Trap(c, ls)
  BY <1>1, <1>3, <1>5, <1>6, <1>7 DEF Trap
<1>9. \A n, ls : InTrapOf(n, ls)' <=> InTrapOf(n, ls)
  BY <1>1, <1>8 DEF InTrapOf
<1> QED
  BY <1>9 DEF InTrap

LEMMA SameTraps ==
  ASSUME graph' = graph, groups' = groups
  PROVE  /\ GroupsInTraps => GroupsInTraps'
         /\ \A n : InTrap(n) => InTrap(n)'
BY SameInTrap DEF GroupsInTraps

(* The frame on top. *)
LEMMA TopFrame ==
  ASSUME TypeOK, frames # <<>>
  PROVE  /\ Len(frames) \in Nat \ {0}
         /\ Top = frames[Len(frames)]
         /\ Top.node \in Nodes
         /\ Top.rest \subseteq Out(Top.node)
         /\ \A i \in 1 .. Len(frames) : frames[i] \in Frame
<1>1. frames \in Seq(Frame)
  BY DEF TypeOK, Frame, Nodes
<1>2. /\ Len(frames) \in Nat \ {0}
      /\ DOMAIN frames = 1 .. Len(frames)
      /\ \A i \in 1 .. Len(frames) : frames[i] \in Frame
  BY <1>1, EmptySeq, LenProperties, ElementOfSeq
<1>3. Top = frames[Len(frames)] /\ Len(frames) \in 1 .. Len(frames)
  BY <1>2 DEF Top
<1> QED
  BY <1>2, <1>3 DEF TypeOK, Frame

(* A frame pushed. *)
LEMMA PushFrame ==
  ASSUME NEW S, NEW q \in Seq(S), NEW x \in S
  PROVE  /\ Append(q, x) \in Seq(S)
         /\ Len(q) \in Nat
         /\ Len(Append(q, x)) = Len(q) + 1
         /\ DOMAIN Append(q, x) = 1 .. Len(q) + 1
         /\ \A i \in 1 .. Len(q) : Append(q, x)[i] = q[i]
         /\ Append(q, x)[Len(q) + 1] = x
BY AppendProperties, LenProperties

(* The path of one frame. *)
LEMMA FirstFrame ==
  ASSUME NEW S, NEW x \in S
  PROVE  <<x>> \in Seq(S) /\ DOMAIN <<x>> = 1 .. 1 /\ <<x>>[1] = x
OBVIOUS
-----------------------------------------------------------------------------
(* The initial state. *)
LEMMA InitIInv ==
  ASSUME Init
  PROVE  IInv
<1>1. TypeOK
  BY GraphAssumption DEF Init, TypeOK
<1>2. FramesSimple
  BY DEF Init, FramesSimple
<1>3. GroupsInTraps /\ ReportedInTraps
  BY DEF Init, GroupsInTraps, ReportedInTraps
<1> QED
  BY <1>1, <1>2, <1>3 DEF IInv

LEMMA ScanTerminalIInv ==
  ASSUME IInv, ScanTerminal
  PROVE  IInv'
<1>1. TypeOK'
  BY DEF IInv, ScanTerminal, TypeOK, Out
<1>2. FramesSimple'
  BY DEF IInv, ScanTerminal, FramesSimple, Out
<1>3. GroupsInTraps'
  BY SameTraps DEF IInv, ScanTerminal
<1>4. ReportedInTraps'
  BY DEF ScanTerminal, ReportedInTraps, Terminal, Out
<1> QED
  BY <1>1, <1>2, <1>3, <1>4 DEF IInv

(* The search starts with one frame on an empty path. *)
LEMMA StartSearchIInv ==
  ASSUME IInv, StartSearch
  PROVE  IInv'
<1>1. PICK n \in graph.nodes \ visited :
        /\ visited' = visited \cup {n} /\ stack' = stack \cup {n}
        /\ frames' = <<[node |-> n, rest |-> Out(n)]>>
  BY DEF StartSearch, Enter
<1>2. /\ frames = <<>> /\ stack = {}
      /\ graph' = graph /\ phase' = phase /\ groups' = groups /\ deadlocks' = deadlocks
  BY DEF IInv, StartSearch, FramesSimple
<1>3. Out(n) \subseteq graph.edges /\ Out(n)' = Out(n)
  BY <1>2 DEF Out
<1>4. TypeOK'
  <2>1. [node |-> n, rest |-> Out(n)] \in [node : graph.nodes, rest : SUBSET graph.edges]
    BY <1>3
  <2> DEFINE first == [node |-> n, rest |-> Out(n)]
  <2>2. first.node = n /\ first.rest = Out(n)
    OBVIOUS
  <2> HIDE DEF first
  <2>3. /\ frames' \in Seq([node : graph.nodes, rest : SUBSET graph.edges])
        /\ DOMAIN frames' = 1 .. 1 /\ frames'[1] = first
    BY <1>1, <2>1, FirstFrame DEF first
  <2>4. (\A i \in DOMAIN frames : frames[i].rest \subseteq Out(frames[i].node))'
    BY <1>2, <2>2, <2>3 DEF Out
  <2> QED
    BY <1>1, <1>2, <2>3, <2>4 DEF IInv, TypeOK
<1>5. FramesSimple'
  BY <1>1, <1>2 DEF FramesSimple
<1>6. GroupsInTraps' /\ ReportedInTraps'
  BY <1>2, SameTraps DEF IInv, ReportedInTraps, Terminal, Out
<1> QED
  BY <1>4, <1>5, <1>6 DEF IInv

(* What the loop over the edges leaves of the path. *)
LEMMA AdvancedFrames ==
  ASSUME TypeOK, frames # <<>>, NEW e \in Top.rest
  PROVE  /\ Advanced(e) \in Seq(Frame)
         /\ Len(Advanced(e)) = Len(frames)
         /\ DOMAIN Advanced(e) = 1 .. Len(frames)
         /\ \A i \in 1 .. Len(frames) : /\ Advanced(e)[i].node = frames[i].node
                                        /\ Advanced(e)[i].rest \subseteq frames[i].rest
<1>1. /\ Len(frames) \in Nat \ {0}
      /\ \A i \in 1 .. Len(frames) : frames[i] \in Frame
      /\ frames \in Seq(Frame)
  BY TopFrame DEF TypeOK, Frame, Nodes
<1> DEFINE top == [frames[Len(frames)] EXCEPT !.rest = @ \ {e}]
<1>2. /\ top \in Frame
      /\ top.node = frames[Len(frames)].node
      /\ top.rest \subseteq frames[Len(frames)].rest
  <2>1. frames[Len(frames)] \in [node : Nodes, rest : SUBSET graph.edges]
    BY <1>1 DEF Frame
  <2> QED
    BY <2>1 DEF Frame
<1>3. Advanced(e) = [frames EXCEPT ![Len(frames)] = top]
  BY <1>1 DEF Advanced
<1> HIDE DEF top
<1>4. Advanced(e) \in Seq(Frame) /\ Len(Advanced(e)) = Len(frames)
  BY <1>1, <1>2, <1>3, ExceptSeq
<1>5. DOMAIN frames = 1 .. Len(frames)
  BY <1>1, LenProperties
<1>6. \A i \in 1 .. Len(frames) :
        Advanced(e)[i] = IF i = Len(frames) THEN top ELSE frames[i]
  BY <1>3, <1>5
<1> QED
  BY <1>2, <1>3, <1>4, <1>5, <1>6

(* The path stays what it is when an edge is only taken off the list. *)
LEMMA AdvanceKeepsPath ==
  ASSUME TypeOK, FramesSimple, frames # <<>>, NEW e \in Top.rest,
         frames' = Advanced(e), graph' = graph, stack' = stack
  PROVE  /\ FramesSimple'
         /\ (frames \in Seq([node : graph.nodes, rest : SUBSET graph.edges]))'
         /\ (\A i \in DOMAIN frames : frames[i].rest \subseteq Out(frames[i].node))'
<1>1. /\ frames' \in Seq(Frame)
      /\ Len(frames') = Len(frames)
      /\ DOMAIN frames' = 1 .. Len(frames)
      /\ \A i \in 1 .. Len(frames) : /\ frames'[i].node = frames[i].node
                                     /\ frames'[i].rest \subseteq frames[i].rest
  BY AdvancedFrames
<1>2. Len(frames) \in Nat \ {0} /\ DOMAIN frames = 1 .. Len(frames)
  BY TopFrame, LenProperties DEF TypeOK
<1>3. FramesSimple'
  <2>1. \A i \in 1 .. Len(frames) - 1 : i \in 1 .. Len(frames) /\ i + 1 \in 1 .. Len(frames)
    BY <1>2
  <2>2. {frames'[i].node : i \in 1 .. Len(frames)} = {frames[i].node : i \in 1 .. Len(frames)}
    BY <1>1
  <2>3. (stack = {frames[i].node : i \in 1 .. Len(frames)})'
    BY <1>1, <2>2 DEF FramesSimple
  <2>4. (\A i, j \in 1 .. Len(frames) : frames[i].node = frames[j].node => i = j)'
    BY <1>1 DEF FramesSimple
  <2>5. (\A i \in 1 .. Len(frames) - 1 :
           \E d \in Out(frames[i].node) : d.to = frames[i + 1].node)'
    BY <1>1, <2>1 DEF FramesSimple, Out
  <2> QED
    BY <2>3, <2>4, <2>5 DEF FramesSimple
<1>4. (frames \in Seq([node : graph.nodes, rest : SUBSET graph.edges]))'
  BY <1>1 DEF Frame, Nodes
<1>5. (\A i \in DOMAIN frames : frames[i].rest \subseteq Out(frames[i].node))'
  BY <1>1, <1>2 DEF TypeOK, Out
<1> QED
  BY <1>3, <1>4, <1>5

(* A state that was not visited is not on the path, so it stays simple. *)
LEMMA DescendIInv ==
  ASSUME IInv, NEW e \in graph.edges, Descend(e)
  PROVE  IInv'
<1> DEFINE top == [node |-> e.to, rest |-> Out(e.to)]
<1>1. /\ TypeOK /\ FramesSimple /\ frames # <<>> /\ e \in Top.rest
      /\ e.to \notin visited
      /\ visited' = visited \cup {e.to} /\ stack' = stack \cup {e.to}
      /\ frames' = Append(Advanced(e), top)
      /\ graph' = graph /\ phase' = phase /\ groups' = groups /\ deadlocks' = deadlocks
  BY DEF IInv, Descend, Following, Enter
<1>2. /\ top \in Frame /\ top.node = e.to /\ top.rest = Out(e.to)
      /\ e \in Out(Top.node) /\ e.to \in graph.nodes
  BY <1>1, GraphFields, TopFrame DEF Frame, Nodes
<1> HIDE DEF top
<1> DEFINE n == Len(frames)
<1>3. n \in Nat \ {0} /\ Top = frames[n] /\ DOMAIN frames = 1 .. n
  BY <1>1, TopFrame, LenProperties DEF TypeOK
<1>4. /\ Advanced(e) \in Seq(Frame) /\ Len(Advanced(e)) = n
      /\ \A i \in 1 .. n : /\ Advanced(e)[i].node = frames[i].node
                           /\ Advanced(e)[i].rest \subseteq frames[i].rest
  BY <1>1, AdvancedFrames
<1>5. /\ frames' \in Seq(Frame) /\ Len(frames') = n + 1 /\ DOMAIN frames' = 1 .. n + 1
      /\ \A i \in 1 .. n : /\ frames'[i].node = frames[i].node
                           /\ frames'[i].rest \subseteq frames[i].rest
      /\ frames'[n + 1] = top
  BY <1>1, <1>2, <1>4, PushFrame
<1> HIDE DEF n
<1>6. \A i \in 1 .. n + 1 : i \in 1 .. n \/ i = n + 1
  BY <1>3
<1>7. TypeOK'
  <2>1. (frames \in Seq([node : graph.nodes, rest : SUBSET graph.edges]))'
    BY <1>1, <1>5 DEF Frame, Nodes
  <2>2. (\A i \in DOMAIN frames : frames[i].rest \subseteq Out(frames[i].node))'
    BY <1>1, <1>2, <1>3, <1>5, <1>6 DEF TypeOK, Out
  <2> QED
    BY <1>1, <1>2, <2>1, <2>2 DEF TypeOK
<1>8. FramesSimple'
  <2>1. e.to \notin {frames[i].node : i \in 1 .. n}
    BY <1>1 DEF TypeOK, FramesSimple, n
  <2>2. (stack = {frames[i].node : i \in 1 .. Len(frames)})'
    <3>1. {frames'[i].node : i \in 1 .. n + 1} = {frames[i].node : i \in 1 .. n} \cup {e.to}
      BY <1>2, <1>3, <1>5, <1>6
    <3> QED
      BY <1>1, <1>5, <3>1 DEF FramesSimple, n
  <2>3. (\A i, j \in 1 .. Len(frames) : frames[i].node = frames[j].node => i = j)'
    BY <1>1, <1>2, <1>5, <1>6, <2>1 DEF FramesSimple, n
  <2>4. (\A i \in 1 .. Len(frames) - 1 :
           \E d \in Out(frames[i].node) : d.to = frames[i + 1].node)'
    <3>1. ASSUME NEW i \in 1 .. n, i # n
          PROVE  \E d \in Out(frames'[i].node) : d.to = frames'[i + 1].node
      <4>1. i \in 1 .. n - 1 /\ i + 1 \in 1 .. n
        BY <1>3, <3>1
      <4> QED
        BY <1>1, <1>5, <4>1 DEF FramesSimple, n
    <3>2. \E d \in Out(frames'[n].node) : d.to = frames'[n + 1].node
      <4>1. n \in 1 .. n
        BY <1>3
      <4> QED
        BY <1>2, <1>3, <1>5, <4>1
    <3>3. \A i \in 1 .. (n + 1) - 1 : i \in 1 .. n
      BY <1>3
    <3>4. \A m : {d \in graph'.edges : d.from = m} = Out(m)
      BY <1>1 DEF Out
    <3> QED
      BY <1>5, <3>1, <3>2, <3>3, <3>4 DEF Out
  <2> QED
    BY <2>2, <2>3, <2>4 DEF FramesSimple
<1>9. GroupsInTraps' /\ ReportedInTraps'
  BY <1>1, SameTraps DEF IInv, ReportedInTraps, Terminal, Out
<1> QED
  BY <1>7, <1>8, <1>9 DEF IInv

LEMMA SkipVisitedIInv ==
  ASSUME IInv, NEW e \in graph.edges, SkipVisited(e)
  PROVE  IInv'
<1>1. /\ TypeOK /\ FramesSimple /\ frames # <<>> /\ e \in Top.rest
      /\ frames' = Advanced(e)
      /\ visited' = visited /\ stack' = stack
      /\ graph' = graph /\ phase' = phase /\ groups' = groups /\ deadlocks' = deadlocks
  BY DEF IInv, SkipVisited, Following
<1>2. TypeOK' /\ FramesSimple'
  BY <1>1, AdvanceKeepsPath DEF TypeOK
<1>3. GroupsInTraps' /\ ReportedInTraps'
  BY <1>1, SameTraps DEF IInv, ReportedInTraps, Terminal, Out
<1> QED
  BY <1>2, <1>3 DEF IInv

(* The slice is added to its group only if it is a trap.                    *)
LEMMA CloseCycleIInv ==
  ASSUME IInv, NEW e \in graph.edges, CloseCycle(e)
  PROVE  IInv'
<1> DEFINE cycle == CycleFrom(e.to)
           blocked == ConsistentlyBlocked(cycle)
<1>1. /\ TypeOK /\ FramesSimple /\ frames # <<>> /\ e \in Top.rest /\ e.to \in stack
      /\ frames' = Advanced(e)
      /\ groups' = IF blocked = {} THEN groups ELSE [groups EXCEPT ![blocked] = @ \cup cycle]
      /\ visited' = visited /\ stack' = stack
      /\ graph' = graph /\ phase' = phase /\ deadlocks' = deadlocks
  BY DEF IInv, CloseCycle, Following
<1>2. e \in Out(Top.node)
  BY <1>1, TopFrame
<1>3. cycle \in SUBSET Nodes /\ (\A n \in cycle : ~Terminal(n)) /\ Connected(cycle)
  BY <1>1, <1>2, SliceOfPath
<1>4. blocked # {} => Trap(cycle, blocked) /\ blocked \in SUBSET Lock
  BY <1>1, <1>3, BlockedCycle
<1> HIDE DEF cycle, blocked
<1>5. groups' \in [SUBSET Lock -> SUBSET graph.nodes]
  BY <1>1, <1>3, <1>4 DEF TypeOK, Nodes
<1>6. TypeOK' /\ FramesSimple'
  BY <1>1, <1>5, AdvanceKeepsPath DEF TypeOK
<1>7. (\A n, ls : InTrapOf(n, ls) => InTrapOf(n, ls)') /\ \A n : InTrap(n) => InTrap(n)'
  BY <1>1, SameInTrap
<1>8. \A ls \in SUBSET Lock : \A n \in groups'[ls] : InTrapOf(n, ls)
  <2>1. blocked # {} => \A n \in cycle : InTrapOf(n, blocked)
    BY <1>3, <1>4 DEF InTrapOf
  <2>2. \A ls \in SUBSET Lock : groups'[ls] \subseteq groups[ls] \/
          (blocked # {} /\ ls = blocked /\ groups'[ls] = groups[ls] \cup cycle)
    BY <1>1 DEF TypeOK
  <2> QED
    BY <2>1, <2>2 DEF IInv, GroupsInTraps
<1>9. GroupsInTraps'
  BY <1>7, <1>8 DEF GroupsInTraps
<1>10. ReportedInTraps'
  BY <1>1, <1>7 DEF IInv, ReportedInTraps, Terminal, Out
<1> QED
  BY <1>6, <1>9, <1>10 DEF IInv

(* The state left is the last of the path and on it only once.              *)
LEMMA BacktrackIInv ==
  ASSUME IInv, Backtrack
  PROVE  IInv'
<1> DEFINE n == Len(frames)
<1>1. /\ TypeOK /\ FramesSimple /\ frames # <<>>
      /\ stack' = stack \ {Top.node} /\ frames' = SubSeq(frames, 1, n - 1)
      /\ visited' = visited
      /\ graph' = graph /\ phase' = phase /\ groups' = groups /\ deadlocks' = deadlocks
  BY DEF IInv, Backtrack
<1>2. n \in Nat \ {0} /\ Top = frames[n] /\ frames \in Seq(Frame) /\ DOMAIN frames = 1 .. n
  BY <1>1, TopFrame, LenProperties DEF TypeOK, Frame, Nodes
<1>3. /\ frames' \in Seq(Frame) /\ Len(frames') = n - 1 /\ DOMAIN frames' = 1 .. n - 1
      /\ \A i \in 1 .. n - 1 : frames'[i] = frames[i]
  BY <1>1, <1>2, SubSeqProperties, LenProperties
<1> HIDE DEF n
<1>4. \A i \in 1 .. n : i \in 1 .. n - 1 \/ i = n
  BY <1>2
<1>5. \A i \in 1 .. n - 1 : i \in 1 .. n /\ i # n
  BY <1>2
<1>6. TypeOK'
  <2>1. (\A i \in DOMAIN frames : frames[i].rest \subseteq Out(frames[i].node))'
    BY <1>1, <1>2, <1>3, <1>5 DEF TypeOK, Out
  <2> QED
    BY <1>1, <1>3, <2>1 DEF TypeOK, Frame, Nodes
<1>7. FramesSimple'
  <2>1. (stack = {frames[i].node : i \in 1 .. Len(frames)})'
    <3>1. \A i \in 1 .. n - 1 : frames[i].node # frames[n].node
      <4>1. \A i, j \in 1 .. n : frames[i].node = frames[j].node => i = j
        BY <1>1 DEF FramesSimple, n
      <4>2. n \in 1 .. n
        BY <1>2
      <4> QED
        BY <1>5, <4>1, <4>2
    <3>2. {frames[i].node : i \in 1 .. n} \ {frames[n].node} = {frames[i].node : i \in 1 .. n - 1}
      BY <1>2, <1>4, <1>5, <3>1
    <3>3. {frames'[i].node : i \in 1 .. n - 1} = {frames[i].node : i \in 1 .. n - 1}
      BY <1>3
    <3> QED
      BY <1>1, <1>2, <1>3, <3>2, <3>3 DEF FramesSimple, n
  <2>2. (\A i, j \in 1 .. Len(frames) : frames[i].node = frames[j].node => i = j)'
    BY <1>1, <1>3, <1>5 DEF FramesSimple, n
  <2>3. (\A i \in 1 .. Len(frames) - 1 :
           \E d \in Out(frames[i].node) : d.to = frames[i + 1].node)'
    <3>1. \A i \in 1 .. (n - 1) - 1 : i \in 1 .. n - 1 /\ i + 1 \in 1 .. n - 1
      BY <1>2
    <3> QED
      BY <1>1, <1>3, <3>1 DEF FramesSimple, Out, n
  <2> QED
    BY <2>1, <2>2, <2>3 DEF FramesSimple
<1>8. GroupsInTraps' /\ ReportedInTraps'
  BY <1>1, SameTraps DEF IInv, ReportedInTraps, Terminal, Out
<1> QED
  BY <1>6, <1>7, <1>8 DEF IInv

(* One state of each group is reported. *)
LEMMA ReportGroupsIInv ==
  ASSUME IInv, ReportGroups
  PROVE  IInv'
<1> DEFINE found == {ls \in SUBSET Lock : groups[ls] # {}}
<1>1. PICK pick \in [found -> UNION Range(groups)] :
        /\ \A ls \in found : pick[ls] \in groups[ls]
        /\ deadlocks' = Range(pick)
  BY DEF ReportGroups
<1>2. /\ phase' = "done" /\ graph' = graph /\ visited' = visited /\ stack' = stack
      /\ frames' = frames /\ groups' = groups
  BY DEF ReportGroups
<1>3. \A n \in deadlocks' : \E ls \in SUBSET Lock : n \in groups[ls]
  BY <1>1 DEF Range
<1>4. TypeOK'
  BY <1>2, <1>3 DEF IInv, TypeOK, Out
<1>5. FramesSimple'
  BY <1>2 DEF IInv, FramesSimple, Out
<1>6. GroupsInTraps' /\ \A n : InTrap(n) => InTrap(n)'
  BY <1>2, SameTraps DEF IInv
<1>7. ReportedInTraps'
  BY <1>3, <1>6 DEF IInv, GroupsInTraps, ReportedInTraps, InTrap
<1> QED
  BY <1>4, <1>5, <1>6, <1>7 DEF IInv

LEMMA StutterIInv ==
  ASSUME IInv, UNCHANGED vars
  PROVE  IInv'
<1>1. TypeOK' /\ FramesSimple'
  BY DEF IInv, vars, TypeOK, FramesSimple, Out
<1>2. GroupsInTraps' /\ ReportedInTraps'
  BY SameTraps DEF IInv, vars, ReportedInTraps, Terminal, Out
<1> QED
  BY <1>1, <1>2 DEF IInv

LEMMA StepIInv ==
  ASSUME IInv, [Next]_vars
  PROVE  IInv'
<1>1. CASE ScanTerminal
  BY <1>1, ScanTerminalIInv
<1>2. CASE StartSearch
  BY <1>2, StartSearchIInv
<1>3. ASSUME NEW e \in graph.edges, Descend(e) \/ CloseCycle(e) \/ SkipVisited(e)
      PROVE  IInv'
  BY <1>3, DescendIInv, CloseCycleIInv, SkipVisitedIInv
<1>4. CASE Backtrack
  BY <1>4, BacktrackIInv
<1>5. CASE ReportGroups
  BY <1>5, ReportGroupsIInv
<1>6. CASE UNCHANGED vars
  BY <1>6, StutterIInv
<1> QED
  BY <1>1, <1>2, <1>3, <1>4, <1>5, <1>6 DEF Next, Search, Terminated
-----------------------------------------------------------------------------
(* Types, a simple path and traps in all groups and reports: in every       *)
(* reachable state of the search, on every graph.                           *)
THEOREM Inductive == Spec => []IInv
<1>1. Init => IInv
  BY InitIInv
<1>2. IInv /\ [Next]_vars => IInv'
  BY StepIInv
<1> QED
  BY <1>1, <1>2, PTL DEF Spec

(* Every reachable state is type correct.                                   *)
THEOREM TypeCorrect == Spec => []TypeOK
<1>1. IInv => TypeOK
  BY DEF IInv
<1> QED
  BY <1>1, Inductive, PTL

(* The path is simple and `stack' is the set of its states, so the unwrap   *)
(* of position() in find_deadlock_cycles cannot fail on any graph.          *)
THEOREM PathStaysSimple == Spec => []PathIsSimple
<1>1. IInv => PathIsSimple
  BY SimplePath DEF IInv
<1> QED
  BY <1>1, Inductive, PTL
-----------------------------------------------------------------------------
(* What is reached from n with at most k edges.                             *)
Onward(A) == A \cup {e.to : e \in {d \in graph.edges : d.from \in A}}
Within(n) == CHOOSE w : w = [k \in Nat |-> IF k = 0 THEN {n} ELSE Onward(w[k - 1])]
Step == [A \in SUBSET Nodes |-> Onward(A)]

LEMMA OneStep ==
  ASSUME TypeOK
  PROVE  \A A \in SUBSET Nodes : Step[A] = Onward(A) /\ Step[A] \in SUBSET Nodes /\ A \subseteq Step[A]
BY GraphFields DEF Step, Onward

LEMMA WithinSteps ==
  ASSUME TypeOK, NEW n \in Nodes
  PROVE  /\ Iterates(Within(n), Step, {n})
         /\ Within(n)[0] = {n}
         /\ \A k \in Nat : /\ Within(n)[k] \in SUBSET Nodes
                           /\ Within(n)[k + 1] = Onward(Within(n)[k])
<1> DEFINE w == Within(n)
<1>1. {n} \in SUBSET Nodes
  OBVIOUS
<1>2. PICK g : Iterates(g, Step, {n})
  BY IterationExists
<1>3. \A k \in Nat : g[k] \in SUBSET Nodes
  BY <1>1, <1>2, OneStep, IterationType
<1>4. \A k \in Nat : k # 0 => k - 1 \in Nat
  OBVIOUS
<1>5. \A k \in Nat : k # 0 => Step[g[k - 1]] = Onward(g[k - 1])
  BY OneStep, <1>3, <1>4
<1>6. g = [k \in Nat |-> IF k = 0 THEN {n} ELSE Onward(g[k - 1])]
  BY <1>2, <1>5 DEF Iterates
<1>7. w = [k \in Nat |-> IF k = 0 THEN {n} ELSE Onward(w[k - 1])]
  BY <1>6 DEF Within
<1> HIDE DEF w
<1>8. w = [k \in Nat |-> w[k]] /\ w[0] = {n}
  BY <1>7
<1>9. \A k \in Nat : w[k + 1] = Onward(w[k])
  <2>1. \A k \in Nat : k + 1 \in Nat /\ k + 1 # 0 /\ (k + 1) - 1 = k
    OBVIOUS
  <2> QED
    BY <1>7, <2>1
<1>10. \A k \in Nat : w[k] = g[k] => w[k + 1] = Step[g[k]]
  BY OneStep, <1>3, <1>9
<1>11. w = g
  <2> DEFINE x == {n}
             F == Step
  <2>1. Iterates(g, F, x) /\ w = [k \in Nat |-> w[k]] /\ w[0] = x
    BY <1>2, <1>8
  <2>2. \A k \in Nat : w[k] = g[k] => w[k + 1] = F[g[k]]
    BY <1>10
  <2> HIDE DEF x, F
  <2> QED
    BY ONLY <2>1, <2>2, IterationUnique
<1>12. Iterates(w, Step, {n})
  BY <1>2, <1>11
<1>13. \A k \in Nat : w[k] \in SUBSET Nodes
  BY <1>3, <1>11
<1> QED
  BY <1>8, <1>9, <1>12, <1>13 DEF w

(* There are only so many states: that many steps reach all there is.       *)
LEMMA WithinStops ==
  ASSUME TypeOK, NEW n \in Nodes
  PROVE  /\ Cardinality(Nodes) \in Nat
         /\ Within(n)[Cardinality(Nodes)] \in SUBSET Nodes
         /\ n \in Within(n)[Cardinality(Nodes)]
         /\ Onward(Within(n)[Cardinality(Nodes)]) = Within(n)[Cardinality(Nodes)]
<1> DEFINE x == {n}
           N == Nodes
           w == Within(n)
<1>1. IsFiniteSet(N) /\ x \in SUBSET N /\ Iterates(w, Step, x)
  BY GraphFields, WithinSteps
<1>2. \A A \in SUBSET N : Step[A] \in SUBSET N /\ A \subseteq Step[A]
  BY OneStep
<1> HIDE DEF x, N, w
<1>3. /\ Cardinality(N) \in Nat
      /\ w[Cardinality(N)] \in SUBSET N
      /\ x \subseteq w[Cardinality(N)]
      /\ Step[w[Cardinality(N)]] = w[Cardinality(N)]
  BY ONLY <1>1, <1>2, GrowthStops
<1>4. Step[w[Cardinality(N)]] = Onward(w[Cardinality(N)])
  BY <1>3, OneStep DEF N
<1> QED
  BY <1>3, <1>4 DEF x, N, w

(* ReachableIn stops growing: what it computes is closed, and within every  *)
(* closed set that contains n.                                              *)
LEMMA Reachable ==
  ASSUME TypeOK, NEW n \in Nodes
  PROVE  /\ ReachableIn(graph, n) = Within(n)[Cardinality(Nodes)]
         /\ n \in ReachableIn(graph, n)
         /\ ReachableIn(graph, n) \subseteq Nodes
         /\ Closed(ReachableIn(graph, n))
         /\ \A S \in SUBSET Nodes : n \in S /\ Closed(S) => ReachableIn(graph, n) \subseteq S
<1> DEFINE R == Within(n)[Cardinality(Nodes)]
<1>1. ReachableIn(graph, n) = R
  BY DEF ReachableIn, Nodes, Within, Onward
<1>2. R \subseteq Nodes /\ n \in R /\ Onward(R) = R
  BY WithinStops
<1> HIDE DEF R
<1>3. Closed(R)
  BY <1>2 DEF Closed, Onward
<1>4. ASSUME NEW S \in SUBSET Nodes, n \in S, Closed(S) PROVE R \subseteq S
  <2>1. \A A \in SUBSET S : Onward(A) \subseteq S
    BY <1>4 DEF Onward, Closed
  <2>2. \A A \in SUBSET S : Step[A] \in SUBSET S
    BY <1>4, <2>1, OneStep
  <2>3. {n} \in SUBSET S
    BY <1>4
  <2>4. \A k \in Nat : Within(n)[k] \in SUBSET S
    BY WithinSteps, <2>2, <2>3, IterationType
  <2> QED
    BY <2>4, WithinStops DEF R
<1> QED
  BY <1>1, <1>2, <1>3, <1>4 DEF R

(* A state in a trap reaches exactly the trap.                              *)
LEMMA TrapIsReached ==
  ASSUME TypeOK, NEW c \in SUBSET Nodes, Stable(c), Connected(c), NEW n \in c
  PROVE  ReachableIn(graph, n) = c
<1>1. Closed(c)
  BY DEF Stable, Closed, Out
<1> QED
  BY <1>1, Reachable DEF Connected

LEMMA GenuineReports ==
  ASSUME IInv
  PROVE  ReportsAreDeadlocks
<1> SUFFICES ASSUME NEW n \in deadlocks, InTrap(n)
             PROVE  /\ \A m \in ReachableIn(graph, n) : ~Terminal(m)
                    /\ \E l \in KnownLocks : \A m \in ReachableIn(graph, n) : Disabled(l, m)
                    /\ \E l \in KnownLocks : \E m \in ReachableIn(graph, n) : ~Disabled(l, m)
  BY DEF IInv, ReportedInTraps, ReportsAreDeadlocks
<1>1. PICK c \in SUBSET Nodes, ls \in SUBSET Lock : Trap(c, ls) /\ n \in c
  BY DEF InTrap, InTrapOf
<1>2. ReachableIn(graph, n) = c
  BY <1>1, TrapIsReached DEF IInv, Trap
<1>3. \E l \in KnownLocks : \A m \in c : Disabled(l, m)
  BY <1>1 DEF Trap, AlwaysDisabled
<1>4. \E l \in KnownLocks : \E m \in c : ~Disabled(l, m)
  BY <1>1 DEF Trap, AlwaysDisabled
<1> QED
  BY <1>1, <1>2, <1>3, <1>4 DEF Trap

(* No false alarm: what is reported is stuck and no normal end, or cannot go *)
(* anywhere where some lock of the program is acquired, while another is.   *)
THEOREM ReportsAreGenuine == Spec => []ReportsAreDeadlocks
<1>1. IInv => ReportsAreDeadlocks
  BY GenuineReports
<1> QED
  BY <1>1, Inductive, PTL
-----------------------------------------------------------------------------
(* The cycles that OneWayCyclesReported is about. *)
Blocking(c) == c \in SUBSET Nodes /\ OneWayCycle(c) /\ ConsistentlyBlocked(c) # {}

(* The search is on its way round c: the end of the path is all that was    *)
(* visited of c, and no edge of the current state has been taken yet.       *)
OnTheWay(c) ==
  /\ frames # <<>>
  /\ Top.rest = Out(Top.node)
  /\ \E i \in 1 .. Len(frames) :
       /\ \A j \in i .. Len(frames) : frames[j].node \in c
       /\ c \cap visited \subseteq {frames[j].node : j \in i .. Len(frames)}

(* Such a cycle is not met yet, or being walked round, or in its group.     *)
CyclesFollowed ==
  \A c : Blocking(c) => \/ c \cap visited = {}
                        \/ OnTheWay(c)
                        \/ groups[ConsistentlyBlocked(c)] # {}

CInv == CyclesFollowed /\ OneWayCyclesReported

LEMMA SameCycles ==
  ASSUME graph' = graph
  PROVE  /\ \A n : Out(n)' = Out(n)
         /\ \A c : ConsistentlyBlocked(c)' = ConsistentlyBlocked(c)
         /\ \A c : Blocking(c)' <=> Blocking(c)
<1>1. Nodes' = Nodes /\ KnownLocks' = KnownLocks
  BY DEF Nodes, KnownLocks
<1>2. \A n : Out(n)' = Out(n)
  BY DEF Out
<1>3. \A l, n : Disabled(l, n)' <=> Disabled(l, n)
  BY <1>2 DEF Disabled
<1>4. \A c : AlwaysDisabled(c)' = AlwaysDisabled(c)
  BY <1>1, <1>3 DEF AlwaysDisabled
<1>5. \A c : Stable(c)' <=> Stable(c)
  BY <1>2 DEF Stable
<1>6. \A c : ConsistentlyBlocked(c)' = ConsistentlyBlocked(c)
  BY <1>1, <1>4, <1>5 DEF ConsistentlyBlocked
<1>7. \A c : OneWayCycle(c)' <=> OneWayCycle(c)
  BY <1>2 DEF OneWayCycle
<1> QED
  BY <1>1, <1>2, <1>6, <1>7 DEF Blocking

(* From a state of such a cycle there is one way on, and it stays on it.    *)
LEMMA OneWay ==
  ASSUME TypeOK, NEW c, Blocking(c), NEW n \in c
  PROVE  /\ n \in Nodes /\ ReachableIn(graph, n) = c
         /\ Out(n) # {}
         /\ \A d, e \in Out(n) : d.to = e.to /\ d.to \in c
<1>1. PICK m \in c : {e.to : e \in Out(n)} = {m}
  BY DEF Blocking, OneWayCycle
<1>2. n \in Nodes /\ ReachableIn(graph, n) = c
  BY DEF Blocking, OneWayCycle
<1>3. Out(n) # {} /\ \A d \in Out(n) : d.to = m
  BY <1>1
<1> QED
  BY <1>2, <1>3

(* Groups are sets of locks of the program. *)
LEMMA BlockedLocks ==
  ASSUME NEW c
  PROVE  ConsistentlyBlocked(c) \in SUBSET Lock
BY DEF ConsistentlyBlocked, AlwaysDisabled, KnownLocks

(* What the walk round such a cycle closes is the whole cycle.              *)
LEMMA WholeCycle ==
  ASSUME IInv, NEW c, Blocking(c), OnTheWay(c), NEW e \in Top.rest, e.to \in stack, e.to \in visited
  PROVE  CycleFrom(e.to) = c
<1> DEFINE start == CHOOSE i \in DOMAIN Path : Path[i] = e.to
<1>0. TypeOK /\ FramesSimple /\ frames # <<>>
  BY DEF IInv, OnTheWay
<1>1. /\ DOMAIN Path = 1 .. Len(frames)
      /\ Len(Path) = Len(frames)
      /\ Len(frames) \in Nat \ {0}
      /\ \A i \in 1 .. Len(frames) : Path[i] = frames[i].node /\ Path[i] \in Nodes
  BY <1>0, PathOfFrames, TopFrame
<1>2. PICK i \in 1 .. Len(frames) :
        /\ \A j \in i .. Len(frames) : frames[j].node \in c
        /\ c \cap visited \subseteq {frames[j].node : j \in i .. Len(frames)}
  BY DEF OnTheWay
<1>3. e \in Out(Top.node) /\ Len(frames) \in i .. Len(frames) /\ Top.node \in c
  BY <1>0, <1>1, <1>2, TopFrame DEF Top
<1>4. e.to \in c
  BY <1>0, <1>3, OneWay
<1>5. PICK k \in i .. Len(frames) : frames[k].node = e.to
  BY <1>2, <1>4
<1>6. k \in 1 .. Len(frames)
  BY <1>1, <1>2
<1>7. \A j \in 1 .. Len(frames) : Path[j] = e.to => j = k
  BY <1>0, <1>1, <1>5, <1>6 DEF FramesSimple
<1>8. start = k
  BY <1>1, <1>5, <1>6, <1>7
<1>9. CycleFrom(e.to) = {Path[j] : j \in k .. Len(frames)}
  BY <1>1, <1>8 DEF CycleFrom
<1>10. \A j \in k .. Len(frames) : j \in i .. Len(frames) /\ j \in 1 .. Len(frames)
  BY <1>1, <1>2, <1>5
<1>11. CycleFrom(e.to) = {frames[j].node : j \in k .. Len(frames)}
  BY <1>1, <1>9, <1>10
<1> HIDE DEF start
<1>12. CycleFrom(e.to) \subseteq c /\ e.to \in CycleFrom(e.to)
  <2>1. k \in k .. Len(frames)
    BY <1>1, <1>6
  <2> QED
    BY <1>2, <1>5, <1>10, <1>11, <2>1
<1>13. Closed(CycleFrom(e.to))
  <2> SUFFICES ASSUME NEW d \in graph.edges, NEW j \in k .. Len(frames), d.from = frames[j].node
               PROVE  d.to \in CycleFrom(e.to)
    BY <1>11 DEF Closed
  <2>1. d \in Out(frames[j].node) /\ frames[j].node \in c /\ j \in 1 .. Len(frames)
    BY <1>2, <1>10 DEF Out
  <2>2. CASE j = Len(frames)
    <3>1. d.to = e.to
      BY <1>0, <1>3, <2>1, <2>2, OneWay DEF Top
    <3> QED
      BY <1>12, <3>1
  <2>3. CASE j # Len(frames)
    <3>1. j \in 1 .. Len(frames) - 1 /\ j + 1 \in k .. Len(frames)
      BY <1>1, <1>6, <2>1, <2>3
    <3>2. PICK f \in Out(frames[j].node) : f.to = frames[j + 1].node
      BY <1>0, <3>1 DEF FramesSimple
    <3>3. d.to = frames[j + 1].node
      BY <1>0, <2>1, <3>2, OneWay
    <3> QED
      BY <1>11, <3>1, <3>3
  <2> QED
    BY <2>2, <2>3
<1>14. c \subseteq CycleFrom(e.to)
  <2>1. e.to \in Nodes /\ ReachableIn(graph, e.to) = c
    BY <1>0, <1>4, OneWay
  <2>2. CycleFrom(e.to) \in SUBSET Nodes
    BY <1>12 DEF Blocking
  <2> QED
    BY <1>0, <1>12, <1>13, <2>1, <2>2, Reachable
<1> QED
  BY <1>12, <1>14
-----------------------------------------------------------------------------
LEMMA InitCInv ==
  ASSUME Init
  PROVE  CInv
BY DEF Init, CInv, CyclesFollowed, OneWayCyclesReported

(* Once the search is over nothing changes. *)
LEMMA StillReported ==
  ASSUME graph' = graph, phase' = phase, deadlocks' = deadlocks, OneWayCyclesReported
  PROVE  OneWayCyclesReported'
<1>1. \A n : Terminal(n)' <=> Terminal(n)
  BY DEF Terminal, Out
<1>2. \A l, n : Disabled(l, n)' <=> Disabled(l, n)
  BY DEF Disabled, Out
<1>3. \A n : ReachableIn(graph', n) = ReachableIn(graph, n)
  OBVIOUS
<1>4. \A c : ConsistentlyBlocked(c)' = ConsistentlyBlocked(c)
  BY SameCycles
<1>5. \A c : OneWayCycle(c)' <=> OneWayCycle(c)
  BY DEF OneWayCycle, Out
<1> QED
  BY <1>1, <1>2, <1>3, <1>4, <1>5 DEF OneWayCyclesReported

(* In the search the report is still to be made.                            *)
LEMMA NotReportedYet ==
  ASSUME graph' = graph, phase = "cycles", phase' = phase,
         NEW G \in {g \in [SUBSET Lock -> SUBSET Nodes] : \A ls \in SUBSET Lock : groups[ls] \subseteq g[ls]},
         groups' = G, CInv,
         \A c : Blocking(c) /\ OnTheWay(c) =>
                  OnTheWay(c)' \/ groups'[ConsistentlyBlocked(c)] # {},
         \A c : Blocking(c) /\ c \cap visited = {} =>
                  c \cap visited' = {} \/ OnTheWay(c)'
  PROVE  CInv'
<1>1. OneWayCyclesReported'
  BY DEF OneWayCyclesReported
<1>2. \A c : /\ ConsistentlyBlocked(c)' = ConsistentlyBlocked(c)
             /\ Blocking(c)' <=> Blocking(c)
  BY SameCycles
<1>3. ASSUME NEW c, Blocking(c)'
      PROVE  c \cap visited' = {} \/ OnTheWay(c)' \/ groups'[ConsistentlyBlocked(c)'] # {}
  <2>1. Blocking(c) /\ ConsistentlyBlocked(c)' = ConsistentlyBlocked(c)
    BY <1>2, <1>3
  <2>2. \/ c \cap visited = {}
        \/ OnTheWay(c)
        \/ groups[ConsistentlyBlocked(c)] # {}
    BY <2>1 DEF CInv, CyclesFollowed
  <2>3. groups[ConsistentlyBlocked(c)] \subseteq groups'[ConsistentlyBlocked(c)]
    BY BlockedLocks
  <2> QED
    BY <2>1, <2>2, <2>3
<1> QED
  BY <1>1, <1>3 DEF CInv, CyclesFollowed

LEMMA ScanTerminalCInv ==
  ASSUME IInv, CInv, ScanTerminal
  PROVE  CInv'
<1>1. /\ graph' = graph /\ visited' = visited /\ frames' = frames /\ groups' = groups
      /\ deadlocks' = {n \in graph.nodes : Terminal(n) /\ n \notin graph.exits}
      /\ phase' = IF deadlocks' = {} THEN "cycles" ELSE "done"
  BY DEF ScanTerminal
<1>2. OneWayCyclesReported'
  <2>1. \A n : Terminal(n)' <=> Terminal(n)
    BY <1>1 DEF Terminal, Out
  <2>2. phase' = "done" => \E n \in deadlocks' : Terminal(n)'
    BY <1>1, <2>1
  <2> QED
    BY <2>2 DEF OneWayCyclesReported
<1>3. \A c : OnTheWay(c) => OnTheWay(c)'
  BY <1>1 DEF OnTheWay, Top, Out
<1>4. CyclesFollowed'
  BY <1>1, <1>3, SameCycles DEF CInv, CyclesFollowed
<1> QED
  BY <1>2, <1>4 DEF CInv

(* The state a search starts in is the first of its cycle.                  *)
LEMMA StartSearchCInv ==
  ASSUME IInv, CInv, StartSearch
  PROVE  CInv'
<1>1. PICK n \in graph.nodes \ visited :
        /\ visited' = visited \cup {n}
        /\ frames' = <<[node |-> n, rest |-> Out(n)]>>
  BY DEF StartSearch, Enter
<1>2. /\ frames = <<>> /\ phase = "cycles"
      /\ graph' = graph /\ phase' = phase /\ groups' = groups
      /\ groups \in [SUBSET Lock -> SUBSET Nodes]
  BY DEF IInv, TypeOK, StartSearch, Nodes
<1>3. \A c : ~ OnTheWay(c)
  BY <1>2 DEF OnTheWay
<1>4. ASSUME NEW c, c \cap visited = {}, c \cap visited' # {}
      PROVE  OnTheWay(c)'
  <2>1. n \in c /\ c \cap visited' = {n}
    BY <1>1, <1>4
  <2>2. /\ frames' # <<>> /\ Len(frames') = 1 /\ frames'[1].node = n /\ frames'[1].rest = Out(n)
    BY <1>1
  <2>3. Out(n)' = Out(n)
    BY <1>2 DEF Out
  <2>4. \A j \in 1 .. 1 : j = 1
    OBVIOUS
  <2> QED
    BY <2>1, <2>2, <2>3, <2>4 DEF OnTheWay, Top, Out
<1> QED
  BY <1>2, <1>3, <1>4, NotReportedYet

(* On a cycle already entered the walk goes on to its next state; a cycle   *)
(* not met before is entered at one state.                                  *)
LEMMA DescendCInv ==
  ASSUME IInv, CInv, NEW e \in graph.edges, Descend(e)
  PROVE  CInv'
<1> DEFINE n == Len(frames)
           top == [node |-> e.to, rest |-> Out(e.to)]
<1>1. /\ TypeOK /\ FramesSimple /\ frames # <<>> /\ e \in Top.rest /\ e.to \notin visited
      /\ visited' = visited \cup {e.to}
      /\ frames' = Append(Advanced(e), top)
      /\ graph' = graph /\ phase' = phase /\ groups' = groups /\ phase = "cycles"
      /\ groups \in [SUBSET Lock -> SUBSET Nodes]
  BY DEF IInv, TypeOK, Descend, Following, Enter, Nodes
<1>2. /\ n \in Nat \ {0} /\ Top = frames[n] /\ e \in Out(Top.node)
      /\ Advanced(e) \in Seq(Frame) /\ Len(Advanced(e)) = n
      /\ \A i \in 1 .. n : Advanced(e)[i].node = frames[i].node
  BY <1>1, TopFrame, AdvancedFrames
<1>3. top \in Frame /\ top.node = e.to /\ top.rest = Out(e.to)
  BY <1>1, GraphFields DEF Frame
<1> HIDE DEF top
<1>4. /\ Len(frames') = n + 1 /\ frames' # <<>>
      /\ \A i \in 1 .. n : frames'[i].node = frames[i].node
      /\ frames'[n + 1] = top
  <2>1. /\ frames' \in Seq(Frame) /\ Len(frames') = n + 1
        /\ \A i \in 1 .. n : frames'[i] = Advanced(e)[i]
        /\ frames'[n + 1] = top
    BY <1>1, <1>2, <1>3, PushFrame
  <2>2. frames' # <<>>
    BY <1>2, <2>1
  <2> QED
    BY <1>2, <2>1, <2>2
<1> HIDE DEF n
<1>5. Top' = top /\ Out(e.to)' = Out(e.to)
  BY <1>1, <1>4 DEF Top, Out
<1>6. ASSUME NEW c, Blocking(c), OnTheWay(c) PROVE OnTheWay(c)'
  <2>1. PICK i \in 1 .. n :
          /\ \A j \in i .. n : frames[j].node \in c
          /\ c \cap visited \subseteq {frames[j].node : j \in i .. n}
    BY <1>6 DEF OnTheWay, n
  <2>2. i \in 1 .. n + 1 /\ n \in i .. n /\ n + 1 \in i .. n + 1
    BY <1>2, <2>1
  <2>3. e.to \in c
    BY <1>1, <1>2, <1>6, <2>1, <2>2, OneWay
  <2>4. \A j \in i .. n : j \in i .. n + 1 /\ j \in 1 .. n
    BY <1>2, <2>1
  <2>5. \A j \in i .. n + 1 : j \in i .. n \/ j = n + 1
    BY <1>2, <2>1
  <2>6. \A j \in i .. n + 1 : frames'[j].node \in c
    BY <1>3, <1>4, <2>1, <2>3, <2>4, <2>5
  <2>7. c \cap visited' \subseteq {frames'[j].node : j \in i .. n + 1}
    BY <1>1, <1>3, <1>4, <2>1, <2>2, <2>4
  <2> QED
    BY <1>3, <1>4, <1>5, <2>2, <2>6, <2>7 DEF OnTheWay
<1>7. ASSUME NEW c, c \cap visited = {}, c \cap visited' # {} PROVE OnTheWay(c)'
  <2>1. e.to \in c /\ c \cap visited' = {e.to}
    BY <1>1, <1>7
  <2>2. n + 1 \in 1 .. n + 1 /\ \A j \in n + 1 .. n + 1 : j = n + 1
    BY <1>2
  <2>3. n + 1 \in n + 1 .. n + 1
    BY <1>2
  <2> QED
    BY <1>3, <1>4, <1>5, <2>1, <2>2, <2>3 DEF OnTheWay
<1> QED
  BY <1>1, <1>6, <1>7, NotReportedYet

(* The walk round a cycle ends here, and puts the cycle into its group.     *)
LEMMA CloseCycleCInv ==
  ASSUME IInv, CInv, NEW e \in graph.edges, CloseCycle(e)
  PROVE  CInv'
<1> DEFINE cycle == CycleFrom(e.to)
           blocked == ConsistentlyBlocked(cycle)
<1>1. /\ TypeOK /\ FramesSimple /\ frames # <<>> /\ e \in Top.rest /\ e.to \in stack
      /\ groups' = IF blocked = {} THEN groups ELSE [groups EXCEPT ![blocked] = @ \cup cycle]
      /\ visited' = visited /\ e.to \in visited
      /\ graph' = graph /\ phase' = phase /\ phase = "cycles"
      /\ groups \in [SUBSET Lock -> SUBSET Nodes]
  BY DEF IInv, TypeOK, CloseCycle, Following, Nodes
<1>2. cycle \subseteq Nodes /\ blocked \in SUBSET Lock
  BY <1>1, TopFrame, SliceOfPath, BlockedLocks
<1>3. ASSUME NEW c, Blocking(c), OnTheWay(c)
      PROVE  groups'[ConsistentlyBlocked(c)] # {}
  <2>1. cycle = c
    BY <1>1, <1>3, WholeCycle
  <2>2. blocked # {} /\ cycle # {} /\ blocked = ConsistentlyBlocked(c)
    BY <1>3, <2>1 DEF Blocking, OneWayCycle
  <2> HIDE DEF cycle, blocked
  <2> QED
    BY <1>1, <1>2, <2>2
<1> HIDE DEF cycle, blocked
<1>4. groups' \in [SUBSET Lock -> SUBSET Nodes] /\ \A ls \in SUBSET Lock : groups[ls] \subseteq groups'[ls]
  BY <1>1, <1>2
<1> QED
  BY <1>1, <1>3, <1>4, NotReportedYet

(* A walk round a cycle meets no state that has been left.                  *)
LEMMA SkipVisitedCInv ==
  ASSUME IInv, CInv, NEW e \in graph.edges, SkipVisited(e)
  PROVE  CInv'
<1>1. /\ TypeOK /\ FramesSimple /\ frames # <<>> /\ e \in Top.rest /\ e.to \notin stack
      /\ visited' = visited /\ e.to \in visited
      /\ graph' = graph /\ phase' = phase /\ phase = "cycles" /\ groups' = groups
      /\ groups \in [SUBSET Lock -> SUBSET Nodes]
  BY DEF IInv, TypeOK, SkipVisited, Following, Nodes
<1>2. ASSUME NEW c, Blocking(c), OnTheWay(c) PROVE FALSE
  <2>1. PICK i \in 1 .. Len(frames) :
          /\ \A j \in i .. Len(frames) : frames[j].node \in c
          /\ c \cap visited \subseteq {frames[j].node : j \in i .. Len(frames)}
    BY <1>2 DEF OnTheWay
  <2>2. Len(frames) \in Nat \ {0} /\ e \in Out(Top.node) /\ Top = frames[Len(frames)]
    BY <1>1, TopFrame
  <2>3. Len(frames) \in i .. Len(frames) /\ \A j \in i .. Len(frames) : j \in 1 .. Len(frames)
    BY <2>1, <2>2
  <2>4. e.to \in c
    BY <1>1, <1>2, <2>1, <2>2, <2>3, OneWay
  <2>5. e.to \in stack
    BY <1>1, <2>1, <2>3, <2>4 DEF FramesSimple
  <2> QED
    BY <1>1, <2>5
<1> QED
  BY <1>1, <1>2, NotReportedYet

(* Nor does it turn back. *)
LEMMA BacktrackCInv ==
  ASSUME IInv, CInv, Backtrack
  PROVE  CInv'
<1>1. /\ TypeOK /\ frames # <<>> /\ Top.rest = {} /\ visited' = visited
      /\ graph' = graph /\ phase' = phase /\ phase = "cycles" /\ groups' = groups
      /\ groups \in [SUBSET Lock -> SUBSET Nodes]
  BY DEF IInv, TypeOK, Backtrack, Nodes
<1>2. ASSUME NEW c, Blocking(c), OnTheWay(c) PROVE FALSE
  <2>1. Len(frames) \in Nat \ {0} /\ Top = frames[Len(frames)]
    BY <1>1, TopFrame
  <2>2. Top.node \in c /\ Out(Top.node) = {}
    <3>1. PICK i \in 1 .. Len(frames) : \A j \in i .. Len(frames) : frames[j].node \in c
      BY <1>2 DEF OnTheWay
    <3>2. Len(frames) \in i .. Len(frames)
      BY <2>1, <3>1
    <3> QED
      BY <1>1, <1>2, <2>1, <3>1, <3>2 DEF OnTheWay
  <2> QED
    BY <1>1, <1>2, <2>2, OneWay
<1> QED
  BY <1>1, <1>2, NotReportedYet

(* Every state was visited, so every such cycle is in its group, and what   *)
(* is reported of a group is in a trap of the same locks.                   *)
LEMMA ReportGroupsCInv ==
  ASSUME IInv, CInv, ReportGroups
  PROVE  CInv'
<1> DEFINE found == {ls \in SUBSET Lock : groups[ls] # {}}
<1>1. PICK pick \in [found -> UNION Range(groups)] :
        /\ \A ls \in found : pick[ls] \in groups[ls]
        /\ deadlocks' = Range(pick)
  BY DEF ReportGroups
<1>2. /\ frames = <<>> /\ graph.nodes \subseteq visited /\ TypeOK
      /\ graph' = graph /\ visited' = visited /\ frames' = frames /\ groups' = groups
  BY DEF IInv, ReportGroups
<1>3. ASSUME NEW c, Blocking(c)
      PROVE  \E n \in deadlocks' : \A m \in ReachableIn(graph, n), l \in ConsistentlyBlocked(c) : Disabled(l, m)
  <2> DEFINE ls == ConsistentlyBlocked(c)
  <2>1. ls \in SUBSET Lock /\ groups[ls] # {}
    <3>1. ~ OnTheWay(c)
      BY <1>2 DEF OnTheWay
    <3>2. c \cap visited # {}
      BY <1>2, <1>3 DEF Blocking, OneWayCycle, Nodes
    <3> QED
      BY <1>3, <3>1, <3>2, BlockedLocks DEF CInv, CyclesFollowed
  <2> HIDE DEF ls
  <2>2. ls \in found
    BY <2>1
  <2>3. pick[ls] \in groups[ls] /\ pick[ls] \in deadlocks'
    BY <1>1, <2>2 DEF Range
  <2>4. PICK t \in SUBSET Nodes : Trap(t, ls) /\ pick[ls] \in t
    BY <2>1, <2>3 DEF IInv, GroupsInTraps, InTrapOf
  <2>5. ReachableIn(graph, pick[ls]) = t
    BY <1>2, <2>4, TrapIsReached DEF Trap
  <2>6. \A m \in t, l \in ls : Disabled(l, m)
    BY <2>4 DEF Trap, AlwaysDisabled
  <2> QED
    BY <2>3, <2>5, <2>6 DEF ls
<1>4. OneWayCyclesReported'
  <2>1. \A c : ConsistentlyBlocked(c)' = ConsistentlyBlocked(c) /\ (Blocking(c)' <=> Blocking(c))
    BY <1>2, SameCycles
  <2>2. \A l, n : Disabled(l, n)' <=> Disabled(l, n)
    BY <1>2 DEF Disabled, Out
  <2>3. ASSUME NEW n \in graph.nodes, OneWayCycle(ReachableIn(graph, n))', ConsistentlyBlocked(ReachableIn(graph, n))' # {}
        PROVE  Blocking(ReachableIn(graph, n))
    <3>1. ReachableIn(graph, n) \subseteq Nodes
      BY <1>2, Reachable DEF Nodes
    <3>2. OneWayCycle(ReachableIn(graph, n)) 
      BY <1>2, <2>3 DEF OneWayCycle, Out
    <3> QED
      BY <1>2, <2>1, <2>3, <3>1, <3>2 DEF Blocking
  <2> QED
    BY <1>2, <1>3, <2>1, <2>2, <2>3 DEF OneWayCyclesReported
<1>5. \A c : OnTheWay(c) => OnTheWay(c)'
  BY <1>2 DEF OnTheWay, Top, Out
<1>6. CyclesFollowed'
  BY <1>2, <1>5, SameCycles DEF CInv, CyclesFollowed
<1> QED
  BY <1>4, <1>6 DEF CInv

LEMMA StutterCInv ==
  ASSUME CInv, UNCHANGED vars
  PROVE  CInv'
<1>1. \A c : OnTheWay(c) => OnTheWay(c)'
  BY DEF vars, OnTheWay, Top, Out
<1>2. CyclesFollowed'
  BY <1>1, SameCycles DEF vars, CInv, CyclesFollowed
<1> QED
  BY <1>2, StillReported DEF vars, CInv

LEMMA StepCInv ==
  ASSUME IInv, CInv, [Next]_vars
  PROVE  CInv'
<1>1. CASE ScanTerminal
  BY <1>1, ScanTerminalCInv
<1>2. CASE StartSearch
  BY <1>2, StartSearchCInv
<1>3. ASSUME NEW e \in graph.edges, Descend(e) \/ CloseCycle(e) \/ SkipVisited(e)
      PROVE  CInv'
  BY <1>3, DescendCInv, CloseCycleCInv, SkipVisitedCInv
<1>4. CASE Backtrack
  BY <1>4, BacktrackCInv
<1>5. CASE ReportGroups
  BY <1>5, ReportGroupsCInv
<1>6. CASE UNCHANGED vars
  BY <1>6, StutterCInv
<1> QED
  BY <1>1, <1>2, <1>3, <1>4, <1>5, <1>6 DEF Next, Search, Terminated

(* No miss where there is one way round: if the search ends and the graph   *)
(* has a cycle that can be walked in one way only, with some but not all    *)
(* locks disabled on it, a state stuck with these locks is reported.        *)
THEOREM OneWayCyclesAreReported == Spec => []OneWayCyclesReported
<1>1. Init => CInv
  BY InitCInv
<1>2. IInv /\ CInv /\ [Next]_vars => CInv'
  BY StepCInv
<1>3. CInv => OneWayCyclesReported
  BY DEF CInv
<1> QED
  BY <1>1, <1>2, <1>3, Inductive, PTL DEF Spec
-----------------------------------------------------------------------------
Initial == Net.initial
HasNet == "net" \in DOMAIN graph

(* What is missing at the transition that is explained. *)
Lacking == DOMAIN Deficits(subject[1], NeededResources(subject[1], subject[2]))

(* Each state but the first was found by an edge from the level before it.  *)
FoundByLevels ==
  /\ DOMAIN previous = reached \ {Initial}
  /\ \A m \in DOMAIN previous :
       /\ previous[m] \in graph.edges
       /\ previous[m].to = m
       /\ previous[m].from \in reached
       /\ Distance(m) = Distance(previous[m].from) + 1

(* All edges of a state that is reached and no longer queued were followed. *)
LeftIsFollowed ==
  \A e \in graph.edges : e.from \in reached \ Range(queue) => e.to \in reached

(* The queue holds states of two levels, the nearer ones first.             *)
QueueInOrder ==
  \A i, j \in 1 .. Len(queue) : i =< j =>
    /\ Distance(queue[i]) =< Distance(queue[j])
    /\ Distance(queue[j]) =< Distance(queue[i]) + 1

(* What is as near as the head of the queue has been found. *)
NearerIsReached ==
  queue # <<>> =>
    \A m \in Nodes : Distance(m) =< Distance(Head(queue)) => m \in reached

SearchInv ==
  /\ queue \in Seq(Nodes)
  /\ Range(queue) \subseteq reached
  /\ reached \subseteq Nodes
  /\ Initial \in reached
  /\ FoundByLevels /\ LeftIsFollowed /\ QueueInOrder /\ NearerIsReached

(* Tokens that are still to be accounted for are missing where the walk     *)
(* back is; what is accounted for has been named, and holds what it took.   *)
TraceInv ==
  /\ remaining = [p \in DOMAIN remaining |-> remaining[p]]
  /\ DOMAIN remaining \subseteq Lacking
  /\ \A p \in DOMAIN remaining : remaining[p] \in Nat \ {0}
  /\ step = "search" => /\ trace = <<>>
                        /\ DOMAIN remaining = Lacking
                        /\ \A p \in Lacking : remaining[p] = InitialTokens(p) - Tokens(subject[1], p)
  /\ step = "trace" =>
       /\ at \in reached
       /\ \A p \in DOMAIN remaining :
            /\ remaining[p] =< InitialTokens(p) - Tokens(at, p)
            /\ InitialTokens(p) = 1 => Net.holders[at][p] \subseteq Net.holders[subject[1]][p]
  /\ step = "explained" => remaining = <<>>
  /\ trace \in Seq([edge : graph.edges, places : SUBSET Lacking])
  /\ \A p \in Lacking \ DOMAIN remaining : NamedFor(p) # {}
  /\ \A p \in Lacking : InitialTokens(p) = 1 =>
       \A e \in NamedFor(p) : Net.trans[e.trans].thread \in Net.holders[subject[1]][p]

RInv ==
  /\ IInv
  /\ graph \in Graphs
  /\ step \in {"none", "search", "trace", "explained"}
  /\ subject = <<>> <=> step = "none"
  /\ step = "none" => previous = <<>> /\ trace = <<>>
  /\ step # "none" => HasNet /\ subject[1] \in Nodes /\ SearchInv /\ TraceInv
-----------------------------------------------------------------------------
(* What is assumed of a graph with a net. *)
LEMMA NetFields ==
  ASSUME TypeOK, graph \in Graphs, HasNet
  PROVE  /\ Initial \in Nodes
         /\ Nodes = ReachableIn(graph, Initial)
         /\ \A n \in Nodes, p \in Net.resources : Tokens(n, p) \in Nat
         /\ \A e \in graph.edges, p \in Net.resources :
              InitialTokens(p) = 1 =>
                /\ Tokens(e.from, p) > Tokens(e.to, p) =>
                     Net.trans[e.trans].thread \in Net.holders[e.to][p]
                /\ Tokens(e.from, p) = 0 /\ Tokens(e.to, p) = 0 =>
                     Net.holders[e.from][p] \subseteq Net.holders[e.to][p]
<1>1. NetWellFormed(graph)
  BY NetAssumption DEF HasNet
<1>2. Initial \in Nodes
  BY <1>1 DEF NetWellFormed, Net, Nodes, Initial
<1>3. ReachableIn(graph, Initial) \subseteq Nodes
  BY <1>2, Reachable
<1>4. Nodes \subseteq ReachableIn(graph, Initial)
  BY <1>1 DEF NetWellFormed, Net, Nodes, Initial
<1>5. \A n \in Nodes, p \in Net.resources : Tokens(n, p) \in Nat
  BY <1>1 DEF NetWellFormed, Net, Nodes, Tokens
<1>6. \A e \in graph.edges, p \in Net.resources :
        InitialTokens(p) = 1 =>
          /\ Tokens(e.from, p) > Tokens(e.to, p) =>
               Net.trans[e.trans].thread \in Net.holders[e.to][p]
          /\ Tokens(e.from, p) = 0 /\ Tokens(e.to, p) = 0 =>
               Net.holders[e.from][p] \subseteq Net.holders[e.to][p]
  BY <1>1 DEF NetWellFormed, Net, Tokens, InitialTokens
<1> QED
  BY <1>2, <1>3, <1>4, <1>5, <1>6

(* A function of nothing. *)
LEMMA OfNothing ==
  ASSUME NEW f, f = [x \in DOMAIN f |-> f[x]], DOMAIN f = {}
  PROVE  f = <<>>
<1>1. f \in [1 .. 0 -> {}]
  OBVIOUS
<1>2. f \in Seq({}) /\ Len(f) = 0
  BY <1>1
<1> QED
  BY <1>2, EmptySeq

(* The least of some numbers. *)
LEMMA LeastOf ==
  ASSUME NEW S \in SUBSET Nat, NEW x \in S
  PROVE  Min(S) \in S /\ \A y \in S : Min(S) =< y
<1>1. IsWellFoundedOn(Below, Nat)
  BY NatLessThanWellFounded DEF Below, OpToRel
<1>2. S \subseteq Nat /\ S # {}
  OBVIOUS
<1>3. PICK m \in S : \A y \in S : ~(<<y, m>> \in Below)
  BY ONLY <1>1, <1>2, WFMin
<1>4. \A y \in S : m =< y
  <2> SUFFICES ASSUME NEW y \in S, ~(m =< y) PROVE FALSE
    OBVIOUS
  <2>1. y \in Nat /\ m \in Nat /\ y < m
    OBVIOUS
  <2>2. <<y, m>> \in Below
    BY <2>1 DEF Below
  <2> QED
    BY <2>2, <1>3
<1>5. Min(S) = CHOOSE z \in S : \A y \in S : z =< y
  BY DEF Min
<1> QED
  BY <1>3, <1>4, <1>5

(* The distance is a number; an edge leads one level on at most; and there  *)
(* is an edge from the level before.                                        *)
LEMMA Distances ==
  ASSUME TypeOK, graph \in Graphs, HasNet
  PROVE  /\ \A n \in Nodes : Distance(n) \in Nat
         /\ \A n \in Nodes : Distance(n) = 0 <=> n = Initial
         /\ \A e \in graph.edges : Distance(e.to) =< Distance(e.from) + 1
         /\ \A n \in Nodes : n # Initial =>
              \E e \in graph.edges : e.to = n /\ Distance(e.from) =< Distance(n) - 1
<1> DEFINE w == Within(Initial)
           c == Cardinality(Nodes)
           Levels(n) == {k \in 0 .. c : n \in w[k]}
<1>1. \A n : Distance(n) = Min(Levels(n))
  BY DEF Distance, Within, Onward, Initial, Nodes
<1>2. Initial \in Nodes
  BY NetFields
<1>3. /\ w[0] = {Initial}
      /\ \A k \in Nat : w[k] \in SUBSET Nodes /\ w[k + 1] = Onward(w[k])
  BY <1>2, WithinSteps
<1>4. c \in Nat /\ w[c] = Nodes
  BY <1>2, WithinStops, Reachable, NetFields
<1> HIDE DEF w, c
<1>5. \A n \in Nodes : Levels(n) \in SUBSET Nat /\ c \in Levels(n)
  BY <1>4
<1>6. \A n \in Nodes : /\ Distance(n) \in Levels(n)
                       /\ \A k \in Levels(n) : Distance(n) =< k
  <2> SUFFICES ASSUME NEW n \in Nodes
               PROVE  /\ Distance(n) \in Levels(n)
                      /\ \A k \in Levels(n) : Distance(n) =< k
    OBVIOUS
  <2>1. Levels(n) \in SUBSET Nat /\ c \in Levels(n) /\ Distance(n) = Min(Levels(n))
    BY <1>1, <1>5
  <2> HIDE DEF Levels
  <2> QED
    BY <2>1, LeastOf
<1>7. \A n \in Nodes : Distance(n) \in 0 .. c /\ n \in w[Distance(n)]
  BY <1>6
<1>8. \A n \in Nodes : \A k \in Nat : n \in w[k] => Distance(n) =< k
  <2> SUFFICES ASSUME NEW n \in Nodes, NEW k \in Nat, n \in w[k] PROVE Distance(n) =< k
    OBVIOUS
  <2>1. CASE k \in 0 .. c
    BY <2>1, <1>6
  <2>2. CASE k \notin 0 .. c
    BY <2>2, <1>4, <1>7
  <2> QED
    BY <2>1, <2>2
<1>9. \A n \in Nodes : Distance(n) \in Nat
  BY <1>4, <1>7
<1>10. \A n \in Nodes : Distance(n) = 0 <=> n = Initial
  BY <1>3, <1>7, <1>8, <1>9
<1>11. \A e \in graph.edges : Distance(e.to) =< Distance(e.from) + 1
  <2> SUFFICES ASSUME NEW e \in graph.edges PROVE Distance(e.to) =< Distance(e.from) + 1
    OBVIOUS
  <2>1. e.from \in Nodes /\ e.to \in Nodes
    BY GraphFields
  <2>2. Distance(e.from) \in Nat /\ e.from \in w[Distance(e.from)]
    BY <2>1, <1>7, <1>9
  <2>3. w[Distance(e.from) + 1] = Onward(w[Distance(e.from)])
    BY <2>2, <1>3
  <2> HIDE DEF w
  <2>4. e.to \in w[Distance(e.from) + 1]
    BY <2>2, <2>3 DEF Onward
  <2> QED
    BY <2>1, <2>2, <2>4, <1>8
<1>12. ASSUME NEW n \in Nodes, n # Initial
       PROVE  \E e \in graph.edges : e.to = n /\ Distance(e.from) =< Distance(n) - 1
  <2>1. PICK d \in Nat : d = Distance(n)
    BY <1>9
  <2>2. d # 0 /\ d - 1 \in Nat /\ (d - 1) + 1 = d
    BY <1>10, <1>12, <2>1
  <2>3. n \in w[d] /\ w[d] = Onward(w[d - 1])
    BY <1>3, <1>7, <2>1, <2>2
  <2>4. n \notin w[d - 1]
    BY <1>8, <2>1, <2>2
  <2>5. PICK e \in graph.edges : e.to = n /\ e.from \in w[d - 1]
    BY <2>3, <2>4 DEF Onward
  <2>6. Distance(e.from) =< d - 1
    BY <2>2, <2>5, <1>8, GraphFields
  <2> QED
    BY <2>1, <2>5, <2>6
<1> QED
  BY <1>9, <1>10, <1>11, <1>12

(* Distances are a matter of the graph, which never changes.                *)
LEMMA SameDistance ==
  ASSUME graph' = graph
  PROVE  \A n : Distance(n)' = Distance(n)
BY DEF Distance, Net

(* What the search does not touch, TraceInv apart. *)
LEMMA SearchInvKept ==
  ASSUME SearchInv, graph' = graph, UNCHANGED <<queue, reached, previous>>
  PROVE  SearchInv'
BY SameDistance DEF SearchInv, FoundByLevels, LeftIsFollowed, QueueInOrder, NearerIsReached,
                    Initial, Net, Nodes

LEMMA TraceInvKept ==
  ASSUME TraceInv, graph' = graph, UNCHANGED <<subject, step, remaining, at, trace>>,
         reached \subseteq reached'
  PROVE  TraceInv'
<1>1. Lacking' = Lacking
  BY DEF Lacking, Deficits, NeededResources, Missing, Overfull, Untouched, AfterFiring, Tokens,
         InitialTokens, In, OutOf, Weight, Net
<1>2. \A n, p : Tokens(n, p)' = Tokens(n, p) /\ InitialTokens(p)' = InitialTokens(p)
  BY DEF Tokens, InitialTokens, Net
<1>3. \A p : NamedFor(p)' = NamedFor(p)
  BY DEF NamedFor
<1> QED
  BY <1>1, <1>2, <1>3 DEF TraceInv, Net

(* The queue without its head, and the states found after that.             *)
IsQueueAfter(q, new) ==
  /\ q \in Seq(Nodes)
  /\ Len(queue) \in Nat \ {0}
  /\ queue[1] = Head(queue) /\ Head(queue) \in Nodes
  /\ Len(queue) - 1 =< Len(q)
  /\ Len(q) \in Nat
  /\ \A i \in 1 .. Len(queue) - 1 : q[i] = queue[i + 1]
  /\ \A i \in Len(queue) .. Len(q) : q[i] \in new
  /\ Range(q) \subseteq Range(queue) \cup new
  /\ new \subseteq Range(q)
  /\ \A x \in Range(queue) : x = Head(queue) \/ x \in Range(q)

LEMMA QueueAfter ==
  ASSUME queue \in Seq(Nodes), queue # <<>>, NEW new \in SUBSET Nodes, IsFiniteSet(new),
         NEW order \in SetToSeqs(new), NEW q, q = Tail(queue) \o order
  PROVE  IsQueueAfter(q, new)
<1> DEFINE c == Cardinality(new)
           t == Tail(queue)
<1>1. c \in Nat
  BY FS_CardinalityType
<1>2. order \in [1 .. c -> new] /\ \A x \in new : \E i \in 1 .. c : order[i] = x
  BY SomeOrder
<1>3. order \in Seq(Nodes) /\ Len(order) = c /\ DOMAIN order = 1 .. c
  <2>1. order \in [1 .. c -> Nodes]
    BY <1>2
  <2> HIDE DEF c
  <2> QED
    BY <1>1, <2>1
<1>4. /\ Len(queue) \in Nat \ {0} /\ queue[1] = Head(queue) /\ Head(queue) \in Nodes
      /\ DOMAIN queue = 1 .. Len(queue)
      /\ t \in Seq(Nodes) /\ Len(t) = Len(queue) - 1
      /\ \A i \in 1 .. Len(queue) - 1 : t[i] = queue[i + 1]
  OBVIOUS
<1> HIDE DEF c, t
<1>5. /\ q \in Seq(Nodes) /\ Len(q) = Len(t) + c /\ DOMAIN q = 1 .. Len(t) + c
      /\ \A i \in 1 .. Len(t) : q[i] = t[i]
      /\ \A i \in 1 .. c : q[Len(t) + i] = order[i]
  <2>1. q = t \o order
    BY DEF t
  <2>2. t \in Seq(Nodes) /\ Len(t) \in Nat
    BY <1>4
  <2>3. /\ t \o order \in Seq(Nodes)
        /\ Len(t \o order) = Len(t) + Len(order)
        /\ \A i \in 1 .. Len(t) + Len(order) :
             (t \o order)[i] = IF i =< Len(t) THEN t[i] ELSE order[i - Len(t)]
    BY <2>2, <1>3, ConcatProperties
  <2>4. q \in Seq(Nodes) /\ Len(q) = Len(t) + c /\ DOMAIN q = 1 .. Len(t) + c
    BY ONLY <2>1, <2>2, <2>3, <1>1, <1>3
  <2>5. \A i \in 1 .. Len(t) : q[i] = t[i]
    BY ONLY <2>1, <2>2, <2>3, <1>1, <1>3
  <2>6. \A i \in 1 .. c : q[Len(t) + i] = order[i]
    BY ONLY <2>1, <2>2, <2>3, <1>1, <1>3
  <2> QED
    BY <2>4, <2>5, <2>6
<1>6. \A i \in Len(queue) .. Len(q) : q[i] \in new
  <2> SUFFICES ASSUME NEW i \in Len(queue) .. Len(q) PROVE q[i] \in new
    OBVIOUS
  <2>1. i - Len(t) \in 1 .. c /\ i = Len(t) + (i - Len(t))
    BY <1>1, <1>4, <1>5
  <2> QED
    BY <2>1, <1>2, <1>5
<1>7. \A i \in 1 .. Len(queue) - 1 : q[i] = queue[i + 1]
  BY <1>4, <1>5
<1>8. Range(q) \subseteq Range(queue) \cup new
  <2> SUFFICES ASSUME NEW i \in DOMAIN q PROVE q[i] \in Range(queue) \cup new
    BY DEF Range
  <2>1. CASE i \in 1 .. Len(queue) - 1
    <3>1. q[i] = queue[i + 1] /\ i + 1 \in DOMAIN queue
      BY <2>1, <1>4, <1>7
    <3> QED
      BY <3>1 DEF Range
  <2>2. CASE i \in Len(queue) .. Len(q)
    BY <2>2, <1>6
  <2> QED
    BY <2>1, <2>2, <1>1, <1>4, <1>5
<1>9. new \subseteq Range(q)
  <2> SUFFICES ASSUME NEW x \in new PROVE x \in Range(q)
    OBVIOUS
  <2>1. PICK i \in 1 .. c : order[i] = x
    BY <1>2
  <2>2. Len(t) + i \in DOMAIN q /\ q[Len(t) + i] = x
    BY <2>1, <1>1, <1>4, <1>5
  <2> QED
    BY <2>2 DEF Range
<1>10. \A x \in Range(queue) : x = Head(queue) \/ x \in Range(q)
  <2> SUFFICES ASSUME NEW i \in DOMAIN queue, i # 1 PROVE queue[i] \in Range(q)
    BY <1>4 DEF Range
  <2>1. i - 1 \in 1 .. Len(queue) - 1 /\ i - 1 \in DOMAIN q /\ (i - 1) + 1 = i
    BY <1>1, <1>4, <1>5
  <2>2. q[i - 1] = queue[i]
    BY <2>1, <1>7
  <2> QED
    BY <2>1, <2>2 DEF Range
<1> QED
  BY <1>1, <1>4, <1>5, <1>6, <1>7, <1>8, <1>9, <1>10 DEF IsQueueAfter
-----------------------------------------------------------------------------
LEMMA ReportInitRInv ==
  ASSUME ReportInit
  PROVE  RInv
BY InitIInv DEF ReportInit, RInv, Init

(* The search starts at the initial state, all tokens to be accounted for.  *)
LEMMA ExplainRInv ==
  ASSUME RInv, HasNet, NEW n \in deadlocks, NEW t, Explain(n, t)
  PROVE  RInv'
<1>1. /\ subject' = <<n, t>> /\ remaining' = Deficits(n, NeededResources(n, t))
      /\ step' = (IF remaining' = <<>> THEN "explained" ELSE "search")
      /\ queue' = <<Initial>> /\ reached' = {Initial}
      /\ previous' = <<>> /\ trace' = <<>> /\ at' = at
      /\ UNCHANGED vars /\ graph' = graph
  BY DEF Explain, RInv, Initial, vars
<1>2. n \in Nodes /\ n' = n
  BY DEF RInv, IInv, TypeOK, Nodes
<1>3. Initial \in Nodes /\ Initial' = Initial /\ Nodes' = Nodes
  BY <1>1, NetFields DEF RInv, IInv, Initial, Net, Nodes
<1>4. IInv'
  BY <1>1, StutterIInv DEF RInv
<1>5. SearchInv'
  <2>1. /\ queue' \in Seq(Nodes) /\ Len(queue') = 1 /\ queue'[1] = Initial
        /\ Range(queue') = {Initial} /\ Head(queue') = Initial
    BY <1>1, <1>3 DEF Range
  <2>2. FoundByLevels'
    BY <1>1, <1>3 DEF FoundByLevels
  <2>3. LeftIsFollowed'
    BY <1>1, <2>1 DEF LeftIsFollowed
  <2>4. \A m \in Nodes : Distance(m) \in Nat /\ (Distance(m) = 0 <=> m = Initial)
    BY Distances DEF RInv, IInv
  <2>5. QueueInOrder'
    BY <1>1, <1>3, <2>1, <2>4, SameDistance DEF QueueInOrder
  <2>6. NearerIsReached'
    BY <1>1, <1>3, <2>1, <2>4, SameDistance DEF NearerIsReached
  <2> QED
    BY <1>1, <1>3, <2>1, <2>2, <2>3, <2>5, <2>6 DEF SearchInv
<1>6. TraceInv'
  <2>1. subject'[1] = n /\ Deficits(n, NeededResources(n, t))' = Deficits(n, NeededResources(n, t))
    <3>1. Net' = Net
      BY <1>1 DEF Net
    <3>2. /\ \A p : Tokens(n, p)' = Tokens(n, p) /\ InitialTokens(p)' = InitialTokens(p)
          /\ \A p : In(t, p)' = In(t, p) /\ OutOf(t, p)' = OutOf(t, p)
      BY <3>1 DEF Tokens, InitialTokens, In, OutOf, Weight
    <3>3. Missing(n, t)' = Missing(n, t) /\ Overfull(n, t)' = Overfull(n, t)
      BY <3>1, <3>2 DEF Missing, Overfull, Untouched, AfterFiring
    <3> QED
      BY <1>1, <3>2, <3>3 DEF Deficits, NeededResources
  <2>2. DOMAIN remaining' = Lacking'
    BY <1>1, <2>1 DEF Lacking
  <2>3. \A p \in DOMAIN remaining' :
          /\ p \in Net.resources /\ Tokens(n, p) < InitialTokens(p)
          /\ remaining'[p] = InitialTokens(p) - Tokens(n, p)
    BY <1>1 DEF Deficits, NeededResources, Missing, Overfull
  <2>4. \A p \in Net.resources : Tokens(n, p) \in Nat /\ InitialTokens(p) \in Nat
    BY <1>2, NetFields DEF RInv, IInv, InitialTokens, Initial
  <2>5. \A p : Tokens(n, p)' = Tokens(n, p) /\ InitialTokens(p)' = InitialTokens(p)
    BY <1>1 DEF Tokens, InitialTokens, Net
  <2>6. \A p \in DOMAIN remaining' : remaining'[p] \in Nat \ {0}
    BY <2>3, <2>4
  <2>7. \A p : NamedFor(p)' = {}
    BY <1>1 DEF NamedFor
  <2>8. trace' \in Seq([edge : graph'.edges, places : SUBSET Lacking'])
    BY <1>1
  <2>9. step' \in {"search", "explained"} /\ (step' = "explained" => remaining' = <<>>)
    BY <1>1
  <2>10. \A p \in Lacking' : remaining'[p] = (InitialTokens(p) - Tokens(subject[1], p))'
    BY <1>1, <2>1, <2>2, <2>3, <2>5 DEF Tokens, Net
  <2>11. remaining' = [p \in DOMAIN remaining' |-> remaining'[p]]
    BY <1>1 DEF Deficits
  <2> QED
    BY <1>1, <2>2, <2>6, <2>7, <2>8, <2>9, <2>10, <2>11 DEF TraceInv
<1> QED
  BY <1>1, <1>2, <1>3, <1>4, <1>5, <1>6 DEF RInv, HasNet

(* A state found now is on the level after that of the state that is left:  *)
(* all nearer ones had been found.                                          *)
LEMMA LeaveSearchInv ==
  ASSUME RInv, Leave
  PROVE  SearchInv'
<1> DEFINE h == Head(queue)
           new == {e.to : e \in Out(h)} \ reached
<1>1. SearchInv /\ HasNet /\ TypeOK /\ graph \in Graphs
  BY DEF Leave, RInv, IInv
<1>2. queue # <<>> /\ queue \in Seq(Nodes)
  BY <1>1 DEF Leave, Found, SearchInv
<1>3. PICK order \in SetToSeqs(new), edge \in [new -> Out(h)] :
        /\ queue' = Tail(queue) \o order
        /\ \A m \in new : edge[m].to = m
        /\ previous' = [m \in new \cup DOMAIN previous |->
                         IF m \in new THEN edge[m] ELSE previous[m]]
  BY DEF Leave
<1>4. /\ reached' = reached \cup new /\ graph' = graph
      /\ Nodes' = Nodes /\ Initial' = Initial
  BY DEF Leave, vars, Nodes, Initial, Net
<1>5. h \in Nodes /\ h \in reached
  BY <1>1, <1>2 DEF SearchInv, Range
<1>6. new \in SUBSET Nodes /\ IsFiniteSet(new)
  <2>1. new \in SUBSET Nodes
    BY <1>1, GraphFields
  <2> QED
    BY <2>1, <1>1, GraphFields, FS_Subset
<1>7. \A m \in new : /\ m \notin reached /\ m \in Nodes
                    /\ edge[m] \in graph.edges /\ edge[m].from = h /\ edge[m].to = m
  BY <1>3, <1>6 DEF Out
<1> DEFINE q == queue'
<1>8. /\ q \in Seq(Nodes)
      /\ Len(queue) \in Nat \ {0}
      /\ queue[1] = h
      /\ Len(queue) - 1 =< Len(q)
      /\ Len(q) \in Nat
      /\ \A i \in 1 .. Len(queue) - 1 : q[i] = queue[i + 1]
      /\ \A i \in Len(queue) .. Len(q) : q[i] \in new
      /\ Range(q) \subseteq Range(queue) \cup new
      /\ new \subseteq Range(q)
      /\ \A x \in Range(queue) : x = h \/ x \in Range(q)
  <2>1. q = Tail(queue) \o order
    BY <1>3
  <2>2. new \in SUBSET Nodes /\ IsFiniteSet(new) /\ order \in SetToSeqs(new)
    BY <1>6
  <2> HIDE DEF q, new
  <2>3. IsQueueAfter(q, new)
    BY ONLY <2>1, <2>2, <1>2, QueueAfter
  <2> QED
    BY <2>3 DEF IsQueueAfter
<1>9. /\ \A m \in Nodes : Distance(m) \in Nat
      /\ \A m \in Nodes : Distance(m) = 0 <=> m = Initial
      /\ \A e \in graph.edges : Distance(e.to) =< Distance(e.from) + 1
      /\ \A m \in Nodes : m # Initial =>
           \E e \in graph.edges : e.to = m /\ Distance(e.from) =< Distance(m) - 1
  BY <1>1, Distances
<1>10. \A m \in Nodes : Distance(m) =< Distance(h) => m \in reached
  BY <1>1, <1>2 DEF SearchInv, NearerIsReached
<1>11. \A m \in new : Distance(m) = Distance(h) + 1
  <2> SUFFICES ASSUME NEW m \in new PROVE Distance(m) = Distance(h) + 1
    OBVIOUS
  <2>1. m \in Nodes /\ m \notin reached /\ Distance(m) =< Distance(h) + 1
    BY <1>7, <1>9
  <2>2. ~ (Distance(m) =< Distance(h))
    BY <2>1, <1>10
  <2>3. Distance(m) \in Nat /\ Distance(h) \in Nat
    BY <2>1, <1>5, <1>9
  <2> QED
    BY <2>1, <2>2, <2>3
<1>12. \A i \in 1 .. Len(queue) : queue[i] \in Nodes
  BY <1>2
<1> HIDE DEF q, new, h
<1>13. LeftIsFollowed'
  <2> SUFFICES ASSUME NEW e \in graph.edges, e.from \in reached', e.from \notin Range(q)
               PROVE  e.to \in reached'
    BY <1>4 DEF LeftIsFollowed, q
  <2>1. e.from \in reached
    BY <1>4, <1>8
  <2>2. CASE e.from = h
    BY <2>2, <1>4 DEF Out, new
  <2>3. CASE e.from \notin Range(queue)
    BY <2>1, <2>3, <1>1, <1>4 DEF SearchInv, LeftIsFollowed
  <2> QED
    BY <2>2, <2>3, <1>8
<1>14. \A i \in 1 .. Len(queue) :
         /\ Distance(h) =< Distance(queue[i]) /\ Distance(queue[i]) =< Distance(h) + 1
  <2>1. 1 \in 1 .. Len(queue) /\ \A i \in 1 .. Len(queue) : 1 =< i
    BY <1>8
  <2> QED
    BY <2>1, <1>1, <1>8 DEF SearchInv, QueueInOrder
<1>15. \A i \in 1 .. Len(q) :
         /\ q[i] \in Nodes
         /\ Distance(h) =< Distance(q[i]) /\ Distance(q[i]) =< Distance(h) + 1
  <2> SUFFICES ASSUME NEW i \in 1 .. Len(q)
               PROVE  /\ q[i] \in Nodes
                      /\ Distance(h) =< Distance(q[i]) /\ Distance(q[i]) =< Distance(h) + 1
    OBVIOUS
  <2>1. Distance(h) \in Nat
    BY <1>5, <1>9
  <2>2. CASE i \in 1 .. Len(queue) - 1
    <3>1. i + 1 \in 1 .. Len(queue) /\ q[i] = queue[i + 1]
      BY <2>2, <1>8
    <3> QED
      BY <3>1, <1>12, <1>14
  <2>3. CASE i \in Len(queue) .. Len(q)
    BY <2>1, <2>3, <1>7, <1>8, <1>11
  <2> QED
    BY <2>2, <2>3, <1>8
<1>16. \A i, j \in 1 .. Len(q) : i =< j =>
         /\ Distance(q[i]) =< Distance(q[j])
         /\ Distance(q[j]) =< Distance(q[i]) + 1
  <2> SUFFICES ASSUME NEW i \in 1 .. Len(q), NEW j \in 1 .. Len(q), i =< j
               PROVE  /\ Distance(q[i]) =< Distance(q[j])
                      /\ Distance(q[j]) =< Distance(q[i]) + 1
    OBVIOUS
  <2>1. Distance(q[i]) \in Nat /\ Distance(q[j]) \in Nat /\ Distance(h) \in Nat
    BY <1>5, <1>9, <1>15
  <2>2. Distance(q[j]) =< Distance(q[i]) + 1
    BY <2>1, <1>15
  <2>3. CASE j \in 1 .. Len(queue) - 1
    <3>1. i + 1 \in 1 .. Len(queue) /\ j + 1 \in 1 .. Len(queue) /\ i + 1 =< j + 1
      BY <2>3, <1>8
    <3>2. q[i] = queue[i + 1] /\ q[j] = queue[j + 1]
      <4>1. i \in 1 .. Len(queue) - 1
        BY <2>3, <1>8
      <4> QED
        BY <4>1, <2>3, <1>8
    <3> QED
      BY <3>1, <3>2, <2>2, <1>1 DEF SearchInv, QueueInOrder
  <2>4. CASE j \in Len(queue) .. Len(q)
    BY <2>1, <2>2, <2>4, <1>8, <1>11, <1>15
  <2> QED
    BY <2>3, <2>4, <1>8
<1>17. QueueInOrder'
  BY <1>4, <1>16, SameDistance DEF QueueInOrder, q
<1>18. NearerIsReached'
  <2> SUFFICES ASSUME q # <<>>, NEW m \in Nodes, Distance(m) =< Distance(Head(q)), m \notin reached'
               PROVE  FALSE
    BY <1>4, SameDistance DEF NearerIsReached, q
  <2>1. Head(q) = q[1] /\ 1 \in 1 .. Len(q) /\ q[1] \in Nodes
    BY <1>8, <1>15
  <2>2. Distance(m) \in Nat /\ Distance(h) \in Nat /\ Distance(q[1]) \in Nat
    BY <2>1, <1>5, <1>9
  <2>3. m \notin reached /\ m # Initial
    BY <1>1, <1>4 DEF SearchInv
  <2>4. Distance(m) > Distance(h)
    BY <2>2, <2>3, <1>10
  <2>5. Distance(m) = Distance(h) + 1 /\ Distance(q[1]) = Distance(h) + 1
    BY <2>1, <2>2, <2>4, <1>15
  <2>6. PICK e \in graph.edges : e.to = m /\ Distance(e.from) =< Distance(m) - 1
    BY <2>3, <1>9
  <2>7. e.from \in Nodes /\ Distance(e.from) \in Nat
    BY <1>1, <1>9, GraphFields
  <2>8. e.from \in reached
    BY <2>2, <2>5, <2>6, <2>7, <1>10
  <2>9. e.from \in Range(q)
    BY <2>6, <2>8, <1>4, <1>13 DEF LeftIsFollowed, q
  <2>10. PICK i \in 1 .. Len(q) : q[i] = e.from
    BY <2>9, <1>8 DEF Range
  <2>11. Distance(q[1]) =< Distance(q[i])
    BY <2>1, <2>10, <1>16
  <2> QED
    BY <2>2, <2>5, <2>6, <2>7, <2>10, <2>11
<1>19. FoundByLevels'
  <2>1. /\ DOMAIN previous = reached \ {Initial}
        /\ \A m \in DOMAIN previous :
             /\ previous[m] \in graph.edges /\ previous[m].to = m
             /\ previous[m].from \in reached
             /\ Distance(m) = Distance(previous[m].from) + 1
    BY <1>1 DEF SearchInv, FoundByLevels
  <2>2. DOMAIN previous' = reached' \ {Initial}
    BY <2>1, <1>1, <1>3, <1>4, <1>7 DEF SearchInv
  <2>3. ASSUME NEW m \in DOMAIN previous'
        PROVE  /\ previous'[m] \in graph.edges /\ previous'[m].to = m
               /\ previous'[m].from \in reached'
               /\ Distance(m) = Distance(previous'[m].from) + 1
    <3>1. CASE m \in new
      <4>1. previous'[m] = edge[m]
        BY <3>1, <1>3
      <4> QED
        BY <3>1, <4>1, <1>4, <1>5, <1>7, <1>11
    <3>2. CASE m \notin new
      <4>1. m \in DOMAIN previous /\ previous'[m] = previous[m]
        BY <3>2, <1>3
      <4> QED
        BY <4>1, <2>1, <1>4
    <3> QED
      BY <3>1, <3>2
  <2> QED
    BY <2>2, <2>3, <1>4, SameDistance DEF FoundByLevels
<1>20. /\ Range(queue') \subseteq reached' /\ reached' \subseteq Nodes' /\ Initial' \in reached'
       /\ queue' \in Seq(Nodes')
  BY <1>1, <1>4, <1>6, <1>8 DEF SearchInv, q
<1> QED
  BY <1>13, <1>17, <1>18, <1>19, <1>20 DEF SearchInv

LEMMA LeaveRInv ==
  ASSUME RInv, Leave
  PROVE  RInv'
<1>1. /\ step = "search" /\ UNCHANGED vars /\ graph' = graph
      /\ UNCHANGED <<subject, step, remaining, at, trace>> /\ reached \subseteq reached'
  BY DEF Leave, vars
<1>2. IInv'
  BY <1>1, StutterIInv DEF RInv
<1>3. TraceInv'
  BY <1>1, TraceInvKept DEF RInv
<1>4. SearchInv'
  BY LeaveSearchInv
<1> QED
  BY <1>1, <1>2, <1>3, <1>4 DEF RInv, HasNet, Nodes

(* The target has been found, as every state is reachable and a search that *)
(* has run out of states has found all that are.                            *)
LEMMA EndSearchRInv ==
  ASSUME RInv, EndSearch
  PROVE  RInv'
<1>1. /\ step = "search" /\ Found /\ step' = "trace"
      /\ at' = (IF Target \in reached THEN Target ELSE Initial)
      /\ UNCHANGED vars /\ graph' = graph
      /\ UNCHANGED <<subject, remaining, queue, reached, previous, trace>>
  BY DEF EndSearch, vars, Initial
<1>2. SearchInv /\ TraceInv /\ HasNet /\ TypeOK /\ graph \in Graphs /\ Target \in Nodes
  BY <1>1 DEF RInv, IInv, Target
<1>3. Target \in reached
  <2>1. CASE queue = <<>>
    <3>1. Range(queue) = {}
      BY <2>1 DEF Range
    <3>2. Closed(reached)
      BY <3>1, <1>2 DEF SearchInv, LeftIsFollowed, Closed
    <3>3. ReachableIn(graph, Initial) \subseteq reached
      BY <3>2, <1>2, Reachable, NetFields DEF SearchInv
    <3> QED
      BY <3>3, <1>2, NetFields
  <2>2. CASE queue # <<>> /\ Head(queue) = Target
    BY <2>2, <1>2 DEF SearchInv, Range
  <2> QED
    BY <2>1, <2>2, <1>1 DEF Found
<1>4. at' = subject[1] /\ subject' = subject /\ step' = "trace"
  BY <1>1, <1>3 DEF Target
<1>5. IInv' /\ SearchInv'
  BY <1>1, <1>2, StutterIInv, SearchInvKept DEF RInv
<1>6. TraceInv'
  <2>1. Lacking' = Lacking
    BY <1>1 DEF Lacking, Deficits, NeededResources, Missing, Overfull, Untouched, AfterFiring,
                Tokens, InitialTokens, In, OutOf, Weight, Net
  <2>2. \A n, p : Tokens(n, p)' = Tokens(n, p) /\ InitialTokens(p)' = InitialTokens(p)
    BY <1>1 DEF Tokens, InitialTokens, Net
  <2>3. \A p : NamedFor(p)' = NamedFor(p)
    BY <1>1 DEF NamedFor
  <2>4. \A p \in Lacking : Tokens(subject[1], p) \in Nat /\ InitialTokens(p) \in Nat
    BY <1>2, NetFields DEF Lacking, Deficits, NeededResources, Missing, Overfull, InitialTokens,
                           Initial, Target
  <2>5. \A p \in DOMAIN remaining' :
          /\ p \in Lacking
          /\ remaining'[p] =< InitialTokens(p) - Tokens(at', p)
          /\ Net.holders[at'][p] = Net.holders[subject[1]][p]
    BY <2>4, <1>1, <1>2, <1>4 DEF TraceInv
  <2>6. /\ at' \in reached'
        /\ \A p \in DOMAIN remaining' :
             /\ remaining'[p] =< (InitialTokens(p) - Tokens(at, p))'
             /\ Net.holders'[at'][p] \subseteq Net.holders'[subject'[1]][p]
    BY <2>5, <1>1, <1>3, <1>4 DEF InitialTokens, Tokens, Net, Target
  <2> QED
    BY <2>1, <2>2, <2>3, <2>6, <1>1, <1>2 DEF TraceInv, Net
<1> QED
  BY <1>1, <1>2, <1>4, <1>5, <1>6 DEF RInv, HasNet, Nodes

(* The walk back ends at the initial state, where nothing is missing.       *)
LEMMA EndTraceRInv ==
  ASSUME RInv, EndTrace
  PROVE  RInv'
<1>1. /\ step = "trace" /\ step' = "explained" /\ UNCHANGED vars /\ graph' = graph
      /\ at = Initial \/ remaining = <<>>
      /\ UNCHANGED <<subject, remaining, queue, reached, previous, at, trace>>
  BY DEF EndTrace, vars, Initial
<1>2. SearchInv /\ TraceInv /\ HasNet /\ TypeOK /\ graph \in Graphs
  BY <1>1 DEF RInv, IInv
<1>3. IInv' /\ SearchInv'
  BY <1>1, <1>2, StutterIInv, SearchInvKept DEF RInv
<1>4. remaining = <<>>
  <2> SUFFICES ASSUME at = Initial PROVE remaining = <<>>
    BY <1>1
  <2>1. ASSUME NEW p \in DOMAIN remaining PROVE FALSE
    <3>1. p \in Net.resources
      BY <1>2 DEF TraceInv, Lacking, Deficits, NeededResources, Missing, Overfull
    <3>2. InitialTokens(p) = Tokens(at, p) /\ Tokens(at, p) \in Nat
      BY <3>1, <1>2, NetFields DEF InitialTokens, Initial
    <3>3. remaining[p] \in Nat \ {0} /\ remaining[p] =< InitialTokens(p) - Tokens(at, p)
      BY <1>1, <1>2 DEF TraceInv
    <3> QED
      BY <3>2, <3>3
  <2>2. remaining = [p \in DOMAIN remaining |-> remaining[p]]
    BY <1>2 DEF TraceInv
  <2> QED
    BY <2>1, <2>2, OfNothing
<1>5. TraceInv'
  <2>1. Lacking' = Lacking
    BY <1>1 DEF Lacking, Deficits, NeededResources, Missing, Overfull, Untouched, AfterFiring,
                Tokens, InitialTokens, In, OutOf, Weight, Net
  <2>2. \A p : NamedFor(p)' = NamedFor(p) /\ InitialTokens(p)' = InitialTokens(p)
    BY <1>1 DEF NamedFor, InitialTokens, Tokens, Net
  <2> QED
    BY <2>1, <2>2, <1>1, <1>2, <1>4 DEF TraceInv, Net
<1> QED
  BY <1>1, <1>2, <1>3, <1>5 DEF RInv, HasNet, Nodes

(* One edge back.  Tokens that this step took are accounted for; of a       *)
(* resource with a single token the one who took it holds it in the end, as *)
(* there is none from there to the target.                                  *)
LEMMA TraceBackTraceInv ==
  ASSUME RInv, TraceBack
  PROVE  TraceInv'
<1> DEFINE e == previous[at]
           n == subject[1]
           taken == Takers(e)
           entry == [edge |-> e, places |-> taken]
           left == {p \in DOMAIN remaining : p \in taken => remaining[p] > Consumed(e, p)}
<1>1. /\ step = "trace" /\ step' = "trace" /\ graph' = graph
      /\ at # Initial
      /\ trace' = (IF taken = {} THEN trace ELSE Append(trace, entry))
      /\ remaining' = [p \in left |-> IF p \in taken THEN remaining[p] - Consumed(e, p)
                                       ELSE remaining[p]]
      /\ at' = e.from
      /\ UNCHANGED <<subject, queue, reached, previous>>
  BY DEF TraceBack, vars, Initial
<1>2. SearchInv /\ TraceInv /\ HasNet /\ TypeOK /\ graph \in Graphs
  BY <1>1 DEF RInv, IInv
<1>3. e \in graph.edges /\ e.to = at /\ e.from \in reached /\ e.from \in Nodes /\ at \in Nodes
  BY <1>1, <1>2 DEF SearchInv, FoundByLevels, TraceInv
<1>4. /\ Lacking' = Lacking
      /\ \A m, p : Tokens(m, p)' = Tokens(m, p) /\ InitialTokens(p)' = InitialTokens(p)
  BY <1>1 DEF Lacking, Deficits, NeededResources, Missing, Overfull, Untouched, AfterFiring,
              Tokens, InitialTokens, In, OutOf, Weight, Net
<1>5. \A p \in Lacking : /\ p \in Net.resources
                        /\ Tokens(at, p) \in Nat /\ Tokens(e.from, p) \in Nat
                        /\ InitialTokens(p) \in Nat
  BY <1>2, <1>3, NetFields DEF Lacking, Deficits, NeededResources, Missing, Overfull, InitialTokens,
                               Initial
<1>6. \A p \in DOMAIN remaining :
        /\ p \in Lacking
        /\ remaining[p] \in Nat \ {0}
        /\ remaining[p] =< InitialTokens(p) - Tokens(at, p)
        /\ InitialTokens(p) = 1 => Net.holders[at][p] \subseteq Net.holders[n][p]
  BY <1>1, <1>2 DEF TraceInv
<1>7. /\ taken \subseteq DOMAIN remaining
      /\ \A p \in DOMAIN remaining : p \in taken <=> Tokens(e.from, p) > Tokens(at, p)
      /\ \A p : Consumed(e, p) = Tokens(e.from, p) - Tokens(at, p)
  BY <1>3 DEF Takers, Consumed
<1>8. /\ left \subseteq DOMAIN remaining /\ DOMAIN remaining' = left
      /\ \A p \in left : remaining'[p] = IF p \in taken THEN remaining[p] - Consumed(e, p)
                                         ELSE remaining[p]
      /\ \A p \in left \cap taken : remaining[p] > Consumed(e, p)
      /\ \A p \in DOMAIN remaining \ left : p \in taken /\ ~ (remaining[p] > Consumed(e, p))
  BY <1>1
<1> HIDE DEF left, taken, e
<1>9. ASSUME NEW p \in left
      PROVE  /\ remaining'[p] \in Nat \ {0}
             /\ remaining'[p] =< InitialTokens(p) - Tokens(e.from, p)
  <2>1. p \in DOMAIN remaining /\ p \in Lacking
    BY <1>6, <1>8
  <2>2. CASE p \in taken
    BY <2>1, <2>2, <1>5, <1>6, <1>7, <1>8
  <2>3. CASE p \notin taken
    BY <2>1, <2>3, <1>5, <1>6, <1>7, <1>8
  <2> QED
    BY <2>2, <2>3
<1>10. ASSUME NEW p \in DOMAIN remaining, InitialTokens(p) = 1
       PROVE  /\ p \in taken => Net.trans[e.trans].thread \in Net.holders[n][p]
              /\ p \in left => Net.holders[e.from][p] \subseteq Net.holders[n][p]
  <2>1. /\ p \in Net.resources /\ Tokens(at, p) = 0 /\ Tokens(e.from, p) \in Nat
        /\ remaining[p] = 1
    BY <1>5, <1>6, <1>10
  <2>2. Net.holders[at][p] \subseteq Net.holders[n][p]
    BY <1>6, <1>10
  <2>3. CASE p \in taken
    <3>1. Net.trans[e.trans].thread \in Net.holders[at][p]
      BY <2>1, <2>3, <1>2, <1>3, <1>7, <1>10, NetFields
    <3>2. p \notin left
      BY <2>1, <2>3, <1>7, <1>8
    <3> QED
      BY <3>1, <3>2, <2>2
  <2>4. CASE p \notin taken
    <3>1. Tokens(e.from, p) = 0
      BY <2>1, <2>4, <1>7
    <3>2. Net.holders[e.from][p] \subseteq Net.holders[at][p]
      BY <3>1, <2>1, <1>2, <1>3, <1>10, NetFields
    <3> QED
      BY <3>2, <2>2, <2>4
  <2> QED
    BY <2>3, <2>4
<1>11. trace \in Seq([edge : graph.edges, places : SUBSET Lacking])
  BY <1>2 DEF TraceInv
<1>12. /\ trace' \in Seq([edge : graph.edges, places : SUBSET Lacking])
       /\ \A p : NamedFor(p)' = NamedFor(p) \cup (IF p \in taken THEN {e} ELSE {})
  <2>1. CASE taken = {}
    BY <2>1, <1>1, <1>11 DEF NamedFor
  <2>2. CASE taken # {}
    <3>1. entry \in [edge : graph.edges, places : SUBSET Lacking]
      BY <1>3, <1>6, <1>7
    <3> HIDE DEF entry
    <3>2. trace' = Append(trace, entry)
      BY <2>2, <1>1
    <3>3. /\ trace' \in Seq([edge : graph.edges, places : SUBSET Lacking])
          /\ Len(trace) \in Nat
          /\ DOMAIN trace = 1 .. Len(trace)
          /\ DOMAIN trace' = 1 .. Len(trace) + 1
          /\ \A i \in 1 .. Len(trace) : trace'[i] = trace[i]
          /\ trace'[Len(trace) + 1] = entry
      BY <3>1, <3>2, <1>11
    <3>4. \A p : NamedFor(p)' = NamedFor(p) \cup (IF p \in entry.places THEN {entry.edge} ELSE {})
      BY <3>3 DEF NamedFor
    <3> QED
      BY <3>3, <3>4 DEF entry
  <2> QED
    BY <2>1, <2>2
<1>13. \A p \in Lacking \ DOMAIN remaining' : NamedFor(p)' # {}
  BY <1>2, <1>8, <1>12 DEF TraceInv
<1>14. \A p \in Lacking : InitialTokens(p) = 1 =>
         \A d \in NamedFor(p)' : Net.trans[d.trans].thread \in Net.holders[n][p]
  BY <1>2, <1>7, <1>10, <1>12 DEF TraceInv
<1>15. DOMAIN remaining' \subseteq Lacking /\ remaining' = [p \in DOMAIN remaining' |-> remaining'[p]]
  BY <1>1, <1>6, <1>8
<1> QED
  BY <1>1, <1>3, <1>4, <1>8, <1>9, <1>10, <1>12, <1>13, <1>14, <1>15 DEF TraceInv, Net

LEMMA TraceBackRInv ==
  ASSUME RInv, TraceBack
  PROVE  RInv'
<1>1. /\ step = "trace" /\ step' = "trace" /\ UNCHANGED vars /\ graph' = graph
      /\ UNCHANGED <<subject, queue, reached, previous>>
  BY DEF TraceBack, vars
<1>2. IInv' /\ SearchInv'
  BY <1>1, StutterIInv, SearchInvKept DEF RInv
<1>3. TraceInv'
  BY TraceBackTraceInv
<1> QED
  BY <1>1, <1>2, <1>3 DEF RInv, HasNet, Nodes

(* The detector itself, which is done when explanations start.              *)
LEMMA DetectRInv ==
  ASSUME RInv, Detect \/ UNCHANGED <<vars, reportVars>>
  PROVE  RInv'
<1>1. UNCHANGED reportVars /\ [Next]_vars
  BY DEF Detect, Next
<1>2. graph' = graph
  BY <1>1 DEF Next, Search, ScanTerminal, StartSearch, Descend, CloseCycle, SkipVisited, Backtrack,
              ReportGroups, Terminated, vars
<1>3. IInv'
  BY <1>1, StepIInv DEF RInv
<1>4. /\ UNCHANGED <<subject, step, remaining, at, trace>>
      /\ UNCHANGED <<queue, reached, previous>>
  BY <1>1 DEF reportVars
<1>5. step # "none" => SearchInv' /\ TraceInv'
  BY <1>2, <1>4, SearchInvKept, TraceInvKept DEF RInv
<1> QED
  BY <1>2, <1>3, <1>4, <1>5 DEF RInv, HasNet, Nodes

LEMMA ReportStep ==
  ASSUME RInv, [ReportNext]_<<vars, reportVars>>
  PROVE  RInv'
<1>1. CASE Detect \/ UNCHANGED <<vars, reportVars>>
  BY <1>1, DetectRInv
<1>2. CASE ExplainAny
  <2>1. HasNet /\ \E n \in deadlocks : \E t \in DOMAIN Net.trans : Explain(n, t)
    BY <1>2 DEF ExplainAny, HasNet
  <2> QED
    BY <2>1, ExplainRInv
<1>3. CASE Leave
  BY <1>3, LeaveRInv
<1>4. CASE EndSearch
  BY <1>4, EndSearchRInv
<1>5. CASE TraceBack
  BY <1>5, TraceBackRInv
<1>6. CASE EndTrace
  BY <1>6, EndTraceRInv
<1> QED
  BY <1>1, <1>2, <1>3, <1>4, <1>5, <1>6 DEF ReportNext, Reported
-----------------------------------------------------------------------------
(* The search, then the walk back: in every reachable state, for every net. *)
THEOREM ReportInductive == ReportSpec => []RInv
<1>1. ReportInit => RInv
  BY ReportInitRInv
<1>2. RInv /\ [ReportNext]_<<vars, reportVars>> => RInv'
  BY ReportStep
<1> QED
  BY <1>1, <1>2, PTL DEF ReportSpec

(* The path an explanation is read from is a shortest run of the net, in    *)
(* whatever order the edges come: path_to_state is a breadth-first search.  *)
THEOREM PathsAreShortest == ReportSpec => []PathIsShortest
<1>1. RInv => PathIsShortest
  BY DEF RInv, SearchInv, FoundByLevels, PathIsShortest
<1> QED
  BY <1>1, ReportInductive, PTL

(* trace_resource_usage accounts for every missing token, and names the     *)
(* thread that holds a lock, whatever the way the state was reached.        *)
THEOREM NamesAreHolders == ReportSpec => []HoldersNamed
<1>1. ASSUME RInv, step = "explained"
      PROVE  /\ remaining = <<>>
             /\ \A p \in Lacking :
                  /\ NamedFor(p) # {}
                  /\ InitialTokens(p) = 1 =>
                       \A e \in NamedFor(p) :
                         Net.trans[e.trans].thread \in Net.holders[subject[1]][p]
  <2>1. TraceInv
    BY <1>1 DEF RInv
  <2>2. remaining = <<>> /\ DOMAIN remaining = {}
    BY <2>1, <1>1 DEF TraceInv
  <2> QED
    BY <2>1, <2>2 DEF TraceInv
<1>2. RInv => HoldersNamed
  BY <1>1 DEF HoldersNamed, Lacking
<1> QED
  BY <1>2, ReportInductive, PTL

(* Explanations only read what the detector left: the detector that writes  *)
(* reports runs as the one that does not.                                   *)
THEOREM ExplainingIsReading == ReportSpec => Init /\ [][Next]_vars
<1>1. ReportInit => Init
  BY DEF ReportInit
<1>2. [ReportNext]_<<vars, reportVars>> => [Next]_vars
  BY DEF ReportNext, Reported, Detect, Next, ExplainAny, Explain, Leave, EndSearch, TraceBack, EndTrace
<1> QED
  BY <1>1, <1>2, PTL DEF ReportSpec

(* What is proved of the detector holds while it explains what it found.    *)
THEOREM ReportsStayGenuine ==
  ReportSpec => [](TypeOK /\ PathIsSimple /\ ReportsAreDeadlocks /\ OneWayCyclesReported)
<1>1. RInv => TypeOK /\ PathIsSimple /\ ReportsAreDeadlocks
  BY SimplePath, GenuineReports DEF RInv, IInv
<1>2. Init => CInv
  BY InitCInv
<1>3. RInv /\ CInv /\ [Next]_vars => CInv'
  BY StepCInv DEF RInv
<1>4. CInv => OneWayCyclesReported
  BY DEF CInv
<1> QED
  BY <1>1, <1>2, <1>3, <1>4, ReportInductive, ExplainingIsReading, PTL
=============================================================================
