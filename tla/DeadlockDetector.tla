------------------------- MODULE DeadlockDetector -------------------------
(***************************************************************************)
(* The deadlock detector, detect/deadlock.rs, on an explored state graph.  *)
(*                                                                         *)
(* Pattern A looks for terminal states that are not a normal end of main.  *)
(* Only if there are none, pattern B searches depth first for stable       *)
(* cycles on which some locks stay disabled.                               *)
(*                                                                         *)
(* An edge is the firing of a transition, labelled with the lock it        *)
(* acquires (mutex lock, read lock or write lock) or NoLock.  The graph is *)
(* complete: a transition is enabled in a state iff an edge carries it.    *)
(* The order of the edges of a state is that of the explorer and is left   *)
(* open; states are visited in index order.                                *)
(***************************************************************************)
EXTENDS Naturals, Sequences, FiniteSetsExt, Functions

CONSTANTS
  Node,      \* states of the graph, by index
  Lock,      \* lock ids
  NoLock,    \* label of a transition that acquires no lock
  Graphs     \* the graphs explored: [nodes, edges, exits], and net if it is known

(* g.exits: the states in which a place named main_end is marked. *)
WellFormed(g) ==
  /\ g.nodes \subseteq Node /\ IsFiniteSet(g.nodes)
  /\ \A e \in g.edges : /\ {e.from, e.to} \subseteq g.nodes
                         /\ e.lock \in Lock \cup {NoLock}
  /\ g.exits \subseteq g.nodes

ASSUME GraphAssumption ==
  /\ Node \subseteq Nat
  /\ NoLock \notin Lock
  /\ \A g \in Graphs : WellFormed(g)

VARIABLES
  graph,      \* state_graph; never changes
  phase,      \* "terminal", "cycles" or "done"
  visited,    \* states the search has entered
  stack,      \* states on the current path
  frames,     \* the recursion: [node, rest], rest the edges still to follow
  groups,     \* cycle_groups: set of blocked locks -> states of their cycles
  deadlocks   \* states reported

vars == <<graph, phase, visited, stack, frames, groups, deadlocks>>

Out(n) == {e \in graph.edges : e.from = n}

Terminal(n) == Out(n) = {}

(* collect_lock_transitions: only transitions that fired are known. *)
KnownLocks == {e.lock : e \in graph.edges} \cap Lock

(* No transition that acquires l is enabled in n. *)
Disabled(l, n) == \A e \in Out(n) : e.lock # l

AlwaysDisabled(cycle) == {l \in KnownLocks : \A n \in cycle : Disabled(l, n)}

(* Mutant: a cycle is stable when each state has an edge inside it. *)
StableMut(cycle) == \A n \in cycle : \E e \in Out(n) : e.to \in cycle

Stable(cycle) == \A n \in cycle : \A e \in Out(n) : e.to \in cycle

(* get_consistently_blocked_transitions; {} also stands for None. *)
ConsistentlyBlocked(cycle) ==
  IF Stable(cycle) /\ ~ KnownLocks \subseteq AlwaysDisabled(cycle)
    THEN AlwaysDisabled(cycle)
    ELSE {}

Path == [i \in DOMAIN frames |-> frames[i].node]

(* Mutant: the slice misses the state the cycle returns to. *)
CycleFromMut(n) ==
  LET start == CHOOSE i \in DOMAIN Path : Path[i] = n
  IN  {Path[i] : i \in start + 1 .. Len(Path)}

(* The part of the path from n to the current state. *)
CycleFrom(n) ==
  LET start == CHOOSE i \in DOMAIN Path : Path[i] = n
  IN  {Path[i] : i \in start .. Len(Path)}

Top == frames[Len(frames)]

Init ==
  /\ graph \in Graphs
  /\ phase = "terminal"
  /\ visited = {}
  /\ stack = {}
  /\ frames = <<>>
  /\ groups = [ls \in SUBSET Lock |-> {}]
  /\ deadlocks = {}

(* detect_reachability_deadlock *)
ScanTerminal ==
  /\ phase = "terminal"
  /\ deadlocks' = {n \in graph.nodes : Terminal(n) /\ n \notin graph.exits}
  /\ phase' = IF deadlocks' = {} THEN "cycles" ELSE "done"
  /\ UNCHANGED <<graph, visited, stack, frames, groups>>

(* Mutant: the state is put on the stack and not marked visited. *)
EnterMut(n) ==
  /\ visited' = visited
  /\ stack' = stack \cup {n}

Enter(n) ==
  /\ visited' = visited \cup {n}
  /\ stack' = stack \cup {n}

(* The next start state is the first one not visited. *)
StartSearch ==
  /\ phase = "cycles"
  /\ frames = <<>>
  /\ \E n \in graph.nodes \ visited :
       /\ \A m \in graph.nodes \ visited : n =< m
       /\ Enter(n)
       /\ frames' = <<[node |-> n, rest |-> Out(n)]>>
  /\ UNCHANGED <<graph, phase, groups, deadlocks>>

(* The current frame takes its next edge e off the list. *)
Following(e) ==
  /\ phase = "cycles"
  /\ frames # <<>>
  /\ e \in Top.rest

Advanced(e) == [frames EXCEPT ![Len(frames)].rest = @ \ {e}]

Descend(e) ==
  /\ Following(e)
  /\ e.to \notin visited
  /\ Enter(e.to)
  /\ frames' = Append(Advanced(e), [node |-> e.to, rest |-> Out(e.to)])
  /\ UNCHANGED <<graph, phase, groups, deadlocks>>

(* Mutant: the edge that closes the cycle is never taken off the list. *)
CloseCycleMut(e) ==
  /\ Following(e)
  /\ e.to \in visited
  /\ e.to \in stack
  /\ LET cycle == CycleFrom(e.to)
         blocked == ConsistentlyBlocked(cycle)
     IN  groups' = IF blocked = {} THEN groups
                   ELSE [groups EXCEPT ![blocked] = @ \cup cycle]
  /\ UNCHANGED <<graph, phase, visited, stack, frames, deadlocks>>

CloseCycle(e) ==
  /\ Following(e)
  /\ e.to \in visited
  /\ e.to \in stack
  /\ frames' = Advanced(e)
  /\ LET cycle == CycleFrom(e.to)
         blocked == ConsistentlyBlocked(cycle)
     IN  groups' = IF blocked = {} THEN groups
                   ELSE [groups EXCEPT ![blocked] = @ \cup cycle]
  /\ UNCHANGED <<graph, phase, visited, stack, deadlocks>>

SkipVisited(e) ==
  /\ Following(e)
  /\ e.to \in visited
  /\ e.to \notin stack
  /\ frames' = Advanced(e)
  /\ UNCHANGED <<graph, phase, visited, stack, groups, deadlocks>>

(* Mutant: the state left stays in the `stack' set. *)
BacktrackMut ==
  /\ phase = "cycles"
  /\ frames # <<>>
  /\ Top.rest = {}
  /\ frames' = SubSeq(frames, 1, Len(frames) - 1)
  /\ UNCHANGED <<graph, phase, visited, stack, groups, deadlocks>>

Backtrack ==
  /\ phase = "cycles"
  /\ frames # <<>>
  /\ Top.rest = {}
  /\ stack' = stack \ {Top.node}
  /\ frames' = SubSeq(frames, 1, Len(frames) - 1)
  /\ UNCHANGED <<graph, phase, visited, groups, deadlocks>>

(* One state is reported for every set of blocked locks. *)
ReportGroups ==
  /\ phase = "cycles"
  /\ frames = <<>>
  /\ graph.nodes \subseteq visited
  /\ LET found == {ls \in SUBSET Lock : groups[ls] # {}}
     IN  \E pick \in [found -> UNION Range(groups)] :
           /\ \A ls \in found : pick[ls] \in groups[ls]
           /\ deadlocks' = Range(pick)
  /\ phase' = "done"
  /\ UNCHANGED <<graph, visited, stack, frames, groups>>

Terminated == phase = "done" /\ UNCHANGED vars

Search ==
  \/ ScanTerminal
  \/ StartSearch
  \/ \E e \in graph.edges : Descend(e) \/ CloseCycle(e) \/ SkipVisited(e)
  \/ Backtrack
  \/ ReportGroups

Next == Search \/ Terminated

Spec == Init /\ [][Next]_vars /\ WF_vars(Next)
-----------------------------------------------------------------------------
(* Every variable has its type. *)
TypeOK ==
  /\ WellFormed(graph)
  /\ phase \in {"terminal", "cycles", "done"}
  /\ visited \subseteq graph.nodes
  /\ stack \subseteq visited
  /\ frames \in Seq([node : graph.nodes, rest : SUBSET graph.edges])
  /\ \A i \in DOMAIN frames : frames[i].rest \subseteq Out(frames[i].node)
  /\ groups \in [SUBSET Lock -> SUBSET graph.nodes]
  /\ deadlocks \subseteq graph.nodes

(* The search path is a path of the graph without repetitions, and the      *)
(* `stack' set is exactly its states: CloseCycle's position() on the path   *)
(* finds the state (the unwrap cannot fail) and slices a cycle.             *)
PathIsSimple ==
  /\ stack = Range(Path)
  /\ \A i, j \in DOMAIN Path : Path[i] = Path[j] => i = j
  /\ \A i \in 1 .. Len(Path) - 1 :
       \E e \in Out(Path[i]) : e.to = Path[i + 1]

ReachableIn(g, n) ==
  LET within[k \in Nat] ==
        IF k = 0 THEN {n}
        ELSE LET before == within[k - 1]
             IN  before \cup {e.to : e \in {d \in g.edges : d.from \in before}}
  IN  within[Cardinality(g.nodes)]

(* A reported state is a genuine deadlock: a stuck state that is not a      *)
(* normal end, or a state from which no continuation ever acquires some     *)
(* lock the program acquires elsewhere, while another one is still          *)
(* acquired.  No false alarm comes from a cycle that can be left.           *)
ReportsAreDeadlocks ==
  phase = "done" => \A n \in deadlocks :
    \/ Terminal(n) /\ n \notin graph.exits
    \/ /\ \A m \in ReachableIn(graph, n) : ~Terminal(m)
       /\ \E l \in KnownLocks : \A m \in ReachableIn(graph, n) : Disabled(l, m)
       /\ \E l \in KnownLocks : \E m \in ReachableIn(graph, n) : ~Disabled(l, m)

(* A cycle the program can only walk round in one way, with some but not    *)
(* all locks disabled on it, is never missed: some state stuck with the     *)
(* same locks is reported.  Of other cycles the search closes the shorter   *)
(* first and never looks at one that has a short cut.                       *)
OneWayCycle(c) ==
  /\ c # {}
  /\ \A n \in c : {e.to : e \in Out(n)} \in {{m} : m \in c}
  /\ \A n \in c : ReachableIn(graph, n) = c

OneWayCyclesReported ==
  phase = "done" =>
    \A c \in {ReachableIn(graph, n) : n \in graph.nodes} :
      OneWayCycle(c) /\ ConsistentlyBlocked(c) # {} =>
        \E n \in deadlocks :
          \/ Terminal(n)
          \/ \A m \in ReachableIn(graph, n), l \in ConsistentlyBlocked(c) : Disabled(l, m)

(* The search ends on every graph, cyclic or not. *)
Terminates == <>(phase = "done")
=============================================================================
