----------------------------- MODULE CallGraph -----------------------------
(***************************************************************************)
(* CallGraph::analyze (translate/callgraph.rs).  The instances the compiler*)
(* generates code for, in whatever order its codegen units list them, are  *)
(* entered and queued; the bodies in the queue are searched for call sites,*)
(* and callees of the crate that have not been queued yet are queued too.  *)
(***************************************************************************)
EXTENDS CallSites

CONSTANTS
  Instance,     \* functions with the arguments of their generics
  Sites,        \* call sites: [callee, kind, dest, at]
  Inputs        \* crates: [given, expandable, promoted, sites]
(*  given        what the codegen units contain                              *)
(*  expandable   functions of this crate whose MIR is available              *)
(*  promoted     bodies that are promoted constants                          *)
(*  sites        what CallSiteCollector finds in the body of an instance     *)

ASSUME InstanceAssumption ==
  /\ NoInstance \notin Instance
  /\ \A s \in Sites : s.callee \in Instance

ASSUME InputsAssumption ==
  \A c \in Inputs :
    /\ c.given \subseteq Instance
    /\ c.expandable \subseteq Instance
    /\ c.promoted \subseteq Instance
    /\ DOMAIN c.sites = Instance
    /\ \A i \in Instance : c.sites[i] \in Seq(Sites)

VARIABLES
  input,
  nodes,        \* graph: the instances in the order of their indices
  weight,       \* instance -> "with" or "without" a body, "none" if no node
  edges,        \* <<caller, callee>> -> sites; a set, as each has its place
  spawnCalls,   \* SpawnCall records
  scheduled,    \* instances that have been queued
  pending,      \* the queue
  caller,       \* the instance whose body is searched
  rest          \* its call sites not yet entered

graphVars == <<nodes, weight, edges, spawnCalls, scheduled, pending, caller, rest>>

(* insert_instance: an instance has one node, which may gain a body but     *)
(* does not lose it.                                                        *)
InsertInstance(i, body) ==
  /\ nodes' = IF weight[i] = "none" THEN Append(nodes, i) ELSE nodes
  /\ weight' = [weight EXCEPT ![i] = IF @ = "with" THEN @ ELSE body]

GraphInit ==
  /\ nodes = <<>>
  /\ weight = [i \in Instance |-> "none"]
  /\ edges = [p \in Instance \X Instance |-> {}]
  /\ spawnCalls = {}
  /\ scheduled = {}
  /\ pending = <<>>
  /\ caller = NoInstance
  /\ rest = <<>>

Init == input \in Inputs /\ GraphInit

Schedule(i) ==
  /\ scheduled' = scheduled \cup {i}
  /\ pending' = IF i \in scheduled THEN pending ELSE Append(pending, i)

(* The next of the codegen units' instances. *)
Give(i) ==
  /\ i \in input.given \ scheduled
  /\ InsertInstance(i, "with")
  /\ Schedule(i)
  /\ UNCHANGED <<input, edges, spawnCalls, caller, rest>>

(* pop_front; promoted bodies have no call sites of their own. *)
Take ==
  /\ input.given \subseteq scheduled
  /\ caller = NoInstance
  /\ pending # <<>>
  /\ pending' = Tail(pending)
  /\ IF Head(pending) \in input.promoted
       THEN UNCHANGED <<caller, rest>>
       ELSE caller' = Head(pending) /\ rest' = input.sites[Head(pending)]
  /\ UNCHANGED <<input, nodes, weight, edges, spawnCalls, scheduled>>

(* A spawn is filed by function, under the handle it is stored to.          *)
SpawnCall(i, s) == [caller |-> Fn(i), dest |-> <<i, s.dest>>, callee |-> Fn(s.callee)]

(* Mutant: functions of libraries are searched too. *)
EnterSiteMut ==
  /\ caller # NoInstance
  /\ rest # <<>>
  /\ LET s == Head(rest)
         expand == s.callee \in input.expandable
     IN  /\ InsertInstance(s.callee, IF expand THEN "with" ELSE "without")
         /\ Schedule(s.callee)
         /\ edges' = [edges EXCEPT ![<<caller, s.callee>>] = @ \cup {s}]
         /\ spawnCalls' = IF s.kind \in SpawnKinds
              THEN spawnCalls \cup {SpawnCall(caller, s)} ELSE spawnCalls
  /\ rest' = Tail(rest)
  /\ UNCHANGED <<input, caller>>

(* Mutant: an edge keeps the last call only. *)
EnterSiteLastMut ==
  /\ caller # NoInstance
  /\ rest # <<>>
  /\ LET s == Head(rest)
         expand == s.callee \in input.expandable
     IN  /\ InsertInstance(s.callee, IF expand THEN "with" ELSE "without")
         /\ IF expand THEN Schedule(s.callee) ELSE UNCHANGED <<scheduled, pending>>
         /\ edges' = [edges EXCEPT ![<<caller, s.callee>>] = {s}]
         /\ spawnCalls' = IF s.kind \in SpawnKinds
              THEN spawnCalls \cup {SpawnCall(caller, s)} ELSE spawnCalls
  /\ rest' = Tail(rest)
  /\ UNCHANGED <<input, caller>>

(* One turn of the loop over the sites of the body. *)
EnterSite ==
  /\ caller # NoInstance
  /\ rest # <<>>
  /\ LET s == Head(rest)
         expand == s.callee \in input.expandable
     IN  /\ InsertInstance(s.callee, IF expand THEN "with" ELSE "without")
         /\ IF expand THEN Schedule(s.callee) ELSE UNCHANGED <<scheduled, pending>>
         /\ edges' = [edges EXCEPT ![<<caller, s.callee>>] = @ \cup {s}]
         /\ spawnCalls' = IF s.kind \in SpawnKinds
              THEN spawnCalls \cup {SpawnCall(caller, s)} ELSE spawnCalls
  /\ rest' = Tail(rest)
  /\ UNCHANGED <<input, caller>>

EndBody ==
  /\ caller # NoInstance
  /\ rest = <<>>
  /\ caller' = NoInstance
  /\ UNCHANGED <<input, nodes, weight, edges, spawnCalls, scheduled, pending, rest>>

(* The queue has run empty. *)
Ended ==
  /\ input.given \subseteq scheduled
  /\ pending = <<>>
  /\ caller = NoInstance

Analyze == (\E i \in input.given : Give(i)) \/ Take \/ EnterSite \/ EndBody

Next == Analyze \/ (Ended /\ UNCHANGED <<input, graphVars>>)

Spec == Init /\ [][Next]_<<input, graphVars>>
-----------------------------------------------------------------------------
(* reachable_from_entry, reachable_from_roots: what a breadth-first search  *)
(* along the edges visits.                                                  *)
ReachableFromRoots(roots) ==
  LET reach[k \in Nat] ==
        IF k = 0 THEN roots \cap Range(nodes)
        ELSE LET before == reach[k - 1]
             IN  before \cup {j \in Range(nodes) : \E i \in before : edges[<<i, j>>] # {}}
  IN  reach[Len(nodes)]
-----------------------------------------------------------------------------
TypeOK ==
  /\ input \in Inputs
  /\ nodes \in Seq(Instance)
  /\ weight \in [Instance -> {"none", "without", "with"}]
  /\ edges \in [Instance \X Instance -> SUBSET Sites]
  /\ scheduled \subseteq Instance
  /\ pending \in Seq(Instance)
  /\ caller \in Instance \cup {NoInstance}
  /\ rest \in Seq(Sites)

(* A node has a body exactly if it was queued, and its instance occurs once *)
(* in the order of the nodes: insert_instance's test and the `scheduled' set*)
(* of analyze() never disagree.                                             *)
BodiesAreScheduled ==
  /\ \A i \in Instance : weight[i] = "with" <=> i \in scheduled
  /\ Range(nodes) = {i \in Instance : weight[i] # "none"}
  /\ \A k, l \in DOMAIN nodes : nodes[k] = nodes[l] => k = l

(* What a crate's graph has to contain. *)
ClosedUnderCalls(S) ==
  /\ input.given \subseteq S
  /\ \A i \in S \ input.promoted : \A k \in DOMAIN input.sites[i] :
       LET s == input.sites[i][k]
       IN  s.callee \in input.expandable => s.callee \in S

(* When the queue is empty no call of a searched body is missing: the callee*)
(* is a node, the edge carries the site, a spawn is filed under its handle, *)
(* and callees of the crate have been searched themselves.                  *)
EveryCallEntered ==
  Ended =>
    /\ ClosedUnderCalls(scheduled)
    /\ \A i \in scheduled \ input.promoted : \A k \in DOMAIN input.sites[i] :
         LET s == input.sites[i][k]
         IN  /\ weight[s.callee] # "none"
             /\ s \in edges[<<i, s.callee>>]
             /\ s.kind \in SpawnKinds => SpawnCall(i, s) \in spawnCalls

(* And nothing is in the graph that no one asked for: every set that is     *)
(* closed under calls contains the bodies searched.                         *)
NothingElseSearched ==
  \A S \in SUBSET Instance : ClosedUnderCalls(S) => scheduled \subseteq S
=============================================================================
