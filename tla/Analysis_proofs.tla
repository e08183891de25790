---------------------------- MODULE Analysis_proofs ----------------------------
(***************************************************************************)
(* Proofs about the construction of the call graph, and about the whole    *)
(* analysis: that it builds the call graph as CallGraph does, that the net *)
(* then holds what the program enters, that the files written are those    *)
(* asked for, and that the groups of guards are those of LockGroups, for   *)
(* every crate, every command line, every set of call sites and every      *)
(* order of the instances and of the hash maps.                            *)
(***************************************************************************)
EXTENDS Analysis, Iteration

(* The call graph. *)

(* A site of the body of i has left its traces in the graph. *)
SiteEntered(i, s) ==
  /\ weight[s.callee] # "none"
  /\ s \in edges[<<i, s.callee>>]
  /\ s.kind \in SpawnKinds => SpawnCall(i, s) \in spawnCalls
  /\ s.callee \in input.expandable => s.callee \in scheduled

SitesOf(i) == Range(input.sites[i])

(* What is queued or being searched has been scheduled. *)
QueueIsScheduled ==
  /\ Range(pending) \subseteq scheduled
  /\ caller # NoInstance => caller \in scheduled \ input.promoted
  /\ caller = NoInstance => rest = <<>>

(* The body being searched: its sites are entered or still to come. *)
BodyProgress ==
  caller # NoInstance =>
    /\ Range(rest) \subseteq SitesOf(caller)
    /\ \A s \in SitesOf(caller) : s \in Range(rest) \/ SiteEntered(caller, s)

(* The other bodies: still in the queue, or all their sites are entered. *)
QueueProgress ==
  \A i \in scheduled \ input.promoted :
    i \in Range(pending) \/ i = caller \/ \A s \in SitesOf(i) : SiteEntered(i, s)

(* EveryCallEntered says nothing before the end; inductive is how far each *)
(* scheduled body has come.                                                *)
IInv ==
  /\ TypeOK
  /\ BodiesAreScheduled
  /\ QueueIsScheduled
  /\ BodyProgress
  /\ QueueProgress
  /\ NothingElseSearched
-----------------------------------------------------------------------------
(* The components of an input. *)
LEMMA InputFields ==
  ASSUME TypeOK
  PROVE  /\ input.given \subseteq Instance
         /\ input.expandable \subseteq Instance
         /\ input.promoted \subseteq Instance
         /\ \A i \in Instance : input.sites[i] \in Seq(Sites) /\ SitesOf(i) \subseteq Sites
BY InputsAssumption DEF TypeOK, SitesOf, Range

(* push_back adds one element to the queue, pop_front takes one off. *)
LEMMA QueueRange ==
  ASSUME NEW S, NEW q \in Seq(S), NEW x \in S
  PROVE  /\ Append(q, x) \in Seq(S)
         /\ Range(Append(q, x)) = Range(q) \cup {x}
         /\ Range(q) \subseteq S
<1>1. /\ Append(q, x) \in Seq(S)
      /\ DOMAIN Append(q, x) = DOMAIN q \cup {Len(q) + 1}
      /\ \A k \in DOMAIN q : Append(q, x)[k] = q[k]
      /\ Append(q, x)[Len(q) + 1] = x
  OBVIOUS
<1> QED
  BY <1>1 DEF Range

LEMMA TailRange ==
  ASSUME NEW S, NEW q \in Seq(S), q # <<>>
  PROVE  /\ Head(q) \in S
         /\ Tail(q) \in Seq(S)
         /\ Range(q) = {Head(q)} \cup Range(Tail(q))
<1>1. /\ Head(q) = q[1]
      /\ Tail(q) \in Seq(S)
      /\ Len(q) \in Nat \ {0}
      /\ Len(Tail(q)) = Len(q) - 1
      /\ \A k \in 1 .. Len(q) - 1 : Tail(q)[k] = q[k + 1]
      /\ DOMAIN q = 1 .. Len(q)
      /\ DOMAIN Tail(q) = 1 .. Len(q) - 1
      /\ 1 \in DOMAIN q
  OBVIOUS
<1>2. Range(q) \subseteq {q[1]} \cup Range(Tail(q))
  <2> SUFFICES ASSUME NEW k \in 1 .. Len(q)
               PROVE  q[k] \in {q[1]} \cup Range(Tail(q))
    BY <1>1 DEF Range
  <2>1. CASE k = 1
    BY <2>1
  <2>2. CASE k # 1
    <3>1. k - 1 \in 1 .. Len(q) - 1 /\ Tail(q)[k - 1] = q[(k - 1) + 1]
      BY <1>1, <2>2
    <3>2. Tail(q)[k - 1] = q[k]
      BY <3>1
    <3> QED
      BY <1>1, <3>1, <3>2 DEF Range
  <2> QED
    BY <2>1, <2>2
<1>3. Range(Tail(q)) \subseteq Range(q)
  <2> SUFFICES ASSUME NEW k \in 1 .. Len(q) - 1
               PROVE  Tail(q)[k] \in Range(q)
    BY <1>1 DEF Range
  <2>1. k + 1 \in DOMAIN q /\ Tail(q)[k] = q[k + 1]
    BY <1>1
  <2> QED
    BY <2>1 DEF Range
<1> QED
  BY <1>1, <1>2, <1>3 DEF Range

(* insert_instance and the test of the `scheduled' set keep step: what gets*)
(* a body is scheduled, and no instance gets a second node.                *)
LEMMA InsertKeepsNodes ==
  ASSUME TypeOK, BodiesAreScheduled,
         NEW i \in Instance, NEW body \in {"with", "without"},
         InsertInstance(i, body),
         scheduled' = IF body = "with" THEN scheduled \cup {i} ELSE scheduled
  PROVE  /\ BodiesAreScheduled'
         /\ nodes' \in Seq(Instance)
         /\ weight' \in [Instance -> {"none", "without", "with"}]
         /\ weight'[i] # "none"
         /\ \A j \in Instance : weight[j] # "none" => weight'[j] # "none"
<1>1. /\ nodes \in Seq(Instance)
      /\ weight \in [Instance -> {"none", "without", "with"}]
      /\ weight' = [weight EXCEPT ![i] = IF @ = "with" THEN @ ELSE body]
      /\ nodes' = IF weight[i] = "none" THEN Append(nodes, i) ELSE nodes
  BY DEF TypeOK, InsertInstance
<1>2. /\ weight' \in [Instance -> {"none", "without", "with"}]
      /\ \A j \in Instance : weight'[j] = IF j = i
                               THEN (IF weight[i] = "with" THEN "with" ELSE body)
                               ELSE weight[j]
  BY <1>1
<1>3. \A j \in Instance : weight'[j] = "with" <=> j \in scheduled'
  BY <1>2 DEF BodiesAreScheduled
<1>4. nodes' \in Seq(Instance)
  BY <1>1
<1>5. Range(nodes') = {j \in Instance : weight'[j] # "none"}
  <2>1. CASE weight[i] = "none"
    BY <1>1, <1>2, <2>1, QueueRange DEF BodiesAreScheduled
  <2>2. CASE weight[i] # "none"
    BY <1>1, <1>2, <2>2 DEF BodiesAreScheduled
  <2> QED
    BY <2>1, <2>2
<1>6. \A k, l \in DOMAIN nodes' : nodes'[k] = nodes'[l] => k = l
  <2>1. CASE weight[i] = "none"
    <3>1. \A k \in DOMAIN nodes : nodes[k] # i
      BY <2>1 DEF BodiesAreScheduled, Range
    <3>2. /\ DOMAIN nodes' = DOMAIN nodes \cup {Len(nodes) + 1}
          /\ \A k \in DOMAIN nodes : nodes'[k] = nodes[k]
          /\ nodes'[Len(nodes) + 1] = i
      BY <1>1, <2>1
    <3> QED
      BY <3>1, <3>2 DEF BodiesAreScheduled
  <2>2. CASE weight[i] # "none"
    BY <1>1, <2>2 DEF BodiesAreScheduled
  <2> QED
    BY <2>1, <2>2
<1> QED
  BY <1>2, <1>3, <1>4, <1>5, <1>6 DEF BodiesAreScheduled

(* A site that has been entered stays entered. *)
LEMMA SiteStays ==
  ASSUME NEW i \in Instance, NEW s \in Sites, SiteEntered(i, s),
         input' = input,
         \A j \in Instance : weight[j] # "none" => weight'[j] # "none",
         edges[<<i, s.callee>>] \subseteq edges'[<<i, s.callee>>],
         spawnCalls \subseteq spawnCalls',
         scheduled \subseteq scheduled'
  PROVE  SiteEntered(i, s)'
BY InstanceAssumption DEF SiteEntered, SpawnCall
-----------------------------------------------------------------------------
(* Nothing is in the graph at first. *)
LEMMA InitEstablishes == Init => IInv
<1> SUFFICES ASSUME Init PROVE IInv
  OBVIOUS
<1>1. TypeOK
  BY DEF Init, GraphInit, TypeOK
<1>2. BodiesAreScheduled
  BY DEF Init, GraphInit, BodiesAreScheduled, Range
<1>3. QueueIsScheduled /\ BodyProgress /\ QueueProgress
  BY DEF Init, GraphInit, QueueIsScheduled, BodyProgress, QueueProgress, Range
<1>4. NothingElseSearched
  BY DEF Init, GraphInit, NothingElseSearched
<1> QED
  BY <1>1, <1>2, <1>3, <1>4 DEF IInv

(* An instance of the codegen units belongs to every closed set. *)
LEMMA GivePreserves ==
  ASSUME IInv, NEW g \in input.given, Give(g)
  PROVE  IInv'
<1> USE DEF IInv
<1>1. /\ g \in Instance /\ g \notin scheduled
      /\ InsertInstance(g, "with")
      /\ scheduled' = scheduled \cup {g} /\ pending' = Append(pending, g)
      /\ UNCHANGED <<input, edges, spawnCalls, caller, rest>>
  BY InputFields DEF Give, Schedule
<1>2. /\ BodiesAreScheduled' /\ nodes' \in Seq(Instance)
      /\ weight' \in [Instance -> {"none", "without", "with"}]
      /\ \A j \in Instance : weight[j] # "none" => weight'[j] # "none"
  BY <1>1, InsertKeepsNodes
<1>3. Range(pending') = Range(pending) \cup {g} /\ pending' \in Seq(Instance)
  BY <1>1, QueueRange DEF TypeOK
<1>4. TypeOK'
  BY <1>1, <1>2, <1>3 DEF TypeOK
<1>5. QueueIsScheduled'
  BY <1>1, <1>3 DEF QueueIsScheduled
<1>6. \A i \in Instance : \A s \in SitesOf(i) : SiteEntered(i, s) => SiteEntered(i, s)'
  BY <1>1, <1>2, SiteStays, InputFields
<1>7. BodyProgress'
  BY <1>1, <1>6 DEF BodyProgress, QueueIsScheduled, TypeOK, SitesOf
<1>8. QueueProgress'
  <2> SUFFICES ASSUME NEW i \in scheduled' \ input'.promoted
               PROVE  i \in Range(pending') \/ i = caller' \/ \A s \in SitesOf(i)' : SiteEntered(i, s)'
    BY DEF QueueProgress
  <2>1. CASE i = g
    BY <1>3, <2>1
  <2>2. CASE i # g
    BY <1>1, <1>3, <1>6, <2>2 DEF QueueProgress, TypeOK, SitesOf
  <2> QED
    BY <2>1, <2>2
<1>9. NothingElseSearched'
  BY <1>1 DEF NothingElseSearched, ClosedUnderCalls
<1> QED
  BY <1>2, <1>4, <1>5, <1>7, <1>8, <1>9

(* pop_front: the body leaves the queue and all its sites are still to come.*)
LEMMA TakePreserves ==
  ASSUME IInv, Take
  PROVE  IInv'
<1> USE DEF IInv
<1>1. /\ pending # <<>> /\ pending \in Seq(Instance) /\ caller = NoInstance
      /\ pending' = Tail(pending)
      /\ UNCHANGED <<input, nodes, weight, edges, spawnCalls, scheduled>>
  BY DEF Take, TypeOK
<1>2. /\ Head(pending) \in Instance /\ Tail(pending) \in Seq(Instance)
      /\ Range(pending) = {Head(pending)} \cup Range(Tail(pending))
  BY <1>1, TailRange
<1>3. \/ Head(pending) \in input.promoted /\ UNCHANGED <<caller, rest>>
      \/ /\ Head(pending) \notin input.promoted
         /\ caller' = Head(pending) /\ rest' = input.sites[Head(pending)]
  BY DEF Take
<1>4. TypeOK'
  BY <1>1, <1>2, <1>3, InputFields DEF TypeOK
<1>5. QueueIsScheduled'
  BY <1>1, <1>2, <1>3, InstanceAssumption DEF QueueIsScheduled
<1>6. \A i, s : SiteEntered(i, s)' <=> SiteEntered(i, s)
  BY <1>1 DEF SiteEntered, SpawnCall
<1>7. BodyProgress'
  BY <1>1, <1>3, <1>6 DEF BodyProgress, SitesOf
<1>8. QueueProgress'
  <2> SUFFICES ASSUME NEW i \in scheduled' \ input'.promoted
               PROVE  i \in Range(pending') \/ i = caller' \/ \A s \in SitesOf(i)' : SiteEntered(i, s)'
    BY DEF QueueProgress
  <2>1. CASE i = Head(pending)
    BY <1>1, <1>3, <2>1
  <2>2. CASE i # Head(pending)
    <3>1. i \in Range(pending) \/ \A s \in SitesOf(i) : SiteEntered(i, s)
      BY <1>1, InstanceAssumption DEF QueueProgress, TypeOK
    <3> QED
      BY <1>1, <1>2, <1>6, <2>2, <3>1 DEF SitesOf
  <2> QED
    BY <2>1, <2>2
<1>9. NothingElseSearched' /\ BodiesAreScheduled'
  BY <1>1 DEF NothingElseSearched, ClosedUnderCalls, BodiesAreScheduled
<1> QED
  BY <1>4, <1>5, <1>7, <1>8, <1>9

(* The site leaves the list and enters the graph; its callee, if it is of  *)
(* the crate, belongs to every closed set, as the caller does.             *)
LEMMA EnterSitePreserves ==
  ASSUME IInv, EnterSite
  PROVE  IInv'
<1> USE DEF IInv
<1>0. PICK s \in Sites : rest # <<>> /\ s = Head(rest)
  BY TailRange DEF EnterSite, TypeOK
<1> DEFINE expand == s.callee \in input.expandable
<1> DEFINE body == IF expand THEN "with" ELSE "without"
<1>1. /\ caller \in Instance /\ caller # NoInstance /\ rest # <<>> /\ rest \in Seq(Sites)
      /\ InsertInstance(s.callee, body)
      /\ expand => Schedule(s.callee)
      /\ ~expand => UNCHANGED <<scheduled, pending>>
      /\ edges' = [edges EXCEPT ![<<caller, s.callee>>] = @ \cup {s}]
      /\ spawnCalls' = IF s.kind \in SpawnKinds
           THEN spawnCalls \cup {SpawnCall(caller, s)} ELSE spawnCalls
      /\ rest' = Tail(rest)
      /\ UNCHANGED <<input, caller>>
  BY <1>0 DEF EnterSite, TypeOK
<1>2. Tail(rest) \in Seq(Sites) /\ Range(rest) = {s} \cup Range(Tail(rest))
  BY <1>0, <1>1, TailRange
<1>3. s.callee \in Instance
  BY InstanceAssumption
<1>4. scheduled' = IF body = "with" THEN scheduled \cup {s.callee} ELSE scheduled
  BY <1>1 DEF Schedule
<1>5. /\ BodiesAreScheduled' /\ nodes' \in Seq(Instance)
      /\ weight' \in [Instance -> {"none", "without", "with"}]
      /\ weight'[s.callee] # "none"
      /\ \A j \in Instance : weight[j] # "none" => weight'[j] # "none"
  BY <1>1, <1>3, <1>4, InsertKeepsNodes
<1>6. /\ pending' \in Seq(Instance)
      /\ Range(pending) \subseteq Range(pending')
      /\ Range(pending') \subseteq Range(pending) \cup (scheduled' \ scheduled)
      /\ scheduled' \ scheduled \subseteq Range(pending')
  <2>1. CASE expand /\ s.callee \notin scheduled
    <3>1. pending' = Append(pending, s.callee) /\ scheduled' = scheduled \cup {s.callee}
      BY <1>1, <2>1 DEF Schedule
    <3> QED
      BY <1>3, <2>1, <3>1, QueueRange DEF TypeOK
  <2>2. CASE ~(expand /\ s.callee \notin scheduled)
    <3>1. pending' = pending /\ scheduled' = scheduled
      BY <1>1, <2>2 DEF Schedule
    <3> QED
      BY <3>1 DEF TypeOK
  <2> QED
    BY <2>1, <2>2
<1>7. /\ edges' \in [Instance \X Instance -> SUBSET Sites]
      /\ s \in edges'[<<caller, s.callee>>]
      /\ \A i, j \in Instance : edges[<<i, j>>] \subseteq edges'[<<i, j>>]
  BY <1>1, <1>2, <1>3 DEF TypeOK
<1>8. TypeOK'
  BY <1>1, <1>2, <1>3, <1>4, <1>5, <1>6, <1>7 DEF TypeOK
<1>9. QueueIsScheduled'
  BY <1>1, <1>4, <1>6 DEF QueueIsScheduled
<1>10. ASSUME NEW i \in Instance, NEW t \in SitesOf(i), SiteEntered(i, t)
       PROVE  SiteEntered(i, t)'
  <2>1. t \in Sites /\ t.callee \in Instance
    BY InputFields, InstanceAssumption
  <2>2. spawnCalls \subseteq spawnCalls' /\ scheduled \subseteq scheduled'
    BY <1>1, <1>4
  <2> QED
    BY <1>1, <1>5, <1>7, <1>10, <2>1, <2>2, SiteStays
<1>11. SiteEntered(caller, s)'
  BY <1>1, <1>3, <1>4, <1>5, <1>7 DEF SiteEntered, SpawnCall
<1>12. BodyProgress'
  BY <1>1, <1>2, <1>10, <1>11 DEF BodyProgress, SitesOf
<1>13. QueueProgress'
  BY <1>1, <1>4, <1>6, <1>10 DEF QueueProgress, TypeOK, SitesOf
<1>14. NothingElseSearched'
  <2> SUFFICES ASSUME NEW S \in SUBSET Instance, ClosedUnderCalls(S)'
               PROVE  scheduled' \subseteq S
    BY DEF NothingElseSearched
  <2>1. ClosedUnderCalls(S) /\ scheduled \subseteq S
    BY <1>1 DEF ClosedUnderCalls, NothingElseSearched
  <2>2. caller \in S \ input.promoted
    BY <1>1, <2>1 DEF QueueIsScheduled
  <2>3. \E k \in DOMAIN input.sites[caller] : input.sites[caller][k] = s
    BY <1>1, <1>2 DEF BodyProgress, SitesOf, Range
  <2>4. expand => s.callee \in S
    BY <2>1, <2>2, <2>3 DEF ClosedUnderCalls
  <2> QED
    BY <1>4, <2>1, <2>4
<1> QED
  BY <1>5, <1>8, <1>9, <1>12, <1>13, <1>14

(* A body whose list is empty has all its sites entered. *)
LEMMA EndBodyPreserves ==
  ASSUME IInv, EndBody
  PROVE  IInv'
<1> USE DEF IInv
<1>1. /\ caller # NoInstance /\ rest = <<>> /\ caller' = NoInstance
      /\ UNCHANGED <<input, nodes, weight, edges, spawnCalls, scheduled, pending, rest>>
  BY DEF EndBody
<1>2. \A i, s : SiteEntered(i, s)' <=> SiteEntered(i, s)
  BY <1>1 DEF SiteEntered, SpawnCall
<1>3. \A s \in SitesOf(caller) : SiteEntered(caller, s)
  BY <1>1 DEF BodyProgress, Range
<1>4. TypeOK' /\ BodiesAreScheduled' /\ NothingElseSearched'
  BY <1>1 DEF TypeOK, BodiesAreScheduled, NothingElseSearched, ClosedUnderCalls
<1>5. QueueIsScheduled' /\ BodyProgress'
  BY <1>1 DEF QueueIsScheduled, BodyProgress
<1>6. QueueProgress'
  BY <1>1, <1>2, <1>3 DEF QueueProgress, SitesOf
<1> QED
  BY <1>4, <1>5, <1>6

(* Nothing happens any more, or the environment of the graph moves. *)
LEMMA StutterPreserves ==
  ASSUME IInv, UNCHANGED <<input, graphVars>>
  PROVE  IInv'
<1>1. UNCHANGED <<input, nodes, weight, edges, spawnCalls, scheduled, pending, caller, rest>>
  BY DEF graphVars
<1>2. \A i, s : SiteEntered(i, s)' <=> SiteEntered(i, s)
  BY <1>1 DEF SiteEntered, SpawnCall
<1>3. TypeOK' /\ BodiesAreScheduled' /\ NothingElseSearched' /\ QueueIsScheduled'
  BY <1>1 DEF IInv, TypeOK, BodiesAreScheduled, NothingElseSearched, ClosedUnderCalls,
              QueueIsScheduled
<1>4. BodyProgress' /\ QueueProgress'
  BY <1>1, <1>2 DEF IInv, BodyProgress, QueueProgress, SitesOf
<1> QED
  BY <1>3, <1>4 DEF IInv

LEMMA StepPreserves ==
  ASSUME IInv, [Next]_<<input, graphVars>>
  PROVE  IInv'
<1>1. CASE \E i \in input.given : Give(i)
  BY <1>1, GivePreserves
<1>2. CASE Take
  BY <1>2, TakePreserves
<1>3. CASE EnterSite
  BY <1>3, EnterSitePreserves
<1>4. CASE EndBody
  BY <1>4, EndBodyPreserves
<1>5. CASE UNCHANGED <<input, graphVars>>
  BY <1>5, StutterPreserves
<1> QED
  BY <1>1, <1>2, <1>3, <1>4, <1>5 DEF Next, Analyze

(* A queue that has run empty leaves nothing to be entered. *)
LEMMA EndIsComplete ==
  ASSUME IInv, Ended
  PROVE  EveryCallEntered
<1> SUFFICES /\ ClosedUnderCalls(scheduled)
             /\ \A i \in scheduled \ input.promoted : \A k \in DOMAIN input.sites[i] :
                  LET s == input.sites[i][k]
                  IN  /\ weight[s.callee] # "none"
                      /\ s \in edges[<<i, s.callee>>]
                      /\ s.kind \in SpawnKinds => SpawnCall(i, s) \in spawnCalls
  BY DEF EveryCallEntered
<1>1. input.given \subseteq scheduled
  BY DEF Ended
<1>2. ASSUME NEW i \in scheduled \ input.promoted, NEW k \in DOMAIN input.sites[i]
      PROVE  SiteEntered(i, input.sites[i][k])
  <2>1. i # caller /\ i \notin Range(pending)
    BY InstanceAssumption DEF Ended, IInv, TypeOK, Range
  <2>2. \A s \in SitesOf(i) : SiteEntered(i, s)
    BY <2>1 DEF IInv, QueueProgress
  <2> QED
    BY <2>2 DEF SitesOf, Range
<1> QED
  BY <1>1, <1>2 DEF SiteEntered, ClosedUnderCalls

(* The induction: how far each body has come is preserved by every turn of *)
(* the loops of analyze().                                                 *)
THEOREM Inductive == Spec => []IInv
<1>1. IInv /\ [Next]_<<input, graphVars>> => IInv'
  BY StepPreserves
<1> QED
  BY InitEstablishes, <1>1, PTL DEF Spec

(* The variables keep their types. *)
THEOREM TypeCorrect == Spec => []TypeOK
<1>1. IInv => TypeOK
  BY DEF IInv
<1> QED
  BY Inductive, <1>1, PTL

(* `scheduled' and the weights of the nodes never disagree, and an instance*)
(* has one node: the index of an instance is well defined.                 *)
THEOREM NodesAreScheduled == Spec => []BodiesAreScheduled
<1>1. IInv => BodiesAreScheduled
  BY DEF IInv
<1> QED
  BY Inductive, <1>1, PTL

(* When the queue is empty the graph contains every call of every body that*)
(* can be reached, whatever the order of the instances.                    *)
THEOREM GraphComplete == Spec => []EveryCallEntered
<1>1. IInv => EveryCallEntered
  BY EndIsComplete DEF EveryCallEntered
<1> QED
  BY Inductive, <1>1, PTL

(* No body is searched that nobody asked for. *)
THEOREM GraphLeast == Spec => []NothingElseSearched
<1>1. IInv => NothingElseSearched
  BY DEF IInv
<1> QED
  BY Inductive, <1>1, PTL
-----------------------------------------------------------------------------
(* An edge is there because a body that is searched has a site for it. *)
EdgesFromSites ==
  \A i, j \in Instance :
    edges[<<i, j>>] # {} =>
      /\ i \in scheduled \ input.promoted
      /\ \E s \in SitesOf(i) : s.callee = j

(* A node of the crate has its body. *)
OwnHaveBodies ==
  \A i \in input.expandable : weight[i] \in {"none", "with"}

GraphInv == IInv /\ EdgesFromSites /\ OwnHaveBodies

LEMMA InitGraphInv ==
  ASSUME Init
  PROVE  GraphInv
<1>1. IInv
  BY InitEstablishes
<1>2. EdgesFromSites
  BY DEF Init, GraphInit, EdgesFromSites
<1>3. OwnHaveBodies
  BY <1>1, InputFields DEF Init, GraphInit, OwnHaveBodies, IInv
<1> QED
  BY <1>1, <1>2, <1>3 DEF GraphInv

LEMMA StepOwnBodies ==
  ASSUME GraphInv, [Next]_<<input, graphVars>>
  PROVE  OwnHaveBodies'
<1>1. weight \in [Instance -> {"none", "without", "with"}] /\ input.expandable \subseteq Instance
  BY InputFields DEF GraphInv, IInv, TypeOK
<1>2. CASE \E i \in input.given : Give(i)
  BY <1>1, <1>2 DEF Give, InsertInstance, GraphInv, OwnHaveBodies
<1>3. CASE EnterSite
  <2>1. /\ input' = input
        /\ weight' = [weight EXCEPT ![Head(rest).callee] =
                        IF @ = "with" THEN @
                        ELSE IF Head(rest).callee \in input.expandable THEN "with" ELSE "without"]
    BY <1>3 DEF EnterSite, InsertInstance
  <2> QED
    BY <1>1, <2>1 DEF GraphInv, OwnHaveBodies
<1>4. CASE Take \/ EndBody \/ UNCHANGED <<input, graphVars>>
  BY <1>4 DEF Take, EndBody, graphVars, GraphInv, OwnHaveBodies
<1> QED
  BY <1>2, <1>3, <1>4 DEF Next, Analyze

LEMMA StepGraphInv ==
  ASSUME GraphInv, [Next]_<<input, graphVars>>
  PROVE  GraphInv'
<1>1. IInv'
  BY StepPreserves DEF GraphInv
<1> SUFFICES EdgesFromSites'
  BY <1>1, StepOwnBodies DEF GraphInv
<1>2. ASSUME UNCHANGED <<input, edges>>, scheduled \subseteq scheduled'
      PROVE  EdgesFromSites'
  BY <1>2 DEF GraphInv, EdgesFromSites, SitesOf
<1>3. CASE \E i \in input.given : Give(i)
  BY <1>2, <1>3 DEF Give, Schedule
<1>4. CASE Take
  BY <1>2, <1>4 DEF Take
<1>5. CASE EnterSite
  <2> DEFINE s == Head(rest)
  <2>1. /\ caller # NoInstance /\ rest # <<>> /\ rest \in Seq(Sites) /\ caller \in Instance
        /\ edges' = [edges EXCEPT ![<<caller, s.callee>>] = @ \cup {s}]
        /\ edges \in [Instance \X Instance -> SUBSET Sites]
        /\ UNCHANGED input
    BY <1>5 DEF EnterSite, GraphInv, IInv, TypeOK
  <2>2. s \in SitesOf(caller) /\ caller \in scheduled \ input.promoted
    BY <2>1, TailRange DEF GraphInv, IInv, BodyProgress, QueueIsScheduled
  <2>3. scheduled \subseteq scheduled'
    BY <1>5 DEF EnterSite, Schedule
  <2> HIDE DEF s
  <2>4. \A i, j \in Instance : edges'[<<i, j>>] # {} =>
          edges[<<i, j>>] # {} \/ (i = caller /\ j = s.callee)
    BY <2>1
  <2> QED
    BY <2>1, <2>2, <2>3, <2>4 DEF GraphInv, EdgesFromSites, SitesOf
<1>6. CASE EndBody
  BY <1>2, <1>6 DEF EndBody
<1>7. CASE UNCHANGED <<input, graphVars>>
  BY <1>2, <1>7 DEF graphVars
<1> QED
  BY <1>3, <1>4, <1>5, <1>6, <1>7 DEF Next, Analyze

(* What is scheduled was given or belongs to the crate. *)
LEMMA ScheduledKnown ==
  ASSUME IInv
  PROVE  scheduled \subseteq input.given \cup input.expandable
<1> DEFINE S == input.given \cup input.expandable
<1>1. S \subseteq Instance
  BY InputFields DEF IInv
<1>2. ClosedUnderCalls(S)
  BY DEF ClosedUnderCalls
<1> HIDE DEF S
<1>3. scheduled \subseteq S
  BY <1>1, <1>2 DEF IInv, NothingElseSearched
<1> QED
  BY <1>3 DEF S
-----------------------------------------------------------------------------
(* What one step of the breadth-first search adds. *)
Along(A) == A \cup {j \in Range(nodes) : \E i \in A : edges[<<i, j>>] # {}}

(* Left by no edge. *)
Downward(S) == \A i \in S, j \in Range(nodes) : edges[<<i, j>>] # {} => j \in S

LEMMA NodesAreFinite ==
  ASSUME IInv
  PROVE  /\ Len(nodes) \in Nat /\ DOMAIN nodes = 1 .. Len(nodes)
         /\ IsFiniteSet(Range(nodes)) /\ Cardinality(Range(nodes)) \in Nat
         /\ Cardinality(Range(nodes)) =< Len(nodes)
         /\ Range(nodes) \subseteq Instance
<1> DEFINE n == Len(nodes)
<1>1. nodes \in Seq(Instance)
  BY DEF IInv, TypeOK
<1>2. n \in Nat /\ DOMAIN nodes = 1 .. n /\ Range(nodes) \subseteq Instance
  BY <1>1 DEF Range
<1> HIDE DEF n
<1>3. IsFiniteSet(1 .. n) /\ Cardinality(1 .. n) = n
  BY <1>2, FS_Interval
<1>4. nodes \in Surjection(1 .. n, Range(nodes))
  BY <1>1, <1>2 DEF Surjection, Range, n
<1>5. IsFiniteSet(Range(nodes)) /\ Cardinality(Range(nodes)) =< Cardinality(1 .. n)
  BY <1>3, <1>4, FS_Surjection
<1> QED
  BY <1>2, <1>3, <1>5, FS_CardinalityType DEF n

(* reachable_from_roots: the least set of nodes that holds the roots and is*)
(* left by no edge.                                                        *)
LEMMA Reach ==
  ASSUME IInv, NEW roots
  PROVE  /\ ReachableFromRoots(roots) \subseteq Range(nodes)
         /\ roots \cap Range(nodes) \subseteq ReachableFromRoots(roots)
         /\ Downward(ReachableFromRoots(roots))
         /\ \A S \in SUBSET Range(nodes) :
              roots \cap Range(nodes) \subseteq S /\ Downward(S) => ReachableFromRoots(roots) \subseteq S
<1> DEFINE N == Range(nodes)
           x == roots \cap N
           F == [A \in SUBSET N |-> Along(A)]
           w == CHOOSE f : f = [k \in Nat |-> IF k = 0 THEN x ELSE Along(f[k - 1])]
           c == Len(nodes)
<1>1. ReachableFromRoots(roots) = w[c]
  BY DEF ReachableFromRoots, Along
<1>2. x \in SUBSET N /\ \A A \in SUBSET N : F[A] = Along(A) /\ F[A] \in SUBSET N /\ A \subseteq F[A]
  BY DEF Along
<1> HIDE DEF F
<1>3. w = [k \in Nat |-> IF k = 0 THEN x ELSE Along(w[k - 1])]
  <2>1. PICK g : Iterates(g, F, x)
    BY IterationExists
  <2>2. \A k \in Nat : g[k] \in SUBSET N
    <3> DEFINE V == SUBSET N
    <3>1. x \in V /\ \A v \in V : F[v] \in V
      BY <1>2
    <3> HIDE DEF V, x
    <3>2. \A k \in Nat : g[k] \in V
      BY ONLY <2>1, <3>1, IterationType
    <3> QED
      BY <3>2 DEF V
  <2>3. \A k \in Nat : k # 0 => k - 1 \in Nat
    OBVIOUS
  <2>4. \A k \in Nat : k # 0 => F[g[k - 1]] = Along(g[k - 1])
    BY <1>2, <2>2, <2>3
  <2>5. g = [k \in Nat |-> IF k = 0 THEN x ELSE Along(g[k - 1])]
    BY <2>1, <2>4 DEF Iterates
  <2> QED
    BY <2>5
<1> HIDE DEF w
<1>4. w = [k \in Nat |-> w[k]] /\ w[0] = x
  BY <1>3
<1>5. \A k \in Nat : w[k] \in SUBSET N => w[k + 1] = F[w[k]]
  <2>1. \A k \in Nat : k + 1 \in Nat /\ k + 1 # 0 /\ (k + 1) - 1 = k
    OBVIOUS
  <2>2. \A k \in Nat : w[k + 1] = Along(w[k])
    BY <1>3, <2>1
  <2> QED
    BY <1>2, <2>2
<1>6. IsFiniteSet(N) /\ c \in Nat /\ Cardinality(N) =< c + Cardinality(x)
  <2>1. IsFiniteSet(N) /\ c \in Nat /\ Cardinality(N) =< c /\ Cardinality(N) \in Nat
    BY NodesAreFinite
  <2>2. Cardinality(x) \in Nat
    BY <1>2, <2>1, FS_Subset, FS_CardinalityType
  <2> HIDE DEF x, N, c
  <2> QED
    BY <2>1, <2>2
<1> HIDE DEF x, N, c
<1>7. IsLeastClosed(w[c], F, N, x)
  BY ONLY <1>2, <1>4, <1>5, <1>6, LeastClosed
<1>8. w[c] \in SUBSET N /\ x \subseteq w[c] /\ Along(w[c]) = w[c]
  BY <1>2, <1>7 DEF IsLeastClosed
<1>9. Downward(w[c])
  BY <1>8 DEF Downward, Along, N
<1>10. ASSUME NEW S \in SUBSET N, x \subseteq S, Downward(S) PROVE w[c] \subseteq S
  <2>1. \A A \in SUBSET S : Along(A) \subseteq S
    BY <1>10 DEF Downward, Along, N
  <2>2. \A A \in SUBSET S : F[A] \subseteq S
    BY <1>2, <1>10, <2>1
  <2> QED
    BY <1>7, <1>10, <2>2 DEF IsLeastClosed
<1> QED
  BY <1>1, <1>8, <1>9, <1>10 DEF N, x, c

(* More roots reach more. *)
LEMMA MoreRoots ==
  ASSUME IInv, NEW A, NEW B, A \subseteq B
  PROVE  ReachableFromRoots(A) \subseteq ReachableFromRoots(B)
<1>1. /\ ReachableFromRoots(B) \in SUBSET Range(nodes)
      /\ A \cap Range(nodes) \subseteq ReachableFromRoots(B)
      /\ Downward(ReachableFromRoots(B))
  BY Reach
<1> QED
  BY <1>1, Reach
-----------------------------------------------------------------------------
(* A step of the analysis is one of CallGraph or leaves the graph alone.   *)
LEMMA StepOfGraph ==
  ASSUME [AnalysisNext]_allVars
  PROVE  [Next]_<<input, graphVars>>
<1>1. CASE AnalyzeCallGraph
  BY <1>1 DEF AnalyzeCallGraph, Next
<1>2. CASE UNCHANGED <<input, graphVars>>
  BY <1>2
<1>3. CASE ConstructNet
  BY <1>3 DEF ConstructNet, Construct, ConstructFunctions, ConstructLocks,
              ConstructChannelResources, ConstructAtomicResources, ConstructUnsafeBlocks,
              TranslateFunction, EndTranslation
<1>4. CASE \/ ParseOptions \/ AfterAnalysis \/ Enter \/ EndCallGraph \/ ReduceAndDump
           \/ HandleVisualizations \/ WriteSummary \/ (\E d \in running : RunDetector(d))
           \/ EndDetection \/ StopWatcher \/ Sampler
  BY <1>4 DEF constructionVars, ParseOptions, AfterAnalysis, Enter, EndCallGraph, ReduceAndDump,
              HandleVisualizations, WriteSummary, RunDetector, EndDetection, StopWatcher,
              Sampler, SamplerLock, SamplerUnlock, SamplerWakes
<1>5. CASE UNCHANGED <<constructionVars, analysisVars>>
  BY <1>5 DEF constructionVars
<1> QED
  BY <1>1, <1>2, <1>3, <1>4, <1>5 DEF AnalysisNext, Main, allVars

LEMMA StartOfGraph ==
  ASSUME AnalysisInit
  PROVE  Init
BY DEF AnalysisInit, Init

(* The analysis builds the graph as CallGraph says it is built: the phases,*)
(* the net, the detectors and the sampler never disturb it.                *)
THEOREM AnalysisBuildsGraph ==
  AnalysisSpec => Init /\ [][Next]_<<input, graphVars>>
<1>1. AnalysisInit => Init
  BY StartOfGraph
<1>2. [AnalysisNext]_allVars => [Next]_<<input, graphVars>>
  BY StepOfGraph
<1> QED
  BY <1>1, <1>2, PTL DEF AnalysisSpec

(* So what CallGraph promises of the graph holds of that of the analysis.  *)
THEOREM AnalysisGraph ==
  AnalysisSpec => [](BodiesAreScheduled /\ EveryCallEntered /\ NothingElseSearched)
<1>1. AnalysisSpec => Spec
  BY AnalysisBuildsGraph, PTL DEF Spec
<1>2. IInv => BodiesAreScheduled /\ EveryCallEntered /\ NothingElseSearched
  BY EndIsComplete DEF IInv, EveryCallEntered
<1> QED
  BY <1>1, <1>2, Inductive, PTL
-----------------------------------------------------------------------------
(* What EnteredIsTranslated rests on: `enters' and the call sites say the  *)
(* same of a crate.  Its main function is among the instances the compiler *)
(* lists; only bodies that are searched enter anything; what one enters is *)
(* the callee of some site of it, and the callee of a site is entered unless*)
(* it is of another crate and has no MIR.                                  *)
CallsAreSites(c) ==
  LET ours == c.given \cup c.expandable
  IN  /\ IsFiniteSet(DOMAIN c.functions)
      /\ c.main # NoInstance => c.main \in c.given
      /\ \A i \in Instance :
           LET enters == c.functions[Fn(i)].enters
           IN  /\ Fn(i) \in DOMAIN c.functions
               /\ i \notin ours \ c.promoted => enters = {}
               /\ i \in ours \ c.promoted =>
                    /\ \A g \in enters : \E s \in Range(c.sites[i]) : Fn(s.callee) = g
                    /\ \A s \in Range(c.sites[i]) :
                         \/ Fn(s.callee) \in enters
                         \/ s.callee \notin ours /\ ~c.functions[Fn(s.callee)].mir
      /\ \A f \in DOMAIN c.functions : c.functions[f].enters \subseteq DOMAIN c.functions

(* Entered: the least set of functions that has main and what any of them  *)
(* enters.                                                                 *)
LEMMA EnteredIsLeast ==
  ASSUME CallsAreSites(input), input.main # NoInstance, input.main \in Instance
  PROVE  /\ Fn(input.main) \in Entered
         /\ \A f \in Entered : input.functions[f].enters \subseteq Entered
         /\ \A S \in SUBSET DOMAIN input.functions :
              Fn(input.main) \in S /\ (\A f \in S : input.functions[f].enters \subseteq S)
                => Entered \subseteq S
<1> DEFINE N == DOMAIN input.functions
           x == {Fn(input.main)}
           G(A) == A \cup UNION {input.functions[f].enters : f \in A}
           F == [A \in SUBSET N |-> G(A)]
           w == CHOOSE f : f = [k \in Nat |-> IF k = 0 THEN x ELSE G(f[k - 1])]
           c == Cardinality(N)
<1>1. Entered = w[c]
  BY DEF Entered
<1>2. IsFiniteSet(N) /\ x \in SUBSET N /\ \A f \in N : input.functions[f].enters \subseteq N
  BY DEF CallsAreSites
<1>3. \A A \in SUBSET N : F[A] = G(A) /\ F[A] \in SUBSET N /\ A \subseteq F[A]
  BY <1>2
<1>4. c \in Nat /\ Cardinality(N) =< c + Cardinality(x)
  <2>1. c \in Nat /\ Cardinality(x) \in Nat
    BY <1>2, FS_CardinalityType, FS_Subset
  <2> HIDE DEF x, N
  <2> QED
    BY <2>1
<1> HIDE DEF F
<1>5. w = [k \in Nat |-> IF k = 0 THEN x ELSE G(w[k - 1])]
  <2>1. PICK g : Iterates(g, F, x)
    BY IterationExists
  <2>2. \A k \in Nat : g[k] \in SUBSET N
    <3> DEFINE V == SUBSET N
    <3>1. x \in V /\ \A v \in V : F[v] \in V
      BY <1>2, <1>3
    <3> HIDE DEF V, x
    <3>2. \A k \in Nat : g[k] \in V
      BY ONLY <2>1, <3>1, IterationType
    <3> QED
      BY <3>2 DEF V
  <2>3. \A k \in Nat : k # 0 => k - 1 \in Nat
    OBVIOUS
  <2>4. \A k \in Nat : k # 0 => F[g[k - 1]] = G(g[k - 1])
    BY <1>3, <2>2, <2>3
  <2>5. g = [k \in Nat |-> IF k = 0 THEN x ELSE G(g[k - 1])]
    <3> HIDE DEF G
    <3> QED
      BY <2>1, <2>4 DEF Iterates
  <2> QED
    BY <2>5
<1> HIDE DEF w
<1>6. w = [k \in Nat |-> w[k]] /\ w[0] = x
  BY <1>5
<1>7. \A k \in Nat : w[k] \in SUBSET N => w[k + 1] = F[w[k]]
  <2>1. \A k \in Nat : k + 1 \in Nat /\ k + 1 # 0 /\ (k + 1) - 1 = k
    OBVIOUS
  <2>2. \A k \in Nat : w[k + 1] = G(w[k])
    <3> HIDE DEF G
    <3> QED
      BY <1>5, <2>1
  <2> QED
    BY <1>3, <2>2
<1> HIDE DEF x, N, c
<1>8. IsLeastClosed(w[c], F, N, x)
  BY ONLY <1>2, <1>3, <1>4, <1>6, <1>7, LeastClosed
<1>9. w[c] \in SUBSET N /\ x \subseteq w[c] /\ G(w[c]) = w[c]
  BY <1>3, <1>8 DEF IsLeastClosed
<1>10. \A f \in w[c] : input.functions[f].enters \subseteq w[c]
  BY <1>9
<1>11. ASSUME NEW S \in SUBSET N, x \subseteq S, \A f \in S : input.functions[f].enters \subseteq S
       PROVE  w[c] \subseteq S
  <2>1. \A A \in SUBSET S : G(A) \subseteq S
    BY <1>11
  <2>2. \A A \in SUBSET S : F[A] \subseteq S
    BY <1>3, <1>11, <2>1
  <2> QED
    BY <1>8, <1>11, <2>2 DEF IsLeastClosed
<1> QED
  BY <1>1, <1>9, <1>10, <1>11 DEF N, x
-----------------------------------------------------------------------------
(* What is translated whatever is wanted besides: the nodes main reaches.  *)
Core == IF ~options.entryReachable \/ input.main = NoInstance THEN Range(nodes)
        ELSE ReachableFromRoots({input.main})

MainAlone ==
  options.entryReachable /\ ~options.concurrentRoots /\ input.main # NoInstance

LEMMA CoreIsWanted ==
  ASSUME IInv
  PROVE  /\ Core \subseteq Wanted
         /\ MainAlone => Wanted = Core
         /\ Core \subseteq Range(nodes)
         /\ Downward(Core)
<1>1. CASE ~options.entryReachable \/ input.main = NoInstance
  BY <1>1 DEF Core, Wanted, MainAlone, Downward
<1>2. CASE ~(~options.entryReachable \/ input.main = NoInstance)
  <2> DEFINE A == {input.main}
             B == A \cup (IF options.concurrentRoots THEN ConcurrentRoots ELSE {})
  <2>1. Core = ReachableFromRoots(A) /\ Wanted = ReachableFromRoots(B)
    BY <1>2 DEF Core, Wanted
  <2>2. A \subseteq B /\ (MainAlone => B = A)
    BY DEF MainAlone
  <2> HIDE DEF A, B
  <2>3. ReachableFromRoots(A) \subseteq ReachableFromRoots(B)
    BY <2>2, MoreRoots
  <2>4. ReachableFromRoots(A) \subseteq Range(nodes) /\ Downward(ReachableFromRoots(A))
    BY Reach
  <2> QED
    BY <2>1, <2>2, <2>3, <2>4
<1> QED
  BY <1>1, <1>2

Registers(i) == CrateFilterMatch(Fn(i)) /\ ~input.functions[Fn(i)].ignored
Translates(i) == CrateFilterMatch(Fn(i)) /\ input.functions[Fn(i)].mir

(* Before the bodies are translated, before the call graph is there, and   *)
(* from when on functions have their places.                               *)
Untranslated == stage \in {"run", "callback", "entered", "callgraph", "functions", "locks",
                           "channels", "atomics", "unsafe"}
HasGraph == stage \notin {"run", "callback", "entered", "callgraph",
                          "returned", "panicked", "exited"}
HasFunctions == HasGraph /\ stage # "functions"

NodesTranslated ==
  \A k \in DOMAIN nodes :
    k < at /\ nodes[k] \in Wanted /\ Translates(nodes[k]) => Fn(nodes[k]) \in DOMAIN translated

(* A function is translated as the first of its instances that is wanted.  *)
FirstTranslated ==
  \A f \in DOMAIN translated : \E k \in DOMAIN nodes :
    /\ nodes[k] = translated[f] /\ Fn(nodes[k]) = f /\ Translates(nodes[k])
    /\ \A j \in DOMAIN nodes : j < k /\ Fn(nodes[j]) = f => nodes[j] \notin Wanted

NoMoreTranslated ==
  MainAlone => \A f \in DOMAIN translated :
                 input.functions[f].mir /\ \E i \in Core : Fn(i) = f

CoreRegistered ==
  HasFunctions /\ input.main # NoInstance =>
    \A i \in Core : Registers(i) => Fn(i) \in registered

(* How far the net has come. *)
NetInv ==
  /\ at \in Nat \ {0}
  /\ Untranslated => at = 1 /\ translated = <<>>
  /\ HasGraph => Ended
  /\ NodesTranslated
  /\ FirstTranslated
  /\ NoMoreTranslated
  /\ CoreRegistered
  /\ Built => at \notin DOMAIN nodes

LEMMA InitNetInv ==
  ASSUME AnalysisInit
  PROVE  NetInv
<1>1. /\ at = 1 /\ translated = <<>> /\ stage = "run" /\ nodes = <<>>
  BY DEF AnalysisInit, ConstructionInit, GraphInit
<1>2. DOMAIN nodes = {} /\ DOMAIN translated = {}
  BY <1>1
<1> QED
  BY <1>1, <1>2 DEF NetInv, Untranslated, HasGraph, HasFunctions, NodesTranslated,
     FirstTranslated, NoMoreTranslated, CoreRegistered, Built

(* Steps before anything is translated. *)
LEMMA EarlyNetInv ==
  ASSUME NetInv, Untranslated', UNCHANGED <<at, translated>>, Untranslated,
         nodes' \in Seq(Instance), HasGraph' => Ended', ~HasFunctions'
  PROVE  NetInv'
<1>1. at' = 1 /\ translated' = <<>> /\ DOMAIN translated' = {}
  BY DEF NetInv
<1>2. \A k \in DOMAIN nodes' : ~(k < 1)
  OBVIOUS
<1>3. NodesTranslated' /\ FirstTranslated' /\ NoMoreTranslated' /\ CoreRegistered' /\ ~Built'
  BY <1>1, <1>2 DEF NodesTranslated, FirstTranslated, NoMoreTranslated, CoreRegistered, Built, Untranslated
<1> QED
  BY <1>1, <1>3 DEF NetInv

(* Steps that leave the graph and the net alone. *)
LEMMA FrameWanted ==
  ASSUME UNCHANGED <<input, options, graphVars>>
  PROVE  AtomicVars' = AtomicVars /\ Wanted' = Wanted
<1>1. UNCHANGED <<nodes, weight, edges>>
  BY DEF graphVars
<1>2. Examined' = Examined /\ WithBody' = WithBody /\ ChannelEnds' = ChannelEnds
  BY <1>1 DEF Examined, ChannelEnds, WithBody, LocalsOf, About
<1>3. AtomicVars' = AtomicVars
  BY <1>1, <1>2 DEF AtomicVars, ExamineBody, DeclareAtomics, LocalsOf, About
<1>4. ConcurrentRoots' = ConcurrentRoots
  BY <1>2, <1>3 DEF ConcurrentRoots, About
<1> QED
  BY <1>1, <1>3, <1>4 DEF Wanted, ReachableFromRoots

LEMMA FrameNetInv ==
  ASSUME NetInv, UNCHANGED <<input, options, graphVars, registered, at, translated>>,
         Untranslated' => Untranslated, HasGraph' => Ended,
         HasFunctions' => HasFunctions, Built' => Built
  PROVE  NetInv'
<1>1. UNCHANGED <<nodes, edges, scheduled, pending, caller>>
  BY DEF graphVars
<1>2. Core' = Core /\ Wanted' = Wanted
  BY <1>1, FrameWanted DEF Core, ReachableFromRoots
<1>3. \A i : (Registers(i)' <=> Registers(i)) /\ (Translates(i)' <=> Translates(i))
  BY DEF Registers, Translates, CrateFilterMatch
<1>4. (MainAlone' <=> MainAlone) /\ (Ended' <=> Ended)
  BY <1>1 DEF MainAlone, Ended
<1>5. NodesTranslated' /\ FirstTranslated' /\ NoMoreTranslated' /\ CoreRegistered'
  BY <1>1, <1>2, <1>3, <1>4 DEF NetInv, NodesTranslated, FirstTranslated, NoMoreTranslated, CoreRegistered
<1> QED
  BY <1>1, <1>4, <1>5 DEF NetInv

LEMMA FunctionsNetInv ==
  ASSUME IInv, NetInv, ConstructFunctions
  PROVE  NetInv'
<1>1. /\ stage = "functions" /\ stage' = "locks" /\ UNCHANGED <<input, options, graphVars, at, translated>>
      /\ input.main # NoInstance =>
           registered' = {f \in {Fn(i) : i \in Wanted} :
                            CrateFilterMatch(f) /\ ~input.functions[f].ignored}
  BY DEF ConstructFunctions
<1>2. UNCHANGED <<nodes, edges, scheduled, pending, caller>>
  BY <1>1 DEF graphVars
<1>3. Core' = Core
  BY <1>1, <1>2 DEF Core, ReachableFromRoots
<1>4. \A i : Registers(i)' <=> Registers(i)
  BY <1>1 DEF Registers, CrateFilterMatch
<1>5. at' = 1 /\ translated' = <<>> /\ DOMAIN translated' = {} /\ Ended' /\ nodes' \in Seq(Instance)
  BY <1>1, <1>2 DEF NetInv, Untranslated, HasGraph, Ended, IInv, TypeOK
<1>6. \A k \in DOMAIN nodes' : ~(k < 1)
  BY <1>5
<1>7. NodesTranslated' /\ FirstTranslated' /\ NoMoreTranslated' /\ ~Built'
  BY <1>1, <1>5, <1>6 DEF NodesTranslated, FirstTranslated, NoMoreTranslated, Built
<1>8. input.main # NoInstance => \A i \in Core : Registers(i) => Fn(i) \in registered'
  BY <1>1, CoreIsWanted DEF Registers
<1>9. CoreRegistered'
  BY <1>1, <1>3, <1>4, <1>8 DEF CoreRegistered
<1> QED
  BY <1>5, <1>7, <1>9 DEF NetInv

LEMMA TranslateNetInv ==
  ASSUME IInv, NetInv, TranslateFunction
  PROVE  NetInv'
<1> DEFINE i == nodes[at]
           f == Fn(i)
           visits == i \in Wanted /\ Translates(i) /\ f \notin DOMAIN translated
<1>1. /\ stage = "translate" /\ stage' \in {"translate", "panicked"} /\ at \in DOMAIN nodes
      /\ at' = at + 1
      /\ UNCHANGED <<input, options, graphVars, registered>>
  BY DEF TranslateFunction
<1>2. DOMAIN translated' = IF visits THEN {f} \cup DOMAIN translated ELSE DOMAIN translated
  BY DEF TranslateFunction, Translates
<1>3. UNCHANGED <<nodes, edges, scheduled, pending, caller>>
  BY <1>1 DEF graphVars
<1>4. Core' = Core /\ Wanted' = Wanted
  BY <1>1, <1>3, FrameWanted DEF Core, ReachableFromRoots
<1>5. \A j : (Registers(j)' <=> Registers(j)) /\ (Translates(j)' <=> Translates(j))
  BY <1>1 DEF Registers, Translates, CrateFilterMatch
<1>6. (MainAlone' <=> MainAlone) /\ (Ended' <=> Ended)
  BY <1>1, <1>3 DEF MainAlone, Ended
<1>7. at \in Nat \ {0} /\ DOMAIN nodes \subseteq Nat
  BY DEF NetInv, IInv, TypeOK
<1>8. NodesTranslated'
  <2> SUFFICES ASSUME NEW k \in DOMAIN nodes, k < at + 1, nodes[k] \in Wanted, Translates(nodes[k])
               PROVE  Fn(nodes[k]) \in DOMAIN translated'
    BY <1>1, <1>3, <1>4, <1>5 DEF NodesTranslated
  <2>1. CASE k < at
    BY <1>2, <2>1 DEF NetInv, NodesTranslated
  <2>2. CASE k = at
    BY <1>2, <2>2
  <2> QED
    BY <1>7, <2>1, <2>2
<1>9. NoMoreTranslated'
  <2> SUFFICES ASSUME MainAlone, NEW g \in DOMAIN translated'
               PROVE  input.functions[g].mir /\ \E j \in Core : Fn(j) = g
    BY <1>1, <1>4, <1>6 DEF NoMoreTranslated
  <2>1. CASE g \in DOMAIN translated
    BY <2>1 DEF NetInv, NoMoreTranslated
  <2>2. CASE g \notin DOMAIN translated
    BY <1>2, <2>2, CoreIsWanted DEF Translates
  <2> QED
    BY <2>1, <2>2
<1>10. FirstTranslated'
  <2> SUFFICES ASSUME NEW g \in DOMAIN translated'
               PROVE  \E k \in DOMAIN nodes :
                        /\ nodes[k] = translated'[g] /\ Fn(nodes[k]) = g /\ Translates(nodes[k])
                        /\ \A j \in DOMAIN nodes : j < k /\ Fn(nodes[j]) = g => nodes[j] \notin Wanted
    BY <1>1, <1>3, <1>4, <1>5 DEF FirstTranslated
  <2>1. CASE g \in DOMAIN translated
    <3>1. translated'[g] = translated[g]
      BY <2>1 DEF TranslateFunction
    <3> QED
      BY <2>1, <3>1 DEF NetInv, FirstTranslated
  <2>2. CASE g \notin DOMAIN translated
    <3>1. visits /\ g = f /\ translated'[g] = i
      BY <1>2, <2>2 DEF TranslateFunction, Translates
    <3>2. ASSUME NEW j \in DOMAIN nodes, j < at, Fn(nodes[j]) = f PROVE nodes[j] \notin Wanted
      <4>1. Translates(nodes[j])
        BY <3>1, <3>2 DEF Translates
      <4> QED
        BY <3>1, <3>2, <4>1 DEF NetInv, NodesTranslated
    <3> QED
      BY <1>1, <3>1, <3>2
  <2> QED
    BY <2>1, <2>2
<1>11. CoreRegistered'
  BY <1>1, <1>4, <1>5 DEF NetInv, CoreRegistered, HasFunctions, HasGraph
<1>12. at' \in Nat \ {0}
  BY <1>1, <1>7
<1>13. ~Built' /\ ~Untranslated' /\ Ended'
  BY <1>1, <1>6 DEF Built, Untranslated, NetInv, HasGraph
<1> QED
  BY <1>8, <1>9, <1>10, <1>11, <1>12, <1>13 DEF NetInv

LEMMA StepNetInv ==
  ASSUME IInv, NetInv, [AnalysisNext]_allVars
  PROVE  NetInv'
<1> USE DEF Untranslated, HasGraph, HasFunctions, Built
<1>1. CASE ParseOptions
  <2>1. stage = "run" /\ stage' \in {"exited", "callback"} /\ UNCHANGED <<graphVars, functionVars>>
    BY <1>1 DEF ParseOptions
  <2>2. nodes' \in Seq(Instance) /\ UNCHANGED <<at, translated>>
    BY <2>1 DEF graphVars, functionVars, IInv, TypeOK
  <2>3. CASE stage' = "callback"
    BY <2>1, <2>2, <2>3, EarlyNetInv
  <2>4. CASE stage' = "exited"
    <3>1. at' = 1 /\ translated' = <<>> /\ DOMAIN translated' = {}
      BY <2>1, <2>2 DEF NetInv
    <3>2. \A k \in DOMAIN nodes' : ~(k < 1)
      BY <2>2
    <3>3. NodesTranslated' /\ FirstTranslated' /\ NoMoreTranslated' /\ CoreRegistered'
      BY <2>4, <3>1, <3>2 DEF NodesTranslated, FirstTranslated, NoMoreTranslated, CoreRegistered
    <3> QED
      BY <2>4, <3>1, <3>3 DEF NetInv
  <2> QED
    BY <2>1, <2>3, <2>4
<1>2. CASE AnalyzeCallGraph
  <2>1. stage = "callgraph" /\ stage' = "callgraph" /\ UNCHANGED <<at, translated>>
    BY <1>2 DEF AnalyzeCallGraph, analysisVars, functionVars
  <2>2. IInv'
    BY StepOfGraph, StepPreserves
  <2>3. nodes' \in Seq(Instance)
    BY <2>2 DEF IInv, TypeOK
  <2> QED
    BY <2>1, <2>3, EarlyNetInv
<1>3. CASE AfterAnalysis \/ Enter \/ EndCallGraph \/ ReduceAndDump \/ HandleVisualizations
           \/ WriteSummary \/ (\E d \in running : RunDetector(d)) \/ EndDetection
           \/ StopWatcher \/ Sampler
  <2>1. /\ UNCHANGED constructionVars
        /\ Untranslated' => Untranslated
        /\ HasGraph' => Ended
        /\ HasFunctions' => HasFunctions
        /\ Built' => Built
    BY <1>3 DEF AfterAnalysis, Enter, EndCallGraph, ReduceAndDump, HandleVisualizations,
                WriteSummary, RunDetector, EndDetection, StopWatcher, Sampler, SamplerLock,
                SamplerUnlock, SamplerWakes, NetInv
  <2>2. UNCHANGED <<input, options, graphVars, registered, at, translated>>
    BY <2>1 DEF constructionVars, functionVars
  <2>3. (Untranslated' => Untranslated) /\ (HasGraph' => Ended)
        /\ (HasFunctions' => HasFunctions) /\ (Built' => Built)
    BY <2>1
  <2> QED
    BY ONLY NetInv, <2>2, <2>3, FrameNetInv
<1>4. CASE ConstructFunctions
  BY <1>4, FunctionsNetInv
<1>5. CASE TranslateFunction
  BY <1>5, TranslateNetInv
<1>6. CASE ConstructLocks \/ ConstructChannelResources \/ ConstructAtomicResources
           \/ ConstructUnsafeBlocks
  <2>1. /\ stage \in {"locks", "channels", "atomics", "unsafe"}
        /\ stage' \in {"locks", "channels", "atomics", "unsafe", "translate"}
        /\ UNCHANGED <<input, options, graphVars, functionVars>>
    BY <1>6 DEF ConstructLocks, ConstructChannelResources, ConstructAtomicResources,
                ConstructUnsafeBlocks
  <2>2. UNCHANGED <<input, options, graphVars, registered, at, translated>>
    BY <2>1 DEF functionVars
  <2>3. (Untranslated' => Untranslated) /\ (HasGraph' => Ended)
        /\ (HasFunctions' => HasFunctions) /\ (Built' => Built)
    BY <2>1 DEF NetInv
  <2> QED
    BY ONLY NetInv, <2>2, <2>3, FrameNetInv
<1>7. CASE EndTranslation
  <2>1. /\ stage = "translate" /\ stage' = "built" /\ at \notin DOMAIN nodes
        /\ UNCHANGED <<input, options, graphVars, functionVars>>
    BY <1>7 DEF EndTranslation
  <2>2. UNCHANGED <<nodes, edges, scheduled, pending, caller, at, translated, registered>>
    BY <2>1 DEF graphVars, functionVars
  <2>3. Core' = Core /\ Wanted' = Wanted
    BY <2>1, <2>2, FrameWanted DEF Core, ReachableFromRoots
  <2>4. \A i : (Registers(i)' <=> Registers(i)) /\ (Translates(i)' <=> Translates(i))
    BY <2>1 DEF Registers, Translates, CrateFilterMatch
  <2>5. (MainAlone' <=> MainAlone) /\ (Ended' <=> Ended)
    BY <2>1, <2>2 DEF MainAlone, Ended
  <2>6. NodesTranslated' /\ FirstTranslated' /\ NoMoreTranslated' /\ CoreRegistered'
    BY <2>1, <2>2, <2>3, <2>4, <2>5 DEF NetInv, NodesTranslated, FirstTranslated, NoMoreTranslated, CoreRegistered
  <2> QED
    BY <2>1, <2>2, <2>5, <2>6 DEF NetInv
<1>8. CASE UNCHANGED allVars
  <2>1. UNCHANGED <<input, options, graphVars, registered, at, translated>> /\ UNCHANGED stage
    BY <1>8 DEF allVars, constructionVars, functionVars, analysisVars
  <2>2. (Untranslated' => Untranslated) /\ (HasGraph' => Ended)
        /\ (HasFunctions' => HasFunctions) /\ (Built' => Built)
    BY <2>1 DEF NetInv
  <2> QED
    BY ONLY NetInv, <2>1, <2>2, FrameNetInv
<1>9. CASE ConstructNet
  BY <1>4, <1>5, <1>6, <1>7, <1>9 DEF ConstructNet, Construct
<1> QED
  BY <1>1, <1>2, <1>3, <1>8, <1>9 DEF AnalysisNext, Main, allVars
-----------------------------------------------------------------------------
(* What main reaches is a node and has been searched if it is of the crate.*)
LEMMA CoreHoldsEntered ==
  ASSUME GraphInv, Ended, CallsAreSites(input)
  PROVE  \A f \in Entered : \E i \in Core : Fn(i) = f
<1> DEFINE ours == input.given \cup input.expandable
           S == {f \in DOMAIN input.functions :
                   \E i \in Core : Fn(i) = f /\ (i \in ours => i \in scheduled)}
<1>1. CASE input.main = NoInstance
  BY <1>1 DEF Entered
<1>2. CASE input.main # NoInstance
  <2>1. input.main \in input.given /\ input.given \subseteq Instance /\ input.main \in Instance
    BY <1>2, InputFields DEF CallsAreSites, GraphInv, IInv
  <2>2. Core \subseteq Range(nodes) /\ Downward(Core) /\ Range(nodes) \subseteq Instance
    BY CoreIsWanted, NodesAreFinite DEF GraphInv
  <2>3. input.main \in scheduled /\ input.main \in Range(nodes)
    BY <2>1 DEF Ended, GraphInv, IInv, BodiesAreScheduled
  <2>4. input.main \in Core
    BY <2>3, Reach DEF Core, GraphInv
  <2>5. Fn(input.main) \in S
    BY <2>1, <2>3, <2>4 DEF CallsAreSites
  <2>6. ASSUME NEW f \in S, NEW g \in input.functions[f].enters PROVE g \in S
    <3>1. PICK i \in Core : Fn(i) = f /\ (i \in ours => i \in scheduled)
      BY <2>6
    <3>2. i \in Instance /\ i \in Range(nodes)
      BY <2>2, <3>1
    <3>3. i \in ours \ input.promoted
      BY <2>6, <3>1, <3>2 DEF CallsAreSites
    <3>4. PICK s \in Range(input.sites[i]) : Fn(s.callee) = g
      BY <2>6, <3>1, <3>2, <3>3 DEF CallsAreSites
    <3>5. PICK k \in DOMAIN input.sites[i] : input.sites[i][k] = s
      BY <3>4 DEF Range
    <3>6. EveryCallEntered
      BY EndIsComplete DEF GraphInv
    <3>7. /\ weight[s.callee] # "none" /\ s \in edges[<<i, s.callee>>]
          /\ s.callee \in input.expandable => s.callee \in scheduled
      BY <3>1, <3>3, <3>5, <3>6 DEF EveryCallEntered, ClosedUnderCalls
    <3>8. s.callee \in Instance
      BY <3>2, <3>4, InputFields, InstanceAssumption DEF GraphInv, IInv, SitesOf
    <3>9. s.callee \in Range(nodes)
      BY <3>7, <3>8 DEF GraphInv, IInv, BodiesAreScheduled
    <3>10. s.callee \in Core
      BY <2>2, <3>1, <3>7, <3>9 DEF Downward
    <3>11. s.callee \in ours => s.callee \in scheduled
      BY <3>7 DEF Ended
    <3> QED
      BY <3>4, <3>8, <3>10, <3>11 DEF CallsAreSites
  <2>7. S \in SUBSET DOMAIN input.functions /\ \A f \in S : input.functions[f].enters \subseteq S
    BY <2>6
  <2> HIDE DEF S
  <2>8. Entered \subseteq S
    BY <1>2, <2>1, <2>5, <2>7, EnteredIsLeast
  <2> QED
    BY <2>8 DEF S
<1> QED
  BY <1>1, <1>2

(* And of main alone nothing with a body is reached that is not entered.   *)
LEMMA CoreIsEntered ==
  ASSUME GraphInv, Ended, CallsAreSites(input), MainAlone,
         NEW i \in Core, input.functions[Fn(i)].mir
  PROVE  Fn(i) \in Entered
<1> DEFINE ours == input.given \cup input.expandable
           S == {j \in Range(nodes) :
                   Fn(j) \in Entered \/ (j \notin ours /\ ~input.functions[Fn(j)].mir)}
<1>1. input.main # NoInstance /\ Core = ReachableFromRoots({input.main})
  BY DEF MainAlone, Core
<1>2. input.main \in Instance
  BY <1>1, InputFields DEF CallsAreSites, GraphInv, IInv
<1>3. Fn(input.main) \in Entered /\ \A f \in Entered : input.functions[f].enters \subseteq Entered
  BY <1>1, <1>2, EnteredIsLeast
<1>4. S \in SUBSET Range(nodes) /\ {input.main} \cap Range(nodes) \subseteq S
  BY <1>3
<1>5. Downward(S)
  <2> SUFFICES ASSUME NEW j \in S, NEW l \in Range(nodes), edges[<<j, l>>] # {}
               PROVE  Fn(l) \in Entered \/ (l \notin ours /\ ~input.functions[Fn(l)].mir)
    BY DEF Downward
  <2>1. j \in Instance /\ l \in Instance
    BY NodesAreFinite DEF GraphInv
  <2>2. j \in scheduled \ input.promoted /\ \E s \in SitesOf(j) : s.callee = l
    BY <2>1 DEF GraphInv, EdgesFromSites
  <2>3. PICK s \in Range(input.sites[j]) : s.callee = l
    BY <2>2 DEF SitesOf
  <2>4. j \in ours \ input.promoted
    BY <2>2, ScheduledKnown DEF GraphInv
  <2>5. Fn(j) \in Entered
    BY <2>4
  <2>6. Fn(l) \in input.functions[Fn(j)].enters \/ (l \notin ours /\ ~input.functions[Fn(l)].mir)
    BY <2>1, <2>3, <2>4 DEF CallsAreSites
  <2> QED
    BY <1>3, <2>5, <2>6
<1> HIDE DEF S
<1>6. Core \subseteq S
  BY <1>1, <1>4, <1>5, Reach DEF GraphInv
<1> QED
  BY <1>6 DEF S

(* The net holds what the program enters, and no more if no more was asked *)
(* for.                                                                    *)
LEMMA BuiltNet ==
  ASSUME GraphInv, NetInv, CallsAreSites(input)
  PROVE  EnteredIsTranslated
<1> SUFFICES ASSUME Built PROVE
      /\ Entered \cap Candidates \subseteq DOMAIN translated
      /\ \A f \in Entered \cap Candidates : ~input.functions[f].ignored => f \in registered
      /\ MainAlone => DOMAIN translated \subseteq Entered
  BY DEF EnteredIsTranslated, MainAlone
<1>1. HasGraph /\ HasFunctions /\ Ended /\ at \notin DOMAIN nodes
  BY DEF Built, HasGraph, HasFunctions, NetInv
<1>2. Core \subseteq Range(nodes)
  BY CoreIsWanted DEF GraphInv
<1>3. ASSUME NEW k \in DOMAIN nodes PROVE k < at
  <2>1. DOMAIN nodes = 1 .. Len(nodes) /\ Len(nodes) \in Nat /\ at \in Nat \ {0}
    BY NodesAreFinite DEF GraphInv, NetInv
  <2> QED
    BY <1>1, <2>1
<1>4. ASSUME NEW f \in Entered \cap Candidates
      PROVE  f \in DOMAIN translated /\ (~input.functions[f].ignored => f \in registered)
  <2>1. PICK i \in Core : Fn(i) = f
    BY <1>1, CoreHoldsEntered
  <2>2. PICK k \in DOMAIN nodes : nodes[k] = i
    BY <1>2, <2>1 DEF Range
  <2>3. f \in DOMAIN translated
    BY <1>3, <2>1, <2>2, CoreIsWanted DEF GraphInv, NetInv, NodesTranslated, Translates, Candidates
  <2>4. input.main # NoInstance
    BY DEF Entered
  <2> QED
    BY <1>1, <2>1, <2>3, <2>4 DEF NetInv, CoreRegistered, Registers, Candidates
<1>5. ASSUME MainAlone, NEW f \in DOMAIN translated PROVE f \in Entered
  <2>1. input.functions[f].mir /\ \E i \in Core : Fn(i) = f
    BY <1>5 DEF NetInv, NoMoreTranslated
  <2> QED
    BY <1>1, <1>5, <2>1, CoreIsEntered
<1> QED
  BY <1>4, <1>5

(* Whatever the order of the instances, and whichever roots are asked for: *)
(* of crates whose bodies agree with their call sites, the net holds each  *)
(* function that main enters, with its places and its body, and translation*)
(* from main alone translates no other.                                    *)
THEOREM NetHoldsEntered ==
  ASSUME \A c \in Inputs : CallsAreSites(c)
  PROVE  AnalysisSpec => []EnteredIsTranslated
<1> DEFINE Inv == GraphInv /\ NetInv
<1>1. AnalysisInit => Inv
  BY StartOfGraph, InitGraphInv, InitNetInv
<1>2. Inv /\ [AnalysisNext]_allVars => Inv'
  BY StepOfGraph, StepGraphInv, StepNetInv DEF GraphInv
<1>3. Inv => EnteredIsTranslated
  BY BuiltNet DEF GraphInv, IInv, TypeOK
<1> QED
  BY <1>1, <1>2, <1>3, PTL DEF AnalysisSpec
-----------------------------------------------------------------------------
(* How far the options let the analysis go, and what it writes on the way. *)
Analysed ==
  /\ ~World.buildDir /\ World.codegen
  /\ TargetsCurrentCrate(options, World.crate)
  /\ options.stop # "mir"

Explored == Analysed /\ options.stop # "callgraph"

MirFile == IF Analysed THEN {"mir"} \cap options.dumps ELSE {}

NetFiles ==
  IF Explored /\ "petrinet" \in options.dumps
    THEN {"petrinet_raw", "petrinet"} \cup StageFiles
         \cup (IF options.research /\ World.issues THEN {"petri_net_diagnostics"} ELSE {})
  ELSE {}

GraphFiles ==
  IF Explored
    THEN (options.dumps \cap {"callgraph", "stategraph"})
         \cup (IF "pointsto" \in options.dumps \/ options.detector = "pointsto"
                 THEN {"points_to_report"} ELSE {})
  ELSE {}

SummaryFile == IF Explored /\ options.research THEN {"summary"} ELSE {}

ReportFiles ==
  IF Explored /\ ~StopsBeforeDetection THEN {ReportOf(d) : d \in Detectors} ELSE {}

AllFiles == MirFile \cup NetFiles \cup GraphFiles \cup SummaryFile \cup ReportFiles

Parsed == options = ParseFromArgs(input.args, input.config)

(* What the code writes is what is due, but for the stops that come too late*)
(* or before their own dump.                                                *)
LEMMA DueByParts ==
  ASSUME input \in Inputs, ~input.args.unknown, Parsed
  PROVE  /\ StopAsked \notin {"pointsto", "petrinet"} => AllFiles \subseteq Due
         /\ StopAsked \notin {"mir", "callgraph"} => Due \subseteq AllFiles
         /\ StopAsked = "pointsto" => AllFiles \cap Reports = {}
         /\ "unsafe" \in options.dumps => "unsafe" \in input.args.flags
<1> DEFINE args == input.args
           mode == Given(args, "mode", "deadlock")
           stop == StopAsked
           research == Given(args, "level", IF input.config.research THEN "research" ELSE "developer")
                         = "research"
           target == Given(args, "crate", Name("main")).word = World.crate.word
           analysed == ThisCrate /\ stop # "mir"
           explored == analysed /\ stop # "callgraph"
           detected == explored /\ stop \notin {"pointsto", "stategraph"}
<1>1. /\ options.detector = mode /\ options.stop = stop
      /\ options.dumps = args.flags \cap Dumps
      /\ options.crate = Given(args, "crate", Name("main"))
      /\ options.research = IF "level" \in DOMAIN args THEN args.level = "research"
                            ELSE input.config.research
  BY DEF Parsed, ParseFromArgs, Matches, StopAsked
<1>2. mode \in Modes /\ input.config.research \in BOOLEAN
  BY AskedAssumption
<1>3. research <=> options.research
  BY <1>1, <1>2 DEF Given
<1>4. TargetsCurrentCrate(options, World.crate) <=> target
  BY <1>1 DEF TargetsCurrentCrate, Normalize, Name
<1>5. (Analysed <=> analysed) /\ (Explored <=> explored)
  BY <1>1, <1>4 DEF Analysed, Explored, ThisCrate
<1> HIDE DEF mode, stop, research, analysed, target
<1>6. MirFile = IF analysed THEN {"mir"} \cap args.flags ELSE {}
  BY <1>1, <1>5 DEF MirFile, Dumps
<1>7. NetFiles = (IF explored /\ "petrinet" \in args.flags
                    THEN {"petrinet_raw", "petrinet"} \cup StageFiles ELSE {})
                 \cup (IF explored /\ "petrinet" \in args.flags /\ research /\ World.issues
                         THEN {"petri_net_diagnostics"} ELSE {})
  BY <1>1, <1>3, <1>5 DEF NetFiles, Dumps
<1>8. GraphFiles = (IF explored THEN {"callgraph", "stategraph"} \cap args.flags ELSE {})
                   \cup (IF explored /\ ("pointsto" \in args.flags \/ mode = "pointsto")
                           THEN {"points_to_report"} ELSE {})
  BY <1>1, <1>5 DEF GraphFiles, Dumps
<1>9. SummaryFile = IF explored /\ research THEN {"summary"} ELSE {}
  BY <1>3, <1>5 DEF SummaryFile
<1>10. ReportFiles = (IF detected /\ mode \in {"deadlock", "all"} THEN {"deadlock_report"} ELSE {})
                     \cup (IF detected /\ mode \in {"datarace", "all"} THEN {"datarace_report"} ELSE {})
                     \cup (IF detected /\ mode = "atomic" THEN {"atomicity_report"} ELSE {})
  <2>1. ReportOf("deadlock") = "deadlock_report" /\ ReportOf("datarace") = "datarace_report"
        /\ ReportOf("atomic") = "atomicity_report"
    BY DEF ReportOf
  <2>2. {ReportOf(d) : d \in Detectors} =
          (IF mode \in {"deadlock", "all"} THEN {"deadlock_report"} ELSE {})
          \cup (IF mode \in {"datarace", "all"} THEN {"datarace_report"} ELSE {})
          \cup (IF mode = "atomic" THEN {"atomicity_report"} ELSE {})
    <3>1. CASE mode = "deadlock"
      <4>1. Detectors = {"deadlock"}
        BY <1>1, <3>1 DEF Detectors
      <4> QED
        BY <2>1, <3>1, <4>1
    <3>2. CASE mode = "datarace"
      <4>1. Detectors = {"datarace"}
        BY <1>1, <3>2 DEF Detectors
      <4> QED
        BY <2>1, <3>2, <4>1
    <3>3. CASE mode = "atomic"
      <4>1. Detectors = {"atomic"}
        BY <1>1, <3>3 DEF Detectors
      <4> QED
        BY <2>1, <3>3, <4>1
    <3>4. CASE mode = "all"
      <4>1. Detectors = {"deadlock", "datarace"}
        BY <1>1, <3>4 DEF Detectors
      <4> QED
        BY <2>1, <3>4, <4>1
    <3>5. CASE mode = "pointsto"
      <4>1. Detectors = {}
        BY <1>1, <3>5 DEF Detectors
      <4> QED
        BY <2>1, <3>5, <4>1
    <3> QED
      BY <1>2, <3>1, <3>2, <3>3, <3>4, <3>5 DEF Modes
  <2>3. Explored /\ ~StopsBeforeDetection <=> detected /\ mode # "pointsto"
    BY <1>1, <1>5 DEF StopsBeforeDetection
  <2>4. CASE detected /\ mode # "pointsto"
    <3>1. ReportFiles = {ReportOf(d) : d \in Detectors}
      BY <2>3, <2>4 DEF ReportFiles
    <3> QED
      BY <2>2, <2>4, <3>1
  <2>5. CASE ~(detected /\ mode # "pointsto")
    <3>1. ReportFiles = {}
      BY <2>3, <2>5 DEF ReportFiles
    <3> QED
      BY <2>5, <3>1
  <2> QED
    BY <2>4, <2>5
<1>11. AllFiles = (IF analysed THEN {"mir"} \cap args.flags ELSE {})
      \cup (IF explored /\ "petrinet" \in args.flags
               THEN {"petrinet_raw", "petrinet"} \cup StageFiles ELSE {})
      \cup (IF explored /\ "petrinet" \in args.flags /\ research /\ World.issues
               THEN {"petri_net_diagnostics"} ELSE {})
      \cup (IF explored THEN {"callgraph", "stategraph"} \cap args.flags ELSE {})
      \cup (IF explored /\ ("pointsto" \in args.flags \/ mode = "pointsto")
               THEN {"points_to_report"} ELSE {})
      \cup (IF explored /\ research THEN {"summary"} ELSE {})
      \cup (IF detected /\ mode \in {"deadlock", "all"} THEN {"deadlock_report"} ELSE {})
      \cup (IF detected /\ mode \in {"datarace", "all"} THEN {"datarace_report"} ELSE {})
      \cup (IF detected /\ mode = "atomic" THEN {"atomicity_report"} ELSE {})
  <2> HIDE DEF explored, detected
  <2> QED
    BY <1>6, <1>7, <1>8, <1>9, <1>10 DEF AllFiles
<1> DEFINE graph == ThisCrate /\ stop # "mir"
           pointers == graph /\ stop # "callgraph"
           net == pointers /\ stop # "pointsto"
           states == net /\ stop # "petrinet"
           found == states /\ stop # "stategraph"
<1>12. Due = (IF ThisCrate THEN {"mir"} \cap args.flags ELSE {})
      \cup (IF graph THEN {"callgraph"} \cap args.flags ELSE {})
      \cup (IF pointers /\ ("pointsto" \in args.flags \/ mode = "pointsto")
               THEN {"points_to_report"} ELSE {})
      \cup (IF net /\ "petrinet" \in args.flags
               THEN {"petrinet_raw", "petrinet"} \cup StageFiles ELSE {})
      \cup (IF net /\ "petrinet" \in args.flags /\ research /\ World.issues
               THEN {"petri_net_diagnostics"} ELSE {})
      \cup (IF states THEN {"stategraph"} \cap args.flags ELSE {})
      \cup (IF states /\ research THEN {"summary"} ELSE {})
      \cup (IF found /\ mode \in {"deadlock", "all"} THEN {"deadlock_report"} ELSE {})
      \cup (IF found /\ mode \in {"datarace", "all"} THEN {"datarace_report"} ELSE {})
      \cup (IF found /\ mode = "atomic" THEN {"atomicity_report"} ELSE {})
  BY DEF Due, mode, stop, research
<1>13. stop \notin {"pointsto", "petrinet"} => AllFiles \subseteq Due
  <2> SUFFICES ASSUME stop \notin {"pointsto", "petrinet"} PROVE AllFiles \subseteq Due
    OBVIOUS
  <2>1. /\ analysed <=> graph /\ ThisCrate /\ stop # "mir"
        /\ (explored <=> pointers) /\ (explored <=> net) /\ (explored <=> states)
        /\ (explored => graph) /\ (detected <=> found)
    BY DEF analysed
  <2> HIDE DEF explored, detected, graph, pointers, net, states, found
  <2> QED
    BY <1>11, <1>12, <2>1
<1>14. stop \notin {"mir", "callgraph"} => Due \subseteq AllFiles
  <2> SUFFICES ASSUME stop \notin {"mir", "callgraph"} PROVE Due \subseteq AllFiles
    OBVIOUS
  <2>1. /\ (ThisCrate <=> analysed) /\ (graph <=> explored) /\ (pointers <=> explored)
        /\ (net => explored) /\ (states => explored) /\ (found => detected)
    BY DEF analysed
  <2> HIDE DEF explored, detected, graph, pointers, net, states, found
  <2> QED
    BY <1>11, <1>12, <2>1
<1>15. stop = "pointsto" => AllFiles \cap Reports = {}
  <2> SUFFICES ASSUME stop = "pointsto" PROVE AllFiles \cap Reports = {}
    OBVIOUS
  <2>1. ~detected
    OBVIOUS
  <2> HIDE DEF explored, detected
  <2> QED
    BY <1>11, <2>1 DEF Reports, StageFiles
<1>16. "unsafe" \in options.dumps => "unsafe" \in args.flags
  BY <1>1
<1> QED
  BY <1>13, <1>14, <1>15, <1>16 DEF stop

(* Copies of a raw net that could not be written are not there either. *)
Excused == IF "petrinet_raw" \in World.unwritable THEN StageFiles ELSE {}

(* These files are what has been written. *)
Wrote(files) == written \subseteq files /\ files \ World.unwritable \subseteq written \cup Excused

WroteThen(files) ==
  written' \subseteq files /\ files \ World.unwritable \subseteq written' \cup Excused

Reported == {ReportOf(d) : d \in Detectors \ running}

Constructing == stage \in {"functions", "locks", "channels", "atomics", "unsafe", "translate",
                           "built"}

(* With a command line pn understands: what is known of the options, and   *)
(* what has been written, wherever the analysis is.                        *)
StageInv ==
  /\ stage \in {"run", "callback", "entered", "callgraph", "functions", "locks", "channels",
               "atomics", "unsafe", "translate", "built", "visualize", "summarise", "detect",
               "stop", "returned", "panicked"}
  /\ stage # "run" => Parsed
  /\ stage \in {"entered", "callgraph"} => ~World.buildDir /\ options.stop # "mir"
  /\ stage = "callgraph" => Analysed
  /\ Constructing \/ stage \in {"visualize", "summarise", "detect", "stop"} => Explored
  /\ stage \in {"detect", "stop"} => ~StopsBeforeDetection /\ running \subseteq Detectors
  /\ stage \in {"run", "callback", "entered", "callgraph"} => written = {}
  /\ Constructing => Wrote(MirFile)
  /\ stage = "visualize" => Wrote(MirFile \cup NetFiles)
  /\ stage = "summarise" => Wrote(MirFile \cup NetFiles \cup GraphFiles)
  /\ stage \in {"detect", "stop"} =>
       Wrote(MirFile \cup NetFiles \cup GraphFiles \cup SummaryFile \cup Reported)
  /\ stage = "stop" => running = {}
  /\ stage = "returned" => Wrote(AllFiles)
  /\ stage = "panicked" =>
       /\ written \subseteq AllFiles
       /\ "unsafe" \in options.dumps \/ \E f \in DOMAIN translated : f \notin registered

WrittenInv == ~input.args.unknown => StageInv

LEMMA InitWrittenInv ==
  ASSUME AnalysisInit
  PROVE  WrittenInv
BY DEF AnalysisInit, WrittenInv, StageInv, Constructing

(* What is asked for does not change, nor what is to be written for it.    *)
LEMMA AskedKept ==
  ASSUME input' = input, options' = options
  PROVE  /\ Parsed' <=> Parsed
         /\ Analysed' <=> Analysed
         /\ Explored' <=> Explored
         /\ StopsBeforeDetection' <=> StopsBeforeDetection
         /\ MirFile' = MirFile /\ NetFiles' = NetFiles /\ GraphFiles' = GraphFiles
         /\ SummaryFile' = SummaryFile /\ AllFiles' = AllFiles
         /\ Detectors' = Detectors /\ Excused' = Excused /\ World' = World
<1>1. World' = World /\ (Parsed' <=> Parsed) /\ (StopsBeforeDetection' <=> StopsBeforeDetection)
  BY DEF World, Parsed, StopsBeforeDetection
<1>2. (Analysed' <=> Analysed) /\ (Explored' <=> Explored)
  BY DEF Analysed, Explored, World
<1>3. /\ MirFile' = MirFile /\ NetFiles' = NetFiles /\ GraphFiles' = GraphFiles
      /\ SummaryFile' = SummaryFile /\ Excused' = Excused
  BY <1>1, <1>2 DEF MirFile, NetFiles, GraphFiles, SummaryFile, Excused
<1>4. Detectors' = Detectors
  BY DEF Detectors
<1>5. ReportFiles' = ReportFiles
  BY <1>1, <1>2, <1>4 DEF ReportFiles, ReportOf
<1> QED
  BY <1>1, <1>2, <1>3, <1>4, <1>5 DEF AllFiles

(* Writing the files that come next. *)
LEMMA WriteMore ==
  ASSUME NEW S, Wrote(S), NEW A, NEW B, Write(B), B \subseteq A, A \ B \subseteq Excused
  PROVE  WroteThen(S \cup A)
BY DEF Wrote, WroteThen, Write

(* Steps that write nothing and do not end. *)
LEMMA FrameStageInv ==
  ASSUME StageInv, UNCHANGED <<input, options, written, running>>,
         \/ stage' = stage /\ (stage = "panicked" => UNCHANGED <<translated, registered>>)
         \/ Constructing /\ Constructing'
         \/ stage = "detect" /\ stage' = "stop" /\ running = {}
         \/ stage = "stop" /\ stage' = "returned"
         \/ /\ Constructing /\ stage' = "panicked"
            /\ \E f \in DOMAIN translated' : f \notin registered'
  PROVE  StageInv'
<1>1. /\ Parsed' <=> Parsed
      /\ Analysed' <=> Analysed
      /\ Explored' <=> Explored
      /\ StopsBeforeDetection' <=> StopsBeforeDetection
      /\ MirFile' = MirFile /\ NetFiles' = NetFiles /\ GraphFiles' = GraphFiles
      /\ SummaryFile' = SummaryFile /\ AllFiles' = AllFiles
      /\ Detectors' = Detectors /\ Excused' = Excused /\ World' = World
  BY AskedKept
<1>2. Reported' = Reported
  BY <1>1 DEF Reported, ReportOf
<1>4. CASE stage' = stage /\ (stage = "panicked" => UNCHANGED <<translated, registered>>)
  BY <1>1, <1>2, <1>4 DEF StageInv, Constructing, Wrote
<1>5. CASE Constructing /\ Constructing'
  BY <1>1, <1>2, <1>5 DEF StageInv, Constructing, Wrote
<1>6. CASE stage = "detect" /\ stage' = "stop" /\ running = {}
  BY <1>1, <1>2, <1>6 DEF StageInv, Constructing, Wrote
<1>7. CASE stage = "stop" /\ stage' = "returned"
  <2>1. Reported = ReportFiles
    BY <1>7 DEF StageInv, Constructing, Reported, ReportFiles
  <2> QED
    BY <1>1, <1>7, <2>1 DEF StageInv, Constructing, Wrote, AllFiles
<1>8. CASE /\ Constructing /\ stage' = "panicked"
           /\ \E f \in DOMAIN translated' : f \notin registered'
  BY <1>1, <1>8 DEF StageInv, Constructing, Wrote, AllFiles
<1> QED
  BY <1>4, <1>5, <1>6, <1>7, <1>8

LEMMA StepStageInv ==
  ASSUME StageInv, [AnalysisNext]_allVars, ~input.args.unknown
  PROVE  StageInv'
<1> USE DEF Constructing
<1>1. ASSUME input' = input, options' = options
      PROVE  /\ Parsed' <=> Parsed
             /\ Analysed' <=> Analysed
             /\ Explored' <=> Explored
             /\ StopsBeforeDetection' <=> StopsBeforeDetection
             /\ MirFile' = MirFile /\ NetFiles' = NetFiles /\ GraphFiles' = GraphFiles
             /\ SummaryFile' = SummaryFile /\ AllFiles' = AllFiles
             /\ Detectors' = Detectors /\ Excused' = Excused /\ World' = World
  BY <1>1, AskedKept
<1>2. CASE ParseOptions
  <2>1. /\ stage = "run" /\ stage' = "callback" /\ UNCHANGED <<input, written>>
        /\ options' = ParseFromArgs(input.args, input.config)
    BY <1>2 DEF ParseOptions, EndsWithUsage
  <2> QED
    BY <2>1 DEF StageInv, Parsed
<1>3. CASE AfterAnalysis
  <2>1. /\ stage = "callback" /\ UNCHANGED <<input, options, written>>
        /\ stage' = IF World.buildDir \/ options.stop = "mir" THEN "returned" ELSE "entered"
    BY <1>3 DEF AfterAnalysis, constructionVars
  <2>2. stage' = "returned" => AllFiles = {}
    BY <2>1 DEF AllFiles, MirFile, NetFiles, GraphFiles, SummaryFile, ReportFiles, Explored, Analysed
  <2> QED
    BY <1>1, <2>1, <2>2 DEF StageInv, Wrote
<1>4. CASE Enter
  <2>1. /\ stage = "entered" /\ UNCHANGED <<input, options, written>>
        /\ stage' = IF World.codegen /\ TargetsCurrentCrate(options, World.crate)
                      THEN "callgraph" ELSE "returned"
    BY <1>4 DEF Enter, constructionVars
  <2>2. stage' = "returned" => AllFiles = {}
    BY <2>1 DEF AllFiles, MirFile, NetFiles, GraphFiles, SummaryFile, ReportFiles, Explored, Analysed
  <2>3. stage' = "callgraph" => Analysed
    BY <2>1 DEF StageInv, Analysed
  <2> QED
    BY <1>1, <2>1, <2>2, <2>3 DEF StageInv, Wrote
<1>5. CASE EndCallGraph
  <2>1. /\ stage = "callgraph" /\ UNCHANGED <<input, options>>
        /\ Write({"mir"} \cap options.dumps)
        /\ stage' = IF options.stop = "callgraph" THEN "returned" ELSE "functions"
    BY <1>5 DEF EndCallGraph, constructionVars
  <2>2. Analysed /\ written = {}
    BY <2>1 DEF StageInv
  <2>3. Wrote({}) /\ MirFile = {"mir"} \cap options.dumps
    BY <2>2 DEF Wrote, MirFile
  <2>4. WroteThen({} \cup MirFile)
    BY <2>1, <2>3, WriteMore
  <2>5. stage' = "returned" => AllFiles = MirFile
    BY <2>1 DEF AllFiles, NetFiles, GraphFiles, SummaryFile, ReportFiles, Explored
  <2>6. stage' = "functions" => Explored
    BY <2>1, <2>2 DEF Explored
  <2> QED
    BY <1>1, <2>1, <2>4, <2>5, <2>6 DEF StageInv, Wrote, WroteThen
<1>6. CASE ReduceAndDump
  <2>1. PICK reduced \in BOOLEAN :
          LET dumped == {"petrinet_raw"} \cup StagesWritten(reduced) \cup {"petrinet"}
              diagnosed == IF options.research /\ World.issues
                             THEN {"petri_net_diagnostics"} ELSE {}
          IN  Write(IF "petrinet" \in options.dumps THEN dumped \cup diagnosed ELSE {})
    BY <1>6 DEF ReduceAndDump
  <2> DEFINE B == IF "petrinet" \in options.dumps
                    THEN {"petrinet_raw"} \cup StagesWritten(reduced) \cup {"petrinet"}
                         \cup (IF options.research /\ World.issues
                                 THEN {"petri_net_diagnostics"} ELSE {})
                  ELSE {}
  <2>2. stage = "built" /\ stage' = "visualize" /\ UNCHANGED <<input, options>> /\ Write(B)
    BY <1>6, <2>1 DEF ReduceAndDump, constructionVars
  <2>3. Explored /\ Wrote(MirFile)
    BY <2>2 DEF StageInv
  <2>4. B \subseteq NetFiles /\ NetFiles \ B \subseteq Excused
    BY <2>3 DEF NetFiles, StagesWritten, Excused
  <2> HIDE DEF B
  <2>5. WroteThen(MirFile \cup NetFiles)
    BY <2>2, <2>3, <2>4, WriteMore
  <2> QED
    BY <1>1, <2>2, <2>3, <2>5 DEF StageInv, Wrote, WroteThen
<1>7. CASE HandleVisualizations
  <2> DEFINE graphs == options.dumps \cap {"callgraph", "stategraph"}
             report == IF "pointsto" \in options.dumps \/ options.detector = "pointsto"
                         THEN {"points_to_report"} ELSE {}
             S == MirFile \cup NetFiles
  <2>1. /\ stage = "visualize" /\ UNCHANGED <<input, options>>
        /\ \/ "unsafe" \in options.dumps /\ stage' = "panicked" /\ Write(graphs)
           \/ stage' = "summarise" /\ Write(graphs \cup report)
    BY <1>7 DEF HandleVisualizations, constructionVars
  <2>2. Explored /\ Wrote(S)
    BY <2>1 DEF StageInv
  <2>3. GraphFiles = graphs \cup report
    BY <2>2 DEF GraphFiles
  <2> HIDE DEF graphs, report
  <2>4. CASE stage' = "summarise" /\ Write(graphs \cup report)
    <3>1. WroteThen(S \cup GraphFiles)
      <4> HIDE DEF S
      <4> QED
        BY <2>1, <2>2, <2>3, <2>4, WriteMore
    <3> QED
      BY <1>1, <2>1, <2>2, <2>4, <3>1 DEF StageInv, Wrote, WroteThen
  <2>5. CASE "unsafe" \in options.dumps /\ stage' = "panicked" /\ Write(graphs)
    <3>1. written' \subseteq AllFiles
      BY <2>2, <2>3, <2>5 DEF Wrote, Write, AllFiles
    <3> QED
      BY <1>1, <2>1, <2>5, <3>1 DEF StageInv
  <2> QED
    BY <2>1, <2>4, <2>5
<1>8. CASE WriteSummary
  <2> DEFINE B == IF options.research THEN {"summary"} ELSE {}
             S == MirFile \cup NetFiles \cup GraphFiles
  <2>1. /\ stage = "summarise" /\ UNCHANGED <<input, options>> /\ Write(B)
        /\ IF StopsBeforeDetection THEN stage' = "returned" ELSE stage' = "detect" /\ running' = Detectors
    BY <1>8 DEF WriteSummary, constructionVars
  <2>2. Explored /\ Wrote(S)
    BY <2>1 DEF StageInv
  <2>3. SummaryFile = B
    BY <2>2 DEF SummaryFile
  <2> HIDE DEF B, S
  <2>4. WroteThen(S \cup SummaryFile)
    BY <2>1, <2>2, <2>3, WriteMore
  <2>5. CASE stage' = "returned" /\ StopsBeforeDetection
    <3>1. AllFiles = S \cup SummaryFile
      BY <2>5 DEF AllFiles, ReportFiles, S
    <3> QED
      BY <1>1, <2>1, <2>4, <2>5, <3>1 DEF StageInv, Wrote, WroteThen
  <2>6. CASE stage' = "detect" /\ running' = Detectors /\ ~StopsBeforeDetection
    <3>1. Reported' = {}
      BY <1>1, <2>1, <2>6 DEF Reported
    <3> QED
      BY <1>1, <2>1, <2>2, <2>4, <2>6, <3>1 DEF StageInv, Wrote, WroteThen, S
  <2> QED
    BY <2>1, <2>5, <2>6
<1>9. ASSUME NEW d \in running, RunDetector(d) PROVE StageInv'
  <2> DEFINE S == MirFile \cup NetFiles \cup GraphFiles \cup SummaryFile \cup Reported
  <2>1. /\ stage = "detect" /\ stage' = "detect" /\ UNCHANGED <<input, options>>
        /\ running' = running \ {d} /\ Write({ReportOf(d)})
    BY <1>9 DEF RunDetector, constructionVars
  <2>2. Wrote(S) /\ running \subseteq Detectors /\ running' \subseteq Detectors /\ d \in Detectors
    BY <1>9, <2>1 DEF StageInv
  <2>3. Reported' = Reported \cup {ReportOf(d)}
    BY <1>1, <2>1, <2>2 DEF Reported, ReportOf
  <2> HIDE DEF S
  <2>4. WroteThen(S \cup {ReportOf(d)})
    BY <2>1, <2>2, WriteMore
  <2> QED
    BY <1>1, <2>1, <2>2, <2>3, <2>4 DEF StageInv, Wrote, WroteThen, S
<1>10. CASE EndDetection \/ StopWatcher \/ Sampler \/ UNCHANGED allVars
  <2>1. /\ UNCHANGED <<input, options, written, running>>
        /\ \/ stage' = stage /\ (stage = "panicked" => UNCHANGED <<translated, registered>>)
           \/ stage = "detect" /\ stage' = "stop" /\ running = {}
           \/ stage = "stop" /\ stage' = "returned"
    BY <1>10 DEF EndDetection, StopWatcher, Sampler, SamplerLock, SamplerUnlock, SamplerWakes,
                 allVars, constructionVars, functionVars, analysisVars
  <2> QED
    BY <2>1, FrameStageInv
<1>11. CASE AnalyzeCallGraph
  <2>1. /\ UNCHANGED <<input, options, written, running>>
        /\ stage' = stage /\ (stage = "panicked" => UNCHANGED <<translated, registered>>)
    BY <1>11 DEF AnalyzeCallGraph, Analyze, Give, Take, EnterSite, EndBody, analysisVars,
                 functionVars
  <2> QED
    BY <2>1, FrameStageInv
<1>12. CASE ConstructNet
  <2>1. UNCHANGED <<input, options, written, running>> /\ Constructing
    BY <1>12 DEF ConstructNet, Construct, ConstructFunctions, ConstructLocks,
       ConstructChannelResources, ConstructAtomicResources, ConstructUnsafeBlocks,
       TranslateFunction, EndTranslation
  <2>2. \/ Constructing'
        \/ stage' = "panicked" /\ \E f \in DOMAIN translated' : f \notin registered'
    BY <1>12 DEF ConstructNet, Construct, ConstructFunctions, ConstructLocks,
       ConstructChannelResources, ConstructAtomicResources, ConstructUnsafeBlocks,
       TranslateFunction, EndTranslation
  <2> QED
    BY <2>1, <2>2, FrameStageInv
<1> QED
  BY <1>2, <1>3, <1>4, <1>5, <1>6, <1>7, <1>8, <1>9, <1>10, <1>11, <1>12
     DEF AnalysisNext, Main, allVars

LEMMA WhatIsWritten ==
  ASSUME input \in Inputs, WrittenInv
  PROVE  ReportsAsAsked
<1> SUFFICES ASSUME ~input.args.unknown
             PROVE  /\ StopAsked \notin {"pointsto", "petrinet"} => written \subseteq Due
                    /\ StopAsked = "pointsto" => written \cap Reports = {}
                    /\ stage = "returned" /\ StopAsked \notin {"mir", "callgraph"} =>
                         Due \ World.unwritable \subseteq written \cup Excused
                    /\ stage = "panicked" =>
                         \/ "unsafe" \in input.args.flags
                         \/ \E f \in DOMAIN translated : f \notin registered
                    /\ stage # "exited"
  BY DEF ReportsAsAsked, Excused
<1>1. StageInv
  BY DEF WrittenInv
<1>2. CASE stage = "run"
  BY <1>1, <1>2 DEF StageInv
<1>3. CASE stage # "run"
  <2>1. /\ StopAsked \notin {"pointsto", "petrinet"} => AllFiles \subseteq Due
        /\ StopAsked \notin {"mir", "callgraph"} => Due \subseteq AllFiles
        /\ StopAsked = "pointsto" => AllFiles \cap Reports = {}
        /\ "unsafe" \in options.dumps => "unsafe" \in input.args.flags
    BY <1>1, <1>3, DueByParts DEF StageInv
  <2>2. Constructing => written \subseteq AllFiles
    BY <1>1 DEF StageInv, Wrote, AllFiles
  <2>3. stage \in {"visualize", "summarise", "returned", "panicked"} => written \subseteq AllFiles
    BY <1>1 DEF StageInv, Wrote, AllFiles
  <2>4. stage \in {"detect", "stop"} => written \subseteq AllFiles
    <3> HAVE stage \in {"detect", "stop"}
    <3>1. Reported \subseteq ReportFiles
      BY <1>1 DEF StageInv, Reported, ReportFiles
    <3> QED
      BY <1>1, <3>1 DEF StageInv, Wrote, AllFiles
  <2>5. written \subseteq AllFiles
    BY <1>1, <1>3, <2>2, <2>3, <2>4 DEF StageInv, Constructing
  <2>6. stage = "returned" => AllFiles \ World.unwritable \subseteq written \cup Excused
    BY <1>1 DEF StageInv, Wrote
  <2>7. /\ stage = "panicked" =>
             "unsafe" \in options.dumps \/ \E f \in DOMAIN translated : f \notin registered
        /\ stage # "exited"
    BY <1>1 DEF StageInv
  <2> QED
    BY <2>1, <2>5, <2>6, <2>7
<1> QED
  BY <1>2, <1>3

(* With a command line pn understands, nothing is written but what the      *)
(* options ask for, unless a stop after pointsto or petrinet is asked for   *)
(* (of which the first runs no detector), and a run that returns has written*)
(* all of it, unless that is a stop after mir or callgraph: whatever the    *)
(* crate and the files that cannot be written, and whichever detector is    *)
(* first.                                                                   *)
THEOREM ReportsWritten == AnalysisSpec => []ReportsAsAsked
<1> DEFINE Inv == input \in Inputs /\ WrittenInv
<1>1. AnalysisInit => Inv
  BY InitWrittenInv DEF AnalysisInit
<1>2. Inv /\ [AnalysisNext]_allVars => Inv'
  <2> SUFFICES ASSUME Inv, [AnalysisNext]_allVars PROVE Inv'
    OBVIOUS
  <2>1. input' = input
    BY StepOfGraph DEF Next, Analyze, Give, Take, EnterSite, EndBody
  <2> QED
    BY <2>1, StepStageInv DEF WrittenInv
<1>3. Inv => ReportsAsAsked
  BY WhatIsWritten
<1> QED
  BY <1>1, <1>2, <1>3, PTL DEF AnalysisSpec
-----------------------------------------------------------------------------
(* The groups of guards: NetConstruction takes its steps from LockGroups,  *)
(* and so do the proofs about them.                                        *)
LP == INSTANCE LockGroups_proofs WITH
  Crates <- {}, Base <- {}, ProjElem <- {"f0", "f1"}, DepthCap <- 8, MaxPathLen <- 8

LEMMA SameCardinality == \A S : LP!Cardinality(S) = Locks!Cardinality(S)
BY DEF LP!Cardinality, Locks!Cardinality

LEMMA SameFiniteness == \A S : LP!IsFiniteSet(S) <=> IsFiniteSet(S)
BY DEF LP!IsFiniteSet, IsFiniteSet

LEMMA SameLocks == \A g, h : LP!SameLock(g, h) <=> Locks!SameLock(g, h)
<1>1. \A l : LP!StoredInto(l) = Locks!StoredInto(l) /\ LP!Pts(l) = Locks!Pts(l)
  BY SameCardinality DEF LP!StoredInto, Locks!StoredInto, LP!Pts, Locks!Pts, LP!At, Locks!At
<1>2. \A o : LP!Denoted(o) = Locks!Denoted(o)
  <2>1. /\ \A l, w : LP!ProjectLoc(l, w) = Locks!ProjectLoc(l, w)
        /\ \A f, x : LP!Var(f, x) = Locks!Var(f, x)
        /\ LP!NoField = Locks!NoField
    BY DEF LP!ProjectLoc, Locks!ProjectLoc, LP!Var, Locks!Var, LP!NoField, Locks!NoField
  <2> TAKE o
  <2>2. CASE o[3] = Locks!NoField
    BY <1>1, <2>1, <2>2 DEF LP!Denoted, Locks!Denoted
  <2>3. CASE o[3] # Locks!NoField
    BY <1>1, <2>1, <2>3 DEF LP!Denoted, Locks!Denoted
  <2> QED
    BY <2>2, <2>3
<1> QED
  BY <1>2 DEF LP!SameLock, Locks!SameLock, LP!MayAlias, Locks!MayAlias, LP!NoField, Locks!NoField,
              LP!SameParameter, Locks!SameParameter, LP!ObjectOf, Locks!ObjectOf

LEMMA SameFind == \A g : LP!Find(g) = Locks!Find(g)
BY SameCardinality DEF LP!Find, Locks!Find

LEMMA SameStart == Locks!StartUniting => LP!StartUniting
<1>1. \A S : LP!SetToSeqs(S) = Locks!SetToSeqs(S)
  BY SameCardinality DEF LP!SetToSeqs, Locks!SetToSeqs
<1> QED
  BY <1>1 DEF LP!StartUniting, Locks!StartUniting, LP!collectVars, Locks!collectVars

LEMMA SameCompare == Locks!ComparePair => LP!ComparePair
BY SameLocks, SameFind
   DEF LP!ComparePair, Locks!ComparePair, LP!Unite, Locks!Unite, LP!collectVars, Locks!collectVars

LEMMA SameCreate == Locks!CreatePlaces => LP!CreatePlaces
<1>1. \A S : LP!Min(S) = Locks!Min(S)
  BY DEF LP!Min, Locks!Min
<1> QED
  BY <1>1, SameFind
     DEF LP!CreatePlaces, Locks!CreatePlaces, LP!collectVars, Locks!collectVars

LEMMA SameGroups == LP!GroupsAreComponents <=> GroupsAreComponents
<1>1. \A g : LP!Component(g) = Locks!Component(g)
  BY SameCardinality, SameLocks DEF LP!Component, Locks!Component
<1> QED
  BY <1>1 DEF LP!GroupsAreComponents, Locks!GroupsAreComponents, GroupsAreComponents,
              LP!SamePlace, Locks!SamePlace

LEMMA SameKinds == LP!KindsAgree <=> KindsAgree
BY DEF LP!KindsAgree, Locks!KindsAgree, KindsAgree

(* A step of the lock construction. *)
LEMMA StepLocks ==
  ASSUME LP!IInv, Locks!Step
  PROVE  LP!IInv'
<1>1. CASE Locks!Collect
  <2>1. phase' = phase /\ pair' = pair /\ phase = "collect"
    BY <1>1 DEF Locks!Collect, Locks!Use, Locks!Ref, Locks!Acquire, Locks!Extract, Locks!Wait,
                Locks!Ignore, Locks!Reading
  <2>2. guards' = guards \/ \E x, v : guards' = Locks!With(guards, x, v)
    BY <1>1 DEF Locks!Collect, Locks!Use, Locks!Ref, Locks!Acquire, Locks!Extract, Locks!Wait,
                Locks!Ignore
  <2>3. IsFiniteSet(DOMAIN guards)
    BY SameFiniteness DEF LP!IInv, LP!G
  <2>4. ASSUME NEW x PROVE IsFiniteSet(DOMAIN guards \cup {x})
    BY ONLY <2>3, FS_AddElement, Zenon
  <2>5. \A x, v : DOMAIN Locks!With(guards, x, v) = DOMAIN guards \cup {x}
    BY DEF Locks!With
  <2>6. IsFiniteSet(DOMAIN guards')
    <3>1. CASE guards' = guards
      BY ONLY <3>1, <2>3
    <3>2. CASE \E x, v : guards' = Locks!With(guards, x, v)
      <4>1. PICK x, v : guards' = Locks!With(guards, x, v)
        BY <3>2
      <4>2. DOMAIN guards' = DOMAIN guards \cup {x}
        BY <4>1, <2>5
      <4> QED
        BY <4>2, <2>4
    <3> QED
      BY ONLY <2>2, <3>1, <3>2
  <2>7. LP!IsFiniteSet(DOMAIN guards')
    BY <2>6, SameFiniteness
  <2> QED
    BY <2>1, <2>7 DEF LP!IInv, LP!G
<1>2. CASE Locks!EndBody
  BY <1>2 DEF Locks!EndBody, LP!IInv, LP!G
<1>3. CASE Locks!StartUniting
  BY <1>3, SameStart, LP!StartUnitingIInv
<1>4. CASE Locks!ComparePair
  BY <1>4, SameCompare, LP!ComparePairIInv
<1>5. CASE Locks!CreatePlaces
  BY <1>5, SameCreate, LP!CreatePlacesIInv
<1> QED
  BY <1>1, <1>2, <1>3, <1>4, <1>5 DEF Locks!Step

(* Before the locks are collected. *)
BeforeLocks == stage \in {"run", "callback", "entered", "callgraph", "functions"}

GroupInv == LP!IInv /\ (BeforeLocks => phase = "collect")

LEMMA InitGroupInv ==
  ASSUME AnalysisInit
  PROVE  GroupInv
<1>1. /\ input \in Inputs /\ guards = input.locks.guard
      /\ phase = "collect" /\ pair = <<1, 2>>
  BY DEF AnalysisInit, ConstructionInit
<1>2. LP!IsFiniteSet(DOMAIN guards)
  BY <1>1, GuardsAssumption, SameFiniteness
<1> QED
  BY <1>1, <1>2 DEF GroupInv, LP!IInv, LP!G

(* What LP!IInv says depends on these. *)
LEMMA FrameLocks ==
  ASSUME LP!IInv, UNCHANGED lockVars
  PROVE  LP!IInv'
<1>1. /\ phase' = phase /\ crate' = crate /\ guards' = guards /\ objects' = objects
      /\ order' = order /\ pair' = pair /\ parent' = parent /\ place' = place
  BY DEF lockVars
<1>2. LP!G' = LP!G
  BY <1>1 DEF LP!G
<1>3. \A a, b : LP!SameLock(a, b)' <=> LP!SameLock(a, b)
  BY <1>1, LP!SameLockKept
<1>4. /\ LP!Ordered' <=> LP!Ordered
      /\ LP!PairInOrder' <=> LP!PairInOrder
      /\ LP!Trees' <=> LP!Trees
      /\ LP!NothingElseJoined' <=> LP!NothingElseJoined
      /\ LP!ComparedAreJoined' <=> LP!ComparedAreJoined
      /\ LP!KindsTaken' <=> LP!KindsTaken
  BY <1>1, <1>2, <1>3 DEF LP!Ordered, LP!PairInOrder, LP!Trees, LP!NothingElseJoined,
     LP!Separate, LP!ComparedAreJoined, LP!Compared, LP!KindsTaken, LP!KindOf
<1> QED
  BY <1>1, <1>2, <1>4 DEF LP!IInv

LEMMA StepGroupInv ==
  ASSUME GroupInv, [AnalysisNext]_allVars
  PROVE  GroupInv'
<1>1. CASE ConstructFunctions
  <2>1. phase = "collect" /\ UNCHANGED <<phase, guards, pair>> /\ ~BeforeLocks'
    BY <1>1 DEF ConstructFunctions, GroupInv, BeforeLocks
  <2> QED
    BY <2>1 DEF GroupInv, LP!IInv, LP!G
<1>2. CASE ConstructLocks
  <2>1. ~BeforeLocks'
    BY <1>2 DEF ConstructLocks, BeforeLocks
  <2>2. Locks!Step \/ UNCHANGED lockVars
    BY <1>2 DEF ConstructLocks
  <2> QED
    BY <2>1, <2>2, StepLocks, FrameLocks DEF GroupInv
<1>3. CASE \/ ParseOptions \/ AfterAnalysis \/ Enter \/ AnalyzeCallGraph \/ EndCallGraph
           \/ ReduceAndDump \/ HandleVisualizations \/ WriteSummary
           \/ (\E d \in running : RunDetector(d)) \/ EndDetection \/ StopWatcher \/ Sampler
           \/ UNCHANGED allVars
  <2>1. UNCHANGED lockVars /\ (BeforeLocks' => BeforeLocks)
    BY <1>3 DEF ParseOptions, AfterAnalysis, Enter, AnalyzeCallGraph, EndCallGraph, ReduceAndDump,
       HandleVisualizations, WriteSummary, RunDetector, EndDetection, StopWatcher, Sampler,
       SamplerLock, SamplerUnlock, SamplerWakes, allVars, constructionVars, analysisVars, BeforeLocks
  <2>2. phase' = phase
    BY <2>1 DEF lockVars
  <2> QED
    BY <2>1, <2>2, FrameLocks DEF GroupInv
<1>4. CASE \/ ConstructChannelResources \/ ConstructAtomicResources \/ ConstructUnsafeBlocks
           \/ TranslateFunction \/ EndTranslation
  <2>1. UNCHANGED lockVars /\ ~BeforeLocks'
    BY <1>4 DEF ConstructChannelResources, ConstructAtomicResources, ConstructUnsafeBlocks,
       TranslateFunction, EndTranslation, BeforeLocks
  <2> QED
    BY <2>1, FrameLocks DEF GroupInv
<1> QED
  BY <1>1, <1>2, <1>3, <1>4 DEF AnalysisNext, Main, ConstructNet, Construct, allVars

(* Within the analysis too two guards get one place exactly if a chain of  *)
(* may-alias connects them: nothing before the locks, between their steps or*)
(* after them disturbs the grouping.                                       *)
THEOREM AnalysisGroups == AnalysisSpec => []GroupsAreComponents
<1>1. AnalysisInit => GroupInv
  BY InitGroupInv
<1>2. GroupInv /\ [AnalysisNext]_allVars => GroupInv'
  BY StepGroupInv
<1>3. GroupInv => GroupsAreComponents
  BY SameGroups, LP!DoneIsGrouped DEF GroupInv
<1> QED
  BY <1>1, <1>2, <1>3, PTL DEF AnalysisSpec

(* May-alias takes no mutex and no RwLock of the crate for one lock.       *)
KindsSeparate ==
  \A g, h \in DOMAIN guards :
    Locks!SameLock(g, h) => (guards[g] = "mutex" <=> guards[h] = "mutex")

(* Within the analysis too a guard gets a place of the other kind only if  *)
(* may-alias itself takes a mutex and an RwLock for one lock: neither      *)
(* chains of guards nor the order of the hash map mix the kinds.           *)
THEOREM AnalysisKinds ==
  AnalysisSpec => [](phase = "done" => (KindsAgree <=> KindsSeparate))
<1>1. AnalysisInit => GroupInv
  BY InitGroupInv
<1>2. GroupInv /\ [AnalysisNext]_allVars => GroupInv'
  BY StepGroupInv
<1>3. GroupInv => (phase = "done" => (KindsAgree <=> KindsSeparate))
  <2>1. LP!KindsSeparate <=> KindsSeparate
    BY SameLocks DEF LP!KindsSeparate, KindsSeparate, LP!G
  <2> QED
    BY <2>1, SameKinds, LP!DoneHasKinds DEF GroupInv
<1> QED
  BY <1>1, <1>2, <1>3, PTL DEF AnalysisSpec
-----------------------------------------------------------------------------
(* What two locals may refer to in common. *)
LEMMA MayAliasFacts ==
  /\ \A a : MayAlias(a, a)
  /\ \A a, b : MayAlias(a, b) => MayAlias(b, a)
<1>1. \A a : MayAlias(a, a)
  BY DEF MayAlias
<1>2. \A a, b : MayAlias(a, b) => MayAlias(b, a)
  BY DEF MayAlias
<1> QED
  BY <1>1, <1>2

(* Atomics that may be the same meet; if may-alias is an equivalence, each *)
(* has one place, which is known by an atomic that it may be.              *)
AtomicsInv ==
  /\ \A a, b \in DOMAIN atomicPlaces : MayAlias(a, b) => atomicPlaces[a] \cap atomicPlaces[b] # {}
  /\ Equivalence(DOMAIN atomicPlaces) =>
       \A a \in DOMAIN atomicPlaces :
         \E r \in DOMAIN atomicPlaces : atomicPlaces[a] = {r} /\ MayAlias(a, r)

LEMMA PutAtomic ==
  ASSUME AtomicsInv, input' = input, NEW id, atomicPlaces' = Put(atomicPlaces, id, PlacesFor(id))
  PROVE  AtomicsInv'
<1> DEFINE D == DOMAIN atomicPlaces
           X == {x \in D : MayAlias(id, x)}
           near == UNION {atomicPlaces[e] : e \in X}
           p == PlacesFor(id)
<1>1. p = IF near = {} THEN {id} ELSE near
  BY DEF PlacesFor
<1>2. DOMAIN atomicPlaces' = {id} \cup D /\ atomicPlaces'[id] = p
      /\ \A x \in D : x # id => atomicPlaces'[x] = atomicPlaces[x]
  BY DEF Put
<1>3. \A a, b : MayAlias(a, b)' <=> MayAlias(a, b)
  BY DEF MayAlias, Memory
<1>4. \A x \in D : atomicPlaces[x] # {}
  BY MayAliasFacts DEF AtomicsInv
<1>5. \A x \in X : atomicPlaces[x] \subseteq p
  BY <1>1
<1>6. p # {}
  BY <1>1
<1> HIDE DEF p
<1>7. ASSUME NEW a \in {id} \cup D, NEW b \in {id} \cup D, MayAlias(a, b)
      PROVE  atomicPlaces'[a] \cap atomicPlaces'[b] # {}
  <2>1. CASE a = id /\ b = id
    BY <1>2, <1>6, <2>1
  <2>2. CASE a = id /\ b # id
    BY <1>2, <1>4, <1>5, <1>7, <2>2
  <2>3. CASE a # id /\ b = id
    BY <1>2, <1>4, <1>5, <1>7, <2>3, MayAliasFacts
  <2>4. CASE a # id /\ b # id
    BY <1>2, <1>7, <2>4 DEF AtomicsInv
  <2> QED
    BY <2>1, <2>2, <2>3, <2>4
<1>8. ASSUME Equivalence({id} \cup D), NEW a \in {id} \cup D
      PROVE  \E r \in {id} \cup D : atomicPlaces'[a] = {r} /\ MayAlias(a, r)
  <2>1. Equivalence(D)
    BY <1>8 DEF Equivalence
  <2>2. \A x \in D : \E r \in D : atomicPlaces[x] = {r} /\ MayAlias(x, r)
    BY <2>1 DEF AtomicsInv
  <2>3. CASE a # id
    BY <1>2, <2>2, <2>3
  <2>4. CASE a = id /\ X = {}
    BY <1>1, <1>2, <2>4, MayAliasFacts
  <2>5. CASE a = id /\ X # {}
    <3>1. PICK x \in X : TRUE
      BY <2>5
    <3>2. PICK r \in D : atomicPlaces[x] = {r} /\ MayAlias(x, r)
      BY <2>2, <3>1
    <3>3. ASSUME NEW y \in X PROVE atomicPlaces[y] = {r}
      <4>1. MayAlias(x, y)
        BY <1>8, <3>1, MayAliasFacts DEF Equivalence
      <4>2. atomicPlaces[x] \cap atomicPlaces[y] # {}
        BY <3>1, <4>1 DEF AtomicsInv
      <4> QED
        BY <2>2, <3>2, <4>2
    <3>4. near = {r}
      BY <3>1, <3>3
    <3>5. MayAlias(id, r)
      BY <1>8, <3>1, <3>2 DEF Equivalence
    <3> QED
      BY <1>1, <1>2, <2>5, <3>2, <3>4, <3>5
  <2> QED
    BY <2>3, <2>4, <2>5
<1>9. Equivalence(DOMAIN atomicPlaces)' => Equivalence({id} \cup D)
  BY <1>2, <1>3 DEF Equivalence
<1> QED
  BY <1>2, <1>3, <1>7, <1>8, <1>9 DEF AtomicsInv

LEMMA AtomicsMeet ==
  ASSUME AtomicsInv
  PROVE  AtomicsShare
<1> SUFFICES ASSUME NEW a \in DOMAIN atomicPlaces, NEW b \in DOMAIN atomicPlaces
             PROVE  /\ MayAlias(a, b) => atomicPlaces[a] \cap atomicPlaces[b] # {}
                    /\ Equivalence(DOMAIN atomicPlaces) =>
                         /\ Cardinality(atomicPlaces[a]) = 1
                         /\ atomicPlaces[a] = atomicPlaces[b] => MayAlias(a, b)
  BY DEF AtomicsShare
<1>1. MayAlias(a, b) => atomicPlaces[a] \cap atomicPlaces[b] # {}
  BY DEF AtomicsInv
<1>2. ASSUME Equivalence(DOMAIN atomicPlaces)
      PROVE  /\ Cardinality(atomicPlaces[a]) = 1
             /\ atomicPlaces[a] = atomicPlaces[b] => MayAlias(a, b)
  <2>1. PICK r \in DOMAIN atomicPlaces : atomicPlaces[a] = {r} /\ MayAlias(a, r)
    BY <1>2 DEF AtomicsInv
  <2>2. PICK t \in DOMAIN atomicPlaces : atomicPlaces[b] = {t} /\ MayAlias(b, t)
    BY <1>2 DEF AtomicsInv
  <2>3. Cardinality({r}) = 1
    BY FS_Singleton
  <2> QED
    BY <1>2, <2>1, <2>2, <2>3, MayAliasFacts DEF Equivalence
<1> QED
  BY <1>1, <1>2
-----------------------------------------------------------------------------
(* The channels: the places construct_channel_resources gives.             *)
PairedEnds == {e \in ChannelEnds : ArePair(EndsOn(e.line))}
LinePlaces == [a \in {e.id : e \in PairedEnds} |-> (CHOOSE e \in PairedEnds : e.id = a).line]

LEMMA EndsAreFinite ==
  ASSUME IInv
  PROVE  IsFiniteSet(ChannelEnds)
<1> DEFINE End(i, d) == [id |-> <<i, d.local, NoIndex>>, ty |-> d.ty, line |-> d.line]
           types == {"Sender", "SyncSender", "Receiver"}
           F == [i \in WithBody |-> {End(i, d) : d \in LocalsOf(i, types)}]
<1>1. IsFiniteSet(WithBody) /\ WithBody \subseteq Instance
  <2>1. WithBody \in SUBSET Range(nodes)
    BY DEF WithBody
  <2> QED
    BY <2>1, NodesAreFinite, FS_Subset
<1>2. ASSUME NEW i \in WithBody PROVE IsFiniteSet(F[i])
  <2> DEFINE L == LocalsOf(i, types)
             H == [d \in L |-> End(i, d)]
  <2>1. input \in Inputs
    BY DEF IInv, TypeOK
  <2>2. IsFiniteSet(Range(About(i).locals))
    BY <1>1, <2>1, BodiesAssumption DEF About
  <2>3. IsFiniteSet(L)
    <3>1. L \in SUBSET Range(About(i).locals)
      BY DEF LocalsOf
    <3> QED
      BY <2>2, <3>1, FS_Subset
  <2>4. F[i] = {H[d] : d \in L}
    BY DEF F
  <2> HIDE DEF L, H, F
  <2>5. IsFiniteSet({H[d] : d \in L})
    BY <2>3, FiniteImage
  <2> QED
    BY <2>4, <2>5
<1>3. ChannelEnds = UNION {F[i] : i \in WithBody}
  BY DEF ChannelEnds
<1> HIDE DEF F
<1>4. IsFiniteSet({F[i] : i \in WithBody})
  BY <1>1, FiniteImage
<1>5. IsFiniteSet(UNION {F[i] : i \in WithBody})
  <2> DEFINE T == {F[i] : i \in WithBody}
  <2>1. \A x \in T : IsFiniteSet(x)
    BY <1>2
  <2> HIDE DEF T
  <2>2. IsFiniteSet(UNION T)
    BY <1>4, <2>1, FS_UNION DEF T
  <2> QED
    BY <2>2 DEF T
<1> QED
  BY <1>3, <1>5

(* A finite set of two elements has no third. *)
LEMMA TwoElements ==
  ASSUME NEW S, IsFiniteSet(S), NEW a \in S, NEW b \in S, a # b
  PROVE  Cardinality(S) = 2 <=> S = {a, b}
<1>1. IsFiniteSet({a, b}) /\ Cardinality({a, b}) = 2
  <2>1. IsFiniteSet({a}) /\ Cardinality({a}) = 1
    BY FS_Singleton
  <2>2. {a, b} = {a} \cup {b} /\ b \notin {a}
    OBVIOUS
  <2> QED
    BY <2>1, <2>2, FS_AddElement
<1>2. ASSUME Cardinality(S) = 2 PROVE S = {a, b}
  <2>1. {a, b} \in SUBSET S
    OBVIOUS
  <2> QED
    BY <1>1, <1>2, <2>1, FS_Subset
<1> QED
  BY <1>1, <1>2

(* The ends that are counted two, one of each kind, are all their line binds.*)
LEMMA CountedIsBound ==
  ASSUME IInv, NEW line
  PROVE  ArePair(EndsOn(line)) <=> BindsPair(line)
<1> DEFINE ends == EndsOn(line)
<1>1. IsFiniteSet(ends) /\ ends \subseteq ChannelEnds
  <2>1. ends \in SUBSET ChannelEnds
    BY DEF EndsOn
  <2> QED
    BY <2>1, EndsAreFinite, FS_Subset
<1> HIDE DEF ends
<1>2. ASSUME NEW s \in ends, NEW r \in ends, s.ty # "Receiver", r.ty = "Receiver"
      PROVE  Cardinality(ends) = 2 <=> ends = {s, r}
  <2>1. s # r
    BY <1>2
  <2> QED
    BY <1>1, <2>1, TwoElements
<1>3. ASSUME ArePair(ends) PROVE BindsPair(line)
  <2>1. PICK r \in ends : r.ty = "Receiver"
    BY <1>3 DEF ArePair
  <2>2. PICK s \in ends : s.ty # "Receiver"
    BY <1>3 DEF ArePair
  <2>3. ends = {s, r}
    BY <1>2, <1>3, <2>1, <2>2 DEF ArePair
  <2> QED
    BY <1>1, <2>1, <2>2, <2>3 DEF BindsPair, ends
<1>4. ASSUME BindsPair(line) PROVE ArePair(ends)
  <2>1. PICK s \in ChannelEnds : \E r \in ChannelEnds :
          s.ty # "Receiver" /\ r.ty = "Receiver" /\ ends = {s, r}
    BY <1>4 DEF BindsPair, ends
  <2>2. PICK r \in ChannelEnds : s.ty # "Receiver" /\ r.ty = "Receiver" /\ ends = {s, r}
    BY <2>1
  <2>3. s \in ends /\ r \in ends
    BY <2>2
  <2>4. Cardinality(ends) = 2
    BY <1>2, <2>2, <2>3
  <2> QED
    BY <2>2, <2>3, <2>4 DEF ArePair
<1> QED
  BY <1>3, <1>4 DEF ends

LEMMA LinesPair ==
  ASSUME IInv, channelPlaces = LinePlaces
  PROVE  ChannelsShare
<1> DEFINE places(e) == {channelPlaces[b] : b \in {x \in DOMAIN channelPlaces : MayAlias(e.id, x)}}
           ids == {e.id : e \in ChannelEnds}
           Bound(d) == \E b \in ChannelEnds : MayAlias(b.id, d.id) /\ BindsPair(b.line)
<1> SUFFICES ASSUME Equivalence(ids),
                    \A d, e \in ChannelEnds :
                      d.line = e.line \/ (BindsBoth(d.line) /\ BindsBoth(e.line))
                        => (MayAlias(d.id, e.id) <=> d.line = e.line),
                    NEW d \in ChannelEnds, NEW e \in ChannelEnds
             PROVE  /\ places(d) \cap places(e) # {} <=> MayAlias(d.id, e.id) /\ Bound(d)
                    /\ \A p, q \in places(d) : p = q
  BY DEF ChannelsShare
<1>1. PairedEnds = {x \in ChannelEnds : BindsPair(x.line)}
  BY CountedIsBound DEF PairedEnds
<1>2. \A x \in PairedEnds : x \in ChannelEnds /\ BindsBoth(x.line)
  BY DEF PairedEnds, ArePair, EndsOn, BindsBoth
<1>3. DOMAIN channelPlaces = {x.id : x \in PairedEnds}
  BY DEF LinePlaces
<1>4. ASSUME NEW b \in DOMAIN channelPlaces
      PROVE  \E x \in PairedEnds : x.id = b /\ channelPlaces[b] = x.line
  <2> DEFINE x == CHOOSE z \in PairedEnds : z.id = b
  <2>1. x \in PairedEnds /\ x.id = b
    BY <1>3
  <2>2. channelPlaces[b] = x.line
    BY <1>3 DEF LinePlaces
  <2> HIDE DEF x
  <2> QED
    BY <2>1, <2>2
<1>5. \A x \in ChannelEnds : x.id \in ids
  OBVIOUS
<1>6. DOMAIN channelPlaces \subseteq ids
  BY <1>2, <1>3
<1> HIDE DEF ids
<1>7. ASSUME NEW b \in DOMAIN channelPlaces, MayAlias(d.id, b),
             NEW c \in DOMAIN channelPlaces, MayAlias(d.id, c)
      PROVE  channelPlaces[b] = channelPlaces[c]
  <2>1. PICK x \in PairedEnds : x.id = b /\ channelPlaces[b] = x.line
    BY <1>4
  <2>2. PICK y \in PairedEnds : y.id = c /\ channelPlaces[c] = y.line
    BY <1>4
  <2>3. MayAlias(b, c)
    BY <1>5, <1>6, <1>7, MayAliasFacts DEF Equivalence
  <2> QED
    BY <1>2, <2>1, <2>2, <2>3
<1>8. ASSUME NEW b \in DOMAIN channelPlaces, MayAlias(d.id, b),
             NEW c \in DOMAIN channelPlaces, MayAlias(e.id, c),
             channelPlaces[b] = channelPlaces[c]
      PROVE  MayAlias(d.id, e.id) /\ Bound(d)
  <2>1. PICK x \in PairedEnds : x.id = b /\ channelPlaces[b] = x.line
    BY <1>4
  <2>2. PICK y \in PairedEnds : y.id = c /\ channelPlaces[c] = y.line
    BY <1>4
  <2>3. MayAlias(b, c)
    BY <1>2, <1>8, <2>1, <2>2
  <2>4. MayAlias(d.id, c)
    BY <1>5, <1>6, <1>8, <2>3 DEF Equivalence
  <2>5. MayAlias(d.id, e.id)
    BY <1>5, <1>6, <1>8, <2>4, MayAliasFacts DEF Equivalence
  <2>6. x \in ChannelEnds /\ BindsPair(x.line) /\ MayAlias(x.id, d.id)
    BY <1>1, <1>8, <2>1, MayAliasFacts
  <2> QED
    BY <2>5, <2>6
<1>9. ASSUME MayAlias(d.id, e.id), NEW x \in ChannelEnds, MayAlias(x.id, d.id), BindsPair(x.line)
      PROVE  places(d) \cap places(e) # {}
  <2>1. x.id \in DOMAIN channelPlaces
    BY <1>1, <1>3, <1>9
  <2>2. MayAlias(d.id, x.id) /\ MayAlias(e.id, x.id)
    <3>1. MayAlias(x.id, e.id)
      BY <1>5, <1>9 DEF Equivalence
    <3> QED
      BY <1>9, <3>1, MayAliasFacts
  <2> QED
    BY <2>1, <2>2
<1>10. places(d) \cap places(e) # {} => MayAlias(d.id, e.id) /\ Bound(d)
  <2> HAVE places(d) \cap places(e) # {}
  <2>1. PICK b \in DOMAIN channelPlaces : MayAlias(d.id, b) /\ channelPlaces[b] \in places(e)
    OBVIOUS
  <2>2. PICK c \in DOMAIN channelPlaces : MayAlias(e.id, c) /\ channelPlaces[b] = channelPlaces[c]
    BY <2>1
  <2> HIDE DEF Bound
  <2> QED
    BY <1>8, <2>1, <2>2
<1> QED
  BY <1>7, <1>9, <1>10
-----------------------------------------------------------------------------
(* The raw pointers: finitely many, in groups that are the classes of      *)
(* may-alias, if that is an equivalence, in every order of the pointers and*)
(* of the groups.                                                          *)
LEMMA PointersAreFinite ==
  ASSUME IInv
  PROVE  IsFiniteSet(RawPointers)
<1> DEFINE F == [i \in Examined |-> {<<i, d.local, NoIndex>> : d \in LocalsOf(i, {"RawPtr"})}]
<1>1. IsFiniteSet(Examined) /\ Examined \subseteq Instance
  <2>1. Examined \in SUBSET Range(nodes)
    BY DEF Examined, WithBody
  <2> QED
    BY <2>1, NodesAreFinite, FS_Subset
<1>2. ASSUME NEW i \in Examined PROVE IsFiniteSet(F[i])
  <2> DEFINE L == LocalsOf(i, {"RawPtr"})
             H == [d \in L |-> <<i, d.local, NoIndex>>]
  <2>1. input \in Inputs
    BY DEF IInv, TypeOK
  <2>2. IsFiniteSet(Range(About(i).locals))
    BY <1>1, <2>1, BodiesAssumption DEF About
  <2>3. IsFiniteSet(L)
    <3>1. L \in SUBSET Range(About(i).locals)
      BY DEF LocalsOf
    <3> QED
      BY <2>2, <3>1, FS_Subset
  <2>4. F[i] = {H[d] : d \in L}
    BY DEF F
  <2> HIDE DEF L, H, F
  <2>5. IsFiniteSet({H[d] : d \in L})
    BY <2>3, FiniteImage
  <2> QED
    BY <2>4, <2>5
<1>3. RawPointers = UNION {F[i] : i \in Examined}
  BY DEF RawPointers
<1> HIDE DEF F
<1>4. IsFiniteSet({F[i] : i \in Examined})
  BY <1>1, FiniteImage
<1>5. IsFiniteSet(UNION {F[i] : i \in Examined})
  <2> DEFINE T == {F[i] : i \in Examined}
  <2>1. \A x \in T : IsFiniteSet(x)
    BY <1>2
  <2> HIDE DEF T
  <2>2. IsFiniteSet(UNION T)
    BY <1>4, <2>1, FS_UNION DEF T
  <2> QED
    BY <2>2 DEF T
<1> QED
  BY <1>3, <1>5

(* The pointers that may be what a may be. *)
ClassIn(S, a) == {b \in S : MayAlias(a, b)}

GroupAt(listed, k) ==
  {listed[j] : j \in {n \in k .. Len(listed) : n = k \/ MayAlias(listed[k], listed[n])}}

(* One turn of the loop over the pointers. *)
Grouped(listed, groups, k) ==
  IF \E g \in Range(groups) : listed[k] \in g THEN groups ELSE Append(groups, GroupAt(listed, k))

(* The groups that have been opened are classes, each is there once, and   *)
(* the pointers looked at are in them.                                     *)
GroupsSoFar(S, listed, groups, k) ==
  /\ groups \in Seq(SUBSET S)
  /\ \A j \in 1 .. k : \E m \in DOMAIN groups : listed[j] \in groups[m]
  /\ \A m \in DOMAIN groups : \E a \in S : groups[m] = ClassIn(S, a)
  /\ \A l, m \in DOMAIN groups : groups[l] = groups[m] => l = m

LEMMA OpenGroup ==
  ASSUME NEW S, Equivalence(S), NEW n \in Nat, NEW listed \in [1 .. n -> S],
         \A x \in S : \E i \in 1 .. n : listed[i] = x,
         NEW k \in Nat, k < n, NEW groups, GroupsSoFar(S, listed, groups, k)
  PROVE  GroupsSoFar(S, listed, Grouped(listed, groups, k + 1), k + 1)
<1> DEFINE a == listed[k + 1]
           new == GroupAt(listed, k + 1)
<1>1. k + 1 \in 1 .. n /\ a \in S /\ Len(listed) = n /\ (1 .. k + 1) = (1 .. k) \cup {k + 1}
  OBVIOUS
<1>2. groups \in Seq(SUBSET S)
  BY DEF GroupsSoFar
<1>3. CASE \E g \in Range(groups) : a \in g
  <2>1. Grouped(listed, groups, k + 1) = groups
    BY <1>3 DEF Grouped
  <2>2. \E m \in DOMAIN groups : a \in groups[m]
    BY <1>3 DEF Range
  <2> QED
    BY <1>1, <2>1, <2>2 DEF GroupsSoFar
<1>4. CASE ~\E g \in Range(groups) : a \in g
  <2>1. Grouped(listed, groups, k + 1) = Append(groups, new)
    BY <1>4 DEF Grouped
  <2>2. \A m \in DOMAIN groups : a \notin groups[m]
    BY <1>4 DEF Range
  <2>3. new \subseteq ClassIn(S, a)
    BY <1>1, MayAliasFacts DEF GroupAt, ClassIn
  <2>4. ASSUME NEW b \in S, MayAlias(a, b) PROVE b \in new
    <3>1. PICK j \in 1 .. n : listed[j] = b
      OBVIOUS
    <3>2. j \notin 1 .. k
      <4> SUFFICES ASSUME j \in 1 .. k PROVE FALSE
        OBVIOUS
      <4>1. PICK m \in DOMAIN groups : b \in groups[m]
        BY <3>1 DEF GroupsSoFar
      <4>2. PICK c \in S : groups[m] = ClassIn(S, c)
        BY DEF GroupsSoFar
      <4>3. MayAlias(c, b) /\ MayAlias(b, a)
        BY <2>4, <4>1, <4>2, MayAliasFacts DEF ClassIn
      <4>4. MayAlias(c, a)
        BY <1>1, <4>3 DEF Equivalence
      <4> QED
        BY <1>1, <2>2, <4>2, <4>4 DEF ClassIn
    <3>3. j \in (k + 1) .. Len(listed)
      BY <1>1, <3>1, <3>2
    <3> QED
      BY <2>4, <3>1, <3>3 DEF GroupAt
  <2>5. new = ClassIn(S, a) /\ a \in new
    BY <1>1, <2>3, <2>4, MayAliasFacts DEF ClassIn
  <2> HIDE DEF new
  <2> DEFINE more == Append(groups, new)
             c == Len(groups) + 1
  <2>6. new \in SUBSET S
    BY <2>5 DEF ClassIn
  <2>7. /\ more \in Seq(SUBSET S) /\ DOMAIN more = DOMAIN groups \cup {c}
        /\ c \notin DOMAIN groups /\ more[c] = new
        /\ \A m \in DOMAIN groups : more[m] = groups[m]
    BY <1>2, <2>6
  <2> HIDE DEF more, c
  <2>8. \A j \in 1 .. k + 1 : \E m \in DOMAIN more : listed[j] \in more[m]
    BY <1>1, <2>5, <2>7 DEF GroupsSoFar
  <2>9. \A m \in DOMAIN more : \E b \in S : more[m] = ClassIn(S, b)
    BY <1>1, <2>5, <2>7 DEF GroupsSoFar
  <2>10. \A l, m \in DOMAIN more : more[l] = more[m] => l = m
    BY <2>2, <2>5, <2>7 DEF GroupsSoFar
  <2>11. Grouped(listed, groups, k + 1) = more
    BY ONLY <2>1 DEF more
  <2> QED
    BY ONLY <2>7, <2>8, <2>9, <2>10, <2>11 DEF GroupsSoFar
<1> QED
  BY <1>3, <1>4

(* The turns of the loop, one for each pointer. *)
Turns(h, listed, n) ==
  h = [k \in 0 .. n |-> IF k = 0 THEN <<>> ELSE Grouped(listed, h[k - 1], k)]

LEMMA TurnsExist ==
  ASSUME NEW listed, NEW n \in Nat
  PROVE  \E h : Turns(h, listed, n)
<1> DEFINE T == {k \in Nat : \E h : Turns(h, listed, k)}
<1>1. 0 \in T
  <2> DEFINE h == [k \in 0 .. 0 |-> <<>>]
  <2>1. Turns(h, listed, 0)
    BY DEF Turns
  <2> QED
    BY <2>1
<1>2. \A k \in Nat : k \in T => k + 1 \in T
  <2> SUFFICES ASSUME NEW k \in Nat, NEW h, Turns(h, listed, k)
               PROVE  \E f : Turns(f, listed, k + 1)
    OBVIOUS
  <2> DEFINE f == [j \in 0 .. k + 1 |->
                     IF j = k + 1 THEN Grouped(listed, h[k], k + 1) ELSE h[j]]
  <2>1. ASSUME NEW j \in 0 .. k + 1
        PROVE  f[j] = IF j = 0 THEN <<>> ELSE Grouped(listed, f[j - 1], j)
    <3>1. CASE j = 0
      BY <3>1 DEF Turns
    <3>2. CASE j = k + 1
      <4>1. j # 0 /\ j - 1 = k /\ k \in 0 .. k + 1 /\ k # k + 1
        BY <3>2
      <4>2. f[k] = h[k]
        BY <4>1
      <4> QED
        BY <3>2, <4>1, <4>2
    <3>3. CASE j # 0 /\ j # k + 1
      <4>1. j \in 0 .. k /\ j - 1 \in 0 .. k + 1 /\ j - 1 # k + 1
        BY <3>3
      <4>2. h[j] = Grouped(listed, h[j - 1], j)
        BY <3>3, <4>1 DEF Turns
      <4> QED
        BY <3>3, <4>1, <4>2
    <3> QED
      BY <3>1, <3>2, <3>3
  <2>2. f = [j \in 0 .. k + 1 |-> f[j]]
    OBVIOUS
  <2> HIDE DEF f
  <2>3. Turns(f, listed, k + 1)
    BY <2>1, <2>2 DEF Turns
  <2> QED
    BY <2>3
<1> HIDE DEF T
<1>3. n \in T
  BY <1>1, <1>2, NatSet
<1> QED
  BY <1>3 DEF T

(* The groups of all pointers. *)
LEMMA AllGroups ==
  ASSUME NEW S, Equivalence(S), NEW n \in Nat, NEW listed \in [1 .. n -> S],
         \A x \in S : \E i \in 1 .. n : listed[i] = x
  PROVE  GroupsSoFar(S, listed, AliasGroups(listed), n)
<1> DEFINE w == CHOOSE h : Turns(h, listed, n)
<1>1. Len(listed) = n
  OBVIOUS
<1>2. AliasGroups(listed) = w[n]
  BY <1>1 DEF AliasGroups, Turns, Grouped, GroupAt
<1>3. Turns(w, listed, n)
  BY TurnsExist
<1> HIDE DEF w
<1> DEFINE T == {k \in Nat : k =< n => GroupsSoFar(S, listed, w[k], k)}
<1>4. 0 \in T
  <2>1. w[0] = <<>>
    BY <1>3 DEF Turns
  <2>2. GroupsSoFar(S, listed, <<>>, 0)
    BY DEF GroupsSoFar
  <2> QED
    BY <2>1, <2>2
<1>5. \A k \in Nat : k \in T => k + 1 \in T
  <2> SUFFICES ASSUME NEW k \in Nat, k + 1 =< n, GroupsSoFar(S, listed, w[k], k)
               PROVE  GroupsSoFar(S, listed, w[k + 1], k + 1)
    OBVIOUS
  <2>1. k < n /\ k + 1 \in 0 .. n /\ k + 1 # 0 /\ (k + 1) - 1 = k
    OBVIOUS
  <2>2. w[k + 1] = Grouped(listed, w[k], k + 1)
    BY <1>3, <2>1 DEF Turns
  <2> QED
    BY <2>1, <2>2, OpenGroup
<1> HIDE DEF T
<1>6. n \in T
  BY <1>4, <1>5, NatSet
<1> QED
  BY <1>2, <1>6 DEF T

(* A pointer is in one group, the class of what may be the same, whichever *)
(* of the groups it is in is the last.                                     *)
RankOf(groups, ranks, a) == ranks[Max({k \in DOMAIN ranks : a \in groups[ranks[k]]})]

LEMMA RankIsClass ==
  ASSUME NEW S, Equivalence(S), NEW n \in Nat, NEW listed \in [1 .. n -> S],
         \A x \in S : \E i \in 1 .. n : listed[i] = x,
         NEW groups, GroupsSoFar(S, listed, groups, n), NEW ranks \in SetToSeqs(DOMAIN groups),
         NEW a \in S
  PROVE  /\ RankOf(groups, ranks, a) \in DOMAIN groups
         /\ groups[RankOf(groups, ranks, a)] = ClassIn(S, a)
<1> DEFINE D == DOMAIN groups
           c == Cardinality(D)
<1>1. groups \in Seq(SUBSET S)
  BY DEF GroupsSoFar
<1>2. D = 1 .. Len(groups) /\ Len(groups) \in Nat
  BY <1>1
<1>3. IsFiniteSet(D)
  BY <1>2, FS_Interval
<1>4. /\ c \in Nat
      /\ ranks \in [1 .. c -> D]
      /\ \A i, j \in 1 .. c : i # j => ranks[i] # ranks[j]
      /\ \A m \in D : \E k \in 1 .. c : ranks[k] = m
  <2>1. c \in Nat
    BY <1>3, FS_CardinalityType
  <2>2. ranks \in SetToSeqs(D)
    OBVIOUS
  <2> HIDE DEF D
  <2>3. ranks \in [1 .. c -> D] /\ \A i, j \in 1 .. c : i # j => ranks[i] # ranks[j]
    BY <2>2 DEF SetToSeqs
  <2> QED
    BY <1>3, <2>1, <2>2, <2>3, SomeOrder
<1> HIDE DEF c
<1>5. PICK m \in D : a \in groups[m]
  BY DEF GroupsSoFar
<1>6. ASSUME NEW l \in D, a \in groups[l] PROVE groups[l] = ClassIn(S, a)
  <2>1. PICK b \in S : groups[l] = ClassIn(S, b)
    BY DEF GroupsSoFar
  <2>2. MayAlias(b, a) /\ MayAlias(a, b)
    BY <1>6, <2>1, MayAliasFacts DEF ClassIn
  <2>3. \A x \in S : MayAlias(b, x) <=> MayAlias(a, x)
    BY <2>2 DEF Equivalence
  <2> QED
    BY <2>1, <2>3 DEF ClassIn
<1>7. \A l \in D : a \in groups[l] => l = m
  BY <1>5, <1>6 DEF GroupsSoFar
<1>8. PICK k \in 1 .. c : ranks[k] = m
  BY <1>4, <1>5
<1>9. {i \in DOMAIN ranks : a \in groups[ranks[i]]} = {k}
  <2>1. DOMAIN ranks = 1 .. c
    BY <1>4
  <2> HIDE DEF D
  <2>2. \A i \in 1 .. c : a \in groups[ranks[i]] => i = k
    BY <1>4, <1>7, <1>8
  <2> QED
    BY <1>5, <1>8, <2>1, <2>2
<1>10. Max({k}) = k
  BY <1>4, <1>8 DEF Max
<1>11. RankOf(groups, ranks, a) = m
  BY <1>8, <1>9, <1>10 DEF RankOf
<1> QED
  BY <1>5, <1>6, <1>11

(* Whatever order the hash maps are read in. *)
LEMMA UnsafeGroupsShare ==
  ASSUME IInv, ConstructUnsafe, input' = input
  PROVE  UnsafeShares'
<1> DEFINE S == RawPointers
           n == Cardinality(S)
<1>1. PICK listed \in SetToSeqs(S) :
        \E ranks \in SetToSeqs(DOMAIN AliasGroups(listed)) :
          unsafeGroups' = [a \in S |-> RankOf(AliasGroups(listed), ranks, a)]
  BY DEF ConstructUnsafe, RankOf
<1>2. PICK ranks \in SetToSeqs(DOMAIN AliasGroups(listed)) :
        unsafeGroups' = [a \in S |-> RankOf(AliasGroups(listed), ranks, a)]
  BY <1>1
<1>3. IsFiniteSet(S) /\ listed \in SetToSeqs(S)
  BY <1>1, PointersAreFinite
<1> DEFINE groups == AliasGroups(listed)
           rank(a) == RankOf(groups, ranks, a)
<1>4. DOMAIN unsafeGroups' = S /\ \A a \in S : unsafeGroups'[a] = rank(a)
  BY <1>2
<1>5. \A a, b : MayAlias(a, b)' <=> MayAlias(a, b)
  BY DEF MayAlias, Memory
<1>6. ranks \in SetToSeqs(DOMAIN groups)
  BY <1>2
<1> HIDE DEF S
<1>7. n \in Nat /\ listed \in [1 .. n -> S] /\ \A x \in S : \E i \in 1 .. n : listed[i] = x
  BY <1>3, SomeOrder, FS_CardinalityType
<1> HIDE DEF n
<1>8. ASSUME Equivalence(S), NEW a \in S, NEW b \in S
      PROVE  rank(a) = rank(b) <=> MayAlias(a, b)
  <2>1. GroupsSoFar(S, listed, groups, n)
    BY <1>7, <1>8, AllGroups
  <2> HIDE DEF groups
  <2>2. \A x \in S : rank(x) \in DOMAIN groups /\ groups[rank(x)] = ClassIn(S, x)
    BY <1>6, <1>7, <1>8, <2>1, RankIsClass
  <2>3. \A l, m \in DOMAIN groups : groups[l] = groups[m] => l = m
    BY <2>1 DEF GroupsSoFar
  <2>4. rank(a) = rank(b) <=> ClassIn(S, a) = ClassIn(S, b)
    <3> HIDE DEF rank
    <3> QED
      BY <2>2, <2>3
  <2>5. ClassIn(S, a) = ClassIn(S, b) <=> MayAlias(a, b)
    <3>1. ASSUME ClassIn(S, a) = ClassIn(S, b) PROVE MayAlias(a, b)
      BY <3>1, MayAliasFacts DEF ClassIn
    <3>2. ASSUME MayAlias(a, b) PROVE ClassIn(S, a) = ClassIn(S, b)
      <4>1. \A x \in S : MayAlias(a, x) <=> MayAlias(b, x)
        BY <1>8, <3>2, MayAliasFacts DEF Equivalence
      <4> QED
        BY <4>1 DEF ClassIn
    <3> QED
      BY <3>1, <3>2
  <2> QED
    BY <2>4, <2>5
<1>9. Equivalence(DOMAIN unsafeGroups)' => Equivalence(S)
  BY <1>4, <1>5 DEF Equivalence
<1> HIDE DEF rank
<1> QED
  BY <1>4, <1>5, <1>8, <1>9 DEF UnsafeShares

HasChannels == stage \in {"atomics", "unsafe", "translate"} \/ Built

SharedInv ==
  /\ AtomicsInv
  /\ UnsafeShares
  /\ HasChannels => channelPlaces = LinePlaces

LEMMA InitSharedInv ==
  ASSUME AnalysisInit
  PROVE  SharedInv
<1>1. atomicPlaces = <<>> /\ unsafeGroups = <<>> /\ stage = "run"
  BY DEF AnalysisInit, ResourcesInit
<1>2. DOMAIN atomicPlaces = {} /\ DOMAIN unsafeGroups = {} /\ ~HasChannels
  BY <1>1 DEF HasChannels, Built
<1> QED
  BY <1>2 DEF SharedInv, AtomicsInv, UnsafeShares

LEMMA FrameAtomics ==
  ASSUME AtomicsInv, UNCHANGED <<input, atomicPlaces>>
  PROVE  AtomicsInv'
<1>1. \A a, b : MayAlias(a, b)' <=> MayAlias(a, b)
  BY DEF MayAlias, Memory
<1> QED
  BY <1>1 DEF AtomicsInv, Equivalence

LEMMA FrameUnsafe ==
  ASSUME UnsafeShares, UNCHANGED <<input, unsafeGroups>>
  PROVE  UnsafeShares'
<1>1. \A a, b : MayAlias(a, b)' <=> MayAlias(a, b)
  BY DEF MayAlias, Memory
<1> QED
  BY <1>1 DEF UnsafeShares, Equivalence

LEMMA FrameChannels ==
  ASSUME UNCHANGED <<input, nodes, weight>>
  PROVE  LinePlaces' = LinePlaces
<1>1. ChannelEnds' = ChannelEnds
  BY DEF ChannelEnds, WithBody, LocalsOf, About
<1>2. PairedEnds' = PairedEnds
  BY <1>1 DEF PairedEnds, EndsOn, ArePair
<1> QED
  BY <1>2 DEF LinePlaces

LEMMA StepSharedInv ==
  ASSUME IInv, SharedInv, [AnalysisNext]_allVars
  PROVE  SharedInv'
<1>1. CASE ConstructChannelResources
  <2>1. /\ UNCHANGED <<input, nodes, weight, atomicPlaces, unsafeGroups>>
        /\ channelPlaces' = LinePlaces
    BY <1>1 DEF ConstructChannelResources, ConstructChannels, graphVars, LinePlaces, PairedEnds, EndsOn
  <2> QED
    BY <2>1, FrameAtomics, FrameUnsafe, FrameChannels DEF SharedInv
<1>2. CASE ConstructAtomicResources
  <2>1. UNCHANGED <<input, nodes, weight, channelPlaces, unsafeGroups>> /\ HasChannels
    BY <1>2 DEF ConstructAtomicResources, ConstructAtomic, graphVars, resourceVars, HasChannels
  <2>2. AtomicsInv'
    <3>1. CASE UNCHANGED atomicPlaces
      BY <2>1, <3>1, FrameAtomics DEF SharedInv
    <3>2. CASE \E name \in atomicsLeft : ConstructAtomic(name)
      <4>1. PICK name \in atomicsLeft : ConstructAtomic(name)
        BY <3>2
      <4> DEFINE id == AtomicVars[name].id
      <4>2. atomicPlaces' = Put(atomicPlaces, id, PlacesFor(id))
        BY <4>1 DEF ConstructAtomic
      <4>3. input' = input
        BY <2>1
      <4>4. AtomicsInv
        BY DEF SharedInv
      <4> HIDE DEF id
      <4> QED
        BY ONLY <4>2, <4>3, <4>4, PutAtomic
    <3> QED
      BY <1>2, <3>1, <3>2 DEF ConstructAtomicResources, resourceVars
  <2> QED
    BY <2>1, <2>2, FrameUnsafe, FrameChannels DEF SharedInv
<1>3. CASE ConstructUnsafeBlocks
  <2>1. /\ UNCHANGED <<input, nodes, weight, channelPlaces, atomicPlaces>>
        /\ ConstructUnsafe /\ HasChannels
    BY <1>3 DEF ConstructUnsafeBlocks, ConstructUnsafe, graphVars, HasChannels
  <2> QED
    BY <2>1, FrameAtomics, UnsafeGroupsShare, FrameChannels DEF SharedInv
<1>4. CASE \/ ParseOptions \/ AfterAnalysis \/ Enter \/ AnalyzeCallGraph \/ EndCallGraph
           \/ ConstructFunctions \/ ConstructLocks
  <2>1. UNCHANGED <<input, atomicPlaces, unsafeGroups>> /\ ~HasChannels'
    <3>1. input' = input
      BY <1>4, StepOfGraph DEF constructionVars, ParseOptions, AfterAnalysis, Enter, AnalyzeCallGraph,
         EndCallGraph, ConstructFunctions, ConstructLocks, Analyze, Take, EnterSite, EndBody, Give
    <3>2. UNCHANGED resourceVars
      BY <1>4 DEF constructionVars, ParseOptions, AfterAnalysis, Enter, AnalyzeCallGraph,
         EndCallGraph, ConstructFunctions, ConstructLocks
    <3>3. ~HasChannels'
      BY <1>4 DEF ParseOptions, AfterAnalysis, Enter, AnalyzeCallGraph, EndCallGraph, analysisVars,
         ConstructFunctions, ConstructLocks, HasChannels, Built
    <3> QED
      BY <3>1, <3>2, <3>3 DEF resourceVars
  <2> QED
    BY <2>1, FrameAtomics, FrameUnsafe DEF SharedInv
<1>5. CASE \/ TranslateFunction \/ EndTranslation \/ ReduceAndDump \/ HandleVisualizations
           \/ WriteSummary \/ (\E d \in running : RunDetector(d)) \/ EndDetection \/ StopWatcher
           \/ Sampler \/ UNCHANGED allVars
  <2>1. UNCHANGED <<input, graphVars, resourceVars>>
    BY <1>5 DEF TranslateFunction, EndTranslation, ReduceAndDump, HandleVisualizations,
       WriteSummary, RunDetector, EndDetection, StopWatcher, Sampler, SamplerLock, SamplerUnlock,
       SamplerWakes, allVars, constructionVars
  <2>2. HasChannels' => HasChannels
    BY <1>5 DEF TranslateFunction, EndTranslation, ReduceAndDump, HandleVisualizations,
       WriteSummary, RunDetector, EndDetection, StopWatcher, Sampler, SamplerLock, SamplerUnlock,
       SamplerWakes, allVars, analysisVars, HasChannels, Built
  <2>3. UNCHANGED <<input, nodes, weight, channelPlaces, atomicPlaces, unsafeGroups>>
    BY <2>1 DEF graphVars, resourceVars
  <2> QED
    BY <2>2, <2>3, FrameAtomics, FrameUnsafe, FrameChannels DEF SharedInv
<1> QED
  BY <1>1, <1>2, <1>3, <1>4, <1>5 DEF AnalysisNext, Main, ConstructNet, Construct, allVars

(* Once the net is built, atomics that may be the same have a place in     *)
(* common.  If may-alias is transitive among them, those that may not have *)
(* none, and raw pointers are in one group exactly if they may point to the*)
(* same.  If it is transitive among channel ends and lines tell channels   *)
(* apart, two ends have a place in common, which is then the only one of   *)
(* each, exactly if they are of one channel whose line binds a pair of ends*)
(* and no more.  All this is in every order of the hash maps.              *)
THEOREM SharedMemory == AnalysisSpec => []SharedMemoryShares
<1>1. AnalysisSpec => Spec
  BY AnalysisBuildsGraph, PTL DEF Spec
<1>2. AnalysisInit => SharedInv
  BY InitSharedInv
<1>3. IInv /\ SharedInv /\ [AnalysisNext]_allVars => SharedInv'
  BY StepSharedInv
<1>4. IInv /\ SharedInv => SharedMemoryShares
  <2> SUFFICES ASSUME IInv, SharedInv, Built PROVE AtomicsShare /\ ChannelsShare /\ UnsafeShares
    BY DEF SharedMemoryShares
  <2> QED
    BY AtomicsMeet, LinesPair DEF SharedInv, HasChannels
<1> QED
  BY <1>1, <1>2, <1>3, <1>4, Inductive, PTL DEF AnalysisSpec
-----------------------------------------------------------------------------
(* The names of atomics: one is filed under the instance that enters it    *)
(* first, and a later instance of the function only adds to it.            *)
HasIds(found) == \A name \in DOMAIN found : "id" \in DOMAIN found[name]

NameOf(f, op) == <<f, op.local, op.index>>

Recorded(found, more, i, op) ==
  /\ HasIds(more)
  /\ \A x \in DOMAIN found : x \in DOMAIN more /\ more[x].id = found[x].id
  /\ \A x \in DOMAIN more \ DOMAIN found : x = NameOf(Fn(i), op) /\ more[x].id = NameOf(i, op)
  /\ op.given = "moved" => NameOf(Fn(i), op) \in DOMAIN more

LEMMA RecordKeeps ==
  ASSUME NEW found, HasIds(found), NEW i, NEW op
  PROVE  Recorded(found, RecordOperation(found, i, op), i, op)
<1> DEFINE more == RecordOperation(found, i, op)
           name == NameOf(Fn(i), op)
<1>1. CASE name \in DOMAIN found /\ op.given \in {"moved", "value"}
  <2> DEFINE new == [found[name] EXCEPT !.operations = Append(@, OrderingOf(op))]
  <2>1. more = [found EXCEPT ![name] = new]
    BY <1>1 DEF RecordOperation, NameOf
  <2>2. DOMAIN new = DOMAIN found[name] /\ new.id = found[name].id
    BY <1>1 DEF HasIds
  <2> HIDE DEF new
  <2>3. DOMAIN more = DOMAIN found /\ \A x \in DOMAIN found : more[x] = IF x = name THEN new ELSE found[x]
    BY <2>1
  <2> HIDE DEF more, name
  <2>4. Recorded(found, more, i, op)
    BY <1>1, <2>2, <2>3 DEF HasIds, Recorded, name
  <2> QED
    BY <2>4 DEF more
<1>2. CASE ~(name \in DOMAIN found /\ op.given \in {"moved", "value"}) /\ op.given = "moved"
  <2> DEFINE new == [id |-> <<i, op.local, op.index>>, operations |-> <<OrderingOf(op)>>]
  <2>1. more = Put(found, name, new) /\ name \notin DOMAIN found
    BY <1>2 DEF RecordOperation, NameOf
  <2>2. "id" \in DOMAIN new /\ new.id = NameOf(i, op)
    BY DEF NameOf
  <2> HIDE DEF new
  <2>3. /\ DOMAIN more = {name} \cup DOMAIN found /\ more[name] = new
        /\ \A x \in DOMAIN found : more[x] = found[x]
    BY <2>1 DEF Put
  <2> HIDE DEF more
  <2>4. Recorded(found, more, i, op)
    BY <2>1, <2>2, <2>3 DEF HasIds, Recorded
  <2> QED
    BY <2>4 DEF more
<1>3. CASE op.given # "moved" /\ ~(name \in DOMAIN found /\ op.given \in {"moved", "value"})
  <2>1. more = found
    BY <1>3 DEF RecordOperation, NameOf
  <2> QED
    BY <1>3, <2>1 DEF Recorded
<1> QED
  BY <1>1, <1>2, <1>3

(* What the first n operations of a body have made of what was found. *)
BodyExamined(found, more, i, n) ==
  /\ HasIds(more)
  /\ \A x \in DOMAIN found : x[3] # "declared" => x \in DOMAIN more /\ more[x].id = found[x].id
  /\ \A x \in DOMAIN more \ DOMAIN found :
       /\ x[1] = Fn(i)
       /\ x[3] # "declared" => more[x].id = <<i, x[2], x[3]>>
  /\ \A m \in 1 .. n :
       LET op == About(i).ops[m] IN op.given = "moved" => NameOf(Fn(i), op) \in DOMAIN more

LEMMA DeclareKeeps ==
  ASSUME NEW found, HasIds(found), NEW i
  PROVE  BodyExamined(found, DeclareAtomics(found, i), i, 0)
<1> DEFINE names == {<<Fn(i), d.local, "declared">> : d \in LocalsOf(i, {"Atomic"})}
           more == DeclareAtomics(found, i)
<1>1. \A x \in names : x[1] = Fn(i) /\ x[3] = "declared"
  OBVIOUS
<1>2. /\ DOMAIN more = names \cup DOMAIN found
      /\ \A x \in names : more[x] = [id |-> <<i, x[2], NoIndex>>, operations |-> <<>>]
      /\ \A x \in DOMAIN found : x \notin names => more[x] = found[x]
  BY DEF DeclareAtomics
<1>3. ASSUME NEW x \in names PROVE "id" \in DOMAIN more[x]
  <2> DEFINE new == [id |-> <<i, x[2], NoIndex>>, operations |-> <<>>]
  <2>1. "id" \in DOMAIN new
    OBVIOUS
  <2> HIDE DEF new, more
  <2>2. more[x] = new
    BY <1>2 DEF new
  <2> QED
    BY <2>1, <2>2
<1> HIDE DEF names, more
<1>4. HasIds(more)
  BY <1>2, <1>3 DEF HasIds
<1>5. \A x \in DOMAIN found : x[3] # "declared" => x \in DOMAIN more /\ more[x].id = found[x].id
  BY <1>1, <1>2
<1>6. \A x \in DOMAIN more \ DOMAIN found : x[1] = Fn(i) /\ x[3] = "declared"
  BY <1>1, <1>2
<1>7. BodyExamined(found, more, i, 0)
  BY <1>4, <1>5, <1>6 DEF BodyExamined
<1> QED
  BY <1>7 DEF more

LEMMA RecordExamines ==
  ASSUME NEW found, NEW more, NEW i, NEW n \in Nat, BodyExamined(found, more, i, n),
         About(i).ops[n + 1].index # "declared"
  PROVE  BodyExamined(found, RecordOperation(more, i, About(i).ops[n + 1]), i, n + 1)
<1> DEFINE op == About(i).ops[n + 1]
           new == RecordOperation(more, i, op)
           name == NameOf(Fn(i), op)
<1>1. HasIds(more)
  BY DEF BodyExamined
<1> HIDE DEF op
<1>2. /\ HasIds(new)
      /\ \A x \in DOMAIN more : x \in DOMAIN new /\ new[x].id = more[x].id
      /\ \A x \in DOMAIN new \ DOMAIN more : x = name /\ new[x].id = NameOf(i, op)
      /\ op.given = "moved" => name \in DOMAIN new
  BY <1>1, RecordKeeps DEF Recorded
<1>3. name[1] = Fn(i) /\ name[2] = op.local /\ name[3] = op.index
      /\ NameOf(i, op) = <<i, name[2], name[3]>>
  BY DEF NameOf
<1> HIDE DEF new, name
<1>4. \A x \in DOMAIN found : x[3] # "declared" => x \in DOMAIN new /\ new[x].id = found[x].id
  BY <1>2 DEF BodyExamined
<1>5. ASSUME NEW x \in DOMAIN new \ DOMAIN found
      PROVE  x[1] = Fn(i) /\ (x[3] # "declared" => new[x].id = <<i, x[2], x[3]>>)
  <2>1. CASE x \in DOMAIN more
    BY <1>2, <1>5, <2>1 DEF BodyExamined
  <2>2. CASE x \notin DOMAIN more
    BY <1>2, <1>3, <1>5, <2>2
  <2> QED
    BY <2>1, <2>2
<1>6. ASSUME NEW m \in 1 .. n + 1, About(i).ops[m].given = "moved"
      PROVE  NameOf(Fn(i), About(i).ops[m]) \in DOMAIN new
  <2>1. CASE m = n + 1
    BY <1>2, <1>6, <2>1 DEF op, name
  <2>2. CASE m # n + 1
    <3>1. m \in 1 .. n
      BY <2>2
    <3>2. NameOf(Fn(i), About(i).ops[m]) \in DOMAIN more
      BY <1>6, <3>1 DEF BodyExamined
    <3> QED
      BY <1>2, <3>2
  <2> QED
    BY <2>1, <2>2
<1>7. BodyExamined(found, new, i, n + 1)
  BY <1>2, <1>4, <1>5, <1>6 DEF BodyExamined
<1> QED
  BY <1>7 DEF new, op

(* The loop over the operations of a body. *)
Operations(h, found, i, n) ==
  h = [m \in 0 .. n |->
         IF m = 0 THEN DeclareAtomics(found, i) ELSE RecordOperation(h[m - 1], i, About(i).ops[m])]

LEMMA OperationsExist ==
  ASSUME NEW found, NEW i, NEW n \in Nat
  PROVE  \E h : Operations(h, found, i, n)
<1> DEFINE T == {k \in Nat : \E h : Operations(h, found, i, k)}
<1>1. 0 \in T
  <2> DEFINE h == [k \in 0 .. 0 |-> DeclareAtomics(found, i)]
  <2>1. Operations(h, found, i, 0)
    BY DEF Operations
  <2> QED
    BY <2>1
<1>2. \A k \in Nat : k \in T => k + 1 \in T
  <2> SUFFICES ASSUME NEW k \in Nat, NEW h, Operations(h, found, i, k)
               PROVE  \E f : Operations(f, found, i, k + 1)
    OBVIOUS
  <2> DEFINE f == [j \in 0 .. k + 1 |->
                     IF j = k + 1 THEN RecordOperation(h[k], i, About(i).ops[k + 1]) ELSE h[j]]
  <2>1. ASSUME NEW j \in 0 .. k + 1
        PROVE  f[j] = IF j = 0 THEN DeclareAtomics(found, i)
                      ELSE RecordOperation(f[j - 1], i, About(i).ops[j])
    <3>1. CASE j = 0
      BY <3>1 DEF Operations
    <3>2. CASE j = k + 1
      <4>1. j # 0 /\ j - 1 = k /\ k \in 0 .. k + 1 /\ k # k + 1
        BY <3>2
      <4>2. f[k] = h[k]
        BY <4>1
      <4> QED
        BY <3>2, <4>1, <4>2
    <3>3. CASE j # 0 /\ j # k + 1
      <4>1. j \in 0 .. k /\ j - 1 \in 0 .. k + 1 /\ j - 1 # k + 1
        BY <3>3
      <4>2. h[j] = RecordOperation(h[j - 1], i, About(i).ops[j])
        BY <3>3, <4>1 DEF Operations
      <4> QED
        BY <3>3, <4>1, <4>2
    <3> QED
      BY <3>1, <3>2, <3>3
  <2>2. f = [j \in 0 .. k + 1 |-> f[j]]
    OBVIOUS
  <2> HIDE DEF f
  <2>3. Operations(f, found, i, k + 1)
    BY <2>1, <2>2 DEF Operations
  <2> QED
    BY <2>3
<1> HIDE DEF T
<1>3. n \in T
  BY <1>1, <1>2, NatSet
<1> QED
  BY <1>3 DEF T

LEMMA BodyIsExamined ==
  ASSUME IInv, NEW found, HasIds(found), NEW i \in Instance
  PROVE  BodyExamined(found, ExamineBody(found, i), i, Len(About(i).ops))
<1> DEFINE n == Len(About(i).ops)
           w == CHOOSE h : Operations(h, found, i, n)
<1>1. n \in Nat /\ \A m \in 1 .. n : About(i).ops[m].index # "declared"
  <2>1. input \in Inputs
    BY DEF IInv, TypeOK
  <2>2. /\ About(i).ops \in Seq(Range(About(i).ops))
        /\ \A op \in Range(About(i).ops) : op.index # "declared"
    BY <2>1, BodiesAssumption DEF About
  <2> QED
    BY <2>2
<1>2. ExamineBody(found, i) = w[n]
  BY DEF ExamineBody, Operations
<1> HIDE DEF n
<1>3. Operations(w, found, i, n)
  BY <1>1, OperationsExist
<1> HIDE DEF w
<1> DEFINE T == {k \in Nat : k =< n => BodyExamined(found, w[k], i, k)}
<1>4. 0 \in T
  <2>1. w[0] = DeclareAtomics(found, i)
    BY <1>1, <1>3 DEF Operations
  <2> QED
    BY <2>1, DeclareKeeps
<1>5. \A k \in Nat : k \in T => k + 1 \in T
  <2> SUFFICES ASSUME NEW k \in Nat, k + 1 =< n, BodyExamined(found, w[k], i, k)
               PROVE  BodyExamined(found, w[k + 1], i, k + 1)
    BY <1>1
  <2>1. k + 1 \in 0 .. n /\ k + 1 \in 1 .. n /\ k + 1 # 0 /\ (k + 1) - 1 = k
    BY <1>1
  <2>2. w[k + 1] = RecordOperation(w[k], i, About(i).ops[k + 1])
    BY <1>3, <2>1 DEF Operations
  <2> QED
    BY <1>1, <2>1, <2>2, RecordExamines
<1> HIDE DEF T
<1>6. n \in T
  BY <1>1, <1>4, <1>5, NatSet
<1> QED
  BY <1>1, <1>2, <1>6 DEF T, n

(* The loop over the nodes. *)
Bodies(h, n) ==
  h = [k \in 0 .. n |->
         IF k = 0 THEN <<>>
         ELSE IF nodes[k] \in Examined THEN ExamineBody(h[k - 1], nodes[k])
         ELSE h[k - 1]]

LEMMA BodiesExist ==
  ASSUME NEW n \in Nat
  PROVE  \E h : Bodies(h, n)
<1> DEFINE step(v, k) == IF nodes[k] \in Examined THEN ExamineBody(v, nodes[k]) ELSE v
           T == {k \in Nat : \E h : Bodies(h, k)}
<1>1. 0 \in T
  <2> DEFINE h == [k \in 0 .. 0 |-> <<>>]
  <2>1. Bodies(h, 0)
    BY DEF Bodies
  <2> QED
    BY <2>1
<1>2. \A k \in Nat : k \in T => k + 1 \in T
  <2> SUFFICES ASSUME NEW k \in Nat, NEW h, Bodies(h, k)
               PROVE  \E f : Bodies(f, k + 1)
    OBVIOUS
  <2> DEFINE f == [j \in 0 .. k + 1 |-> IF j = k + 1 THEN step(h[k], k + 1) ELSE h[j]]
  <2>1. ASSUME NEW j \in 0 .. k + 1
        PROVE  f[j] = IF j = 0 THEN <<>> ELSE step(f[j - 1], j)
    <3>1. CASE j = 0
      BY <3>1 DEF Bodies
    <3>2. CASE j = k + 1
      <4>1. j # 0 /\ j - 1 = k /\ k \in 0 .. k + 1 /\ k # k + 1
        BY <3>2
      <4>2. f[k] = h[k]
        BY <4>1
      <4> QED
        BY <3>2, <4>1, <4>2
    <3>3. CASE j # 0 /\ j # k + 1
      <4>1. j \in 0 .. k /\ j - 1 \in 0 .. k + 1 /\ j - 1 # k + 1
        BY <3>3
      <4>2. h[j] = step(h[j - 1], j)
        BY <3>3, <4>1 DEF Bodies
      <4> QED
        BY <3>3, <4>1, <4>2
    <3> QED
      BY <3>1, <3>2, <3>3
  <2>2. f = [j \in 0 .. k + 1 |-> f[j]]
    OBVIOUS
  <2> HIDE DEF f
  <2>3. Bodies(f, k + 1)
    BY <2>1, <2>2 DEF Bodies
  <2> QED
    BY <2>3
<1> HIDE DEF T
<1>3. n \in T
  BY <1>1, <1>2, NatSet
<1> QED
  BY <1>3 DEF T

(* The first instance of a function whose body is looked at: no name of the*)
(* function is there before, and the operation is filed under it after.    *)
Filed(found, first, op, k) ==
  LET i == nodes[first]
      name == NameOf(Fn(i), op)
  IN  /\ HasIds(found)
      /\ k < first => \A x \in DOMAIN found : x[1] # Fn(i)
      /\ first =< k => name \in DOMAIN found /\ found[name].id = NameOf(i, op)

LEMMA BodyFiles ==
  ASSUME IInv, NEW first \in DOMAIN nodes, nodes[first] \in Examined,
         \A j \in DOMAIN nodes : j < first => Fn(nodes[j]) # Fn(nodes[first]),
         NEW op \in Range(About(nodes[first]).ops), op.given = "moved",
         NEW found, NEW k \in Nat, k + 1 \in DOMAIN nodes, Filed(found, first, op, k),
         nodes[k + 1] \in Examined
  PROVE  Filed(ExamineBody(found, nodes[k + 1]), first, op, k + 1)
<1> DEFINE i == nodes[first]
           name == NameOf(Fn(i), op)
           b == nodes[k + 1]
           more == ExamineBody(found, b)
           n == Len(About(b).ops)
<1>1. first \in Nat /\ i \in Instance /\ b \in Instance
  BY DEF IInv, TypeOK
<1>2. BodyExamined(found, more, b, n)
  BY <1>1, BodyIsExamined DEF Filed
<1>3. name[1] = Fn(i) /\ name[2] = op.local /\ name[3] = op.index
      /\ <<i, name[2], name[3]>> = NameOf(i, op)
  BY DEF NameOf
<1>4. op.index # "declared"
  <2>1. input \in Inputs
    BY DEF IInv, TypeOK
  <2> QED
    BY <1>1, <2>1, BodiesAssumption DEF About
<1>5. HasIds(more)
  BY <1>2 DEF BodyExamined
<1> HIDE DEF more
<1>6. CASE k + 1 < first
  <2>1. Fn(b) # Fn(i) /\ k < first
    BY <1>1, <1>6
  <2>2. \A x \in DOMAIN found : x[1] # Fn(i)
    BY <2>1 DEF Filed
  <2>3. \A x \in DOMAIN more : x \notin DOMAIN found => x[1] = Fn(b)
    BY <1>2 DEF BodyExamined
  <2>4. \A x \in DOMAIN more : x[1] # Fn(i)
    BY <2>1, <2>2, <2>3
  <2>5. ~(first =< k + 1)
    BY <1>1, <1>6
  <2> QED
    BY <1>5, <2>4, <2>5 DEF Filed, more
<1>7. CASE k + 1 = first
  <2>1. b = i /\ k < first /\ ~(k + 1 < first)
    BY <1>1, <1>7
  <2>2. name \notin DOMAIN found
    BY <1>3, <2>1 DEF Filed
  <2>3. PICK m \in 1 .. n : About(b).ops[m] = op
    <3>1. input \in Inputs
      BY DEF IInv, TypeOK
    <3>2. About(b).ops \in Seq(Range(About(b).ops))
      BY <1>1, <3>1, BodiesAssumption DEF About
    <3>3. DOMAIN About(b).ops = 1 .. n
      BY <3>2
    <3> QED
      BY <2>1, <3>3 DEF Range
  <2>4. name \in DOMAIN more
    BY <1>2, <2>1, <2>3 DEF BodyExamined
  <2>5. more[name].id = NameOf(i, op)
    BY <1>2, <1>3, <1>4, <2>1, <2>2, <2>4 DEF BodyExamined
  <2> QED
    BY <1>5, <2>1, <2>4, <2>5 DEF Filed, more
<1>8. CASE first < k + 1
  <2>1. first =< k /\ ~(k + 1 < first)
    BY <1>1, <1>8
  <2>2. name \in DOMAIN found /\ found[name].id = NameOf(i, op)
    BY <2>1 DEF Filed
  <2>3. name \in DOMAIN more /\ more[name].id = NameOf(i, op)
    BY <1>2, <1>3, <1>4, <2>2 DEF BodyExamined
  <2> QED
    BY <1>5, <2>1, <2>3 DEF Filed, more
<1> QED
  BY <1>1, <1>6, <1>7, <1>8

LEMMA OperationsFiled ==
  ASSUME IInv, NEW first \in DOMAIN nodes, nodes[first] \in Examined,
         \A j \in DOMAIN nodes : j < first => Fn(nodes[j]) # Fn(nodes[first]),
         NEW op \in Range(About(nodes[first]).ops), op.given = "moved"
  PROVE  LET name == NameOf(Fn(nodes[first]), op)
         IN  /\ name \in DOMAIN AtomicVars
             /\ AtomicVars[name].id = NameOf(nodes[first], op)
<1> DEFINE n == Len(nodes)
           w == CHOOSE h : Bodies(h, n)
<1>1. n \in Nat /\ DOMAIN nodes = 1 .. n
  BY NodesAreFinite
<1>2. AtomicVars = w[n]
  BY DEF AtomicVars, Bodies
<1> HIDE DEF n
<1>3. Bodies(w, n)
  BY <1>1, BodiesExist
<1> HIDE DEF w
<1> DEFINE T == {k \in Nat : k =< n => Filed(w[k], first, op, k)}
<1>4. 0 \in T
  <2>1. w[0] = <<>>
    BY <1>1, <1>3 DEF Bodies
  <2>2. DOMAIN w[0] = {} /\ ~(first =< 0)
    BY <1>1, <2>1
  <2> QED
    BY <2>2 DEF Filed, HasIds
<1>5. \A k \in Nat : k \in T => k + 1 \in T
  <2> SUFFICES ASSUME NEW k \in Nat, k + 1 =< n, Filed(w[k], first, op, k)
               PROVE  Filed(w[k + 1], first, op, k + 1)
    BY <1>1
  <2>1. k + 1 \in 0 .. n /\ k + 1 \in DOMAIN nodes /\ k + 1 # 0 /\ (k + 1) - 1 = k
    BY <1>1
  <2>2. w[k + 1] = IF nodes[k + 1] \in Examined THEN ExamineBody(w[k], nodes[k + 1]) ELSE w[k]
    BY <1>3, <2>1 DEF Bodies
  <2>3. CASE nodes[k + 1] \in Examined
    BY <2>1, <2>2, <2>3, BodyFiles
  <2>4. CASE nodes[k + 1] \notin Examined
    <3>1. k + 1 # first /\ first \in Nat
      BY <1>1, <2>4
    <3>2. (k + 1 < first => k < first) /\ (first =< k + 1 => first =< k)
      BY <3>1
    <3> QED
      BY <2>2, <2>4, <3>2 DEF Filed
  <2> QED
    BY <2>3, <2>4
<1> HIDE DEF T
<1>6. n \in T
  BY <1>1, <1>4, <1>5, NatSet
<1>7. Filed(w[n], first, op, n) /\ first =< n
  BY <1>1, <1>6 DEF T
<1> QED
  BY <1>2, <1>7 DEF Filed

(* The atomics that have been given their places, all of them in the end.  *)
Placed(name) ==
  AtomicVars[name].id \in DOMAIN atomicOrders /\ AtomicVars[name].id \in DOMAIN atomicPlaces

PlacedInv ==
  HasChannels =>
    /\ stage # "atomics" => atomicsLeft = {}
    /\ \A name \in DOMAIN AtomicVars \ atomicsLeft : Placed(name)

LEMMA InitPlacedInv ==
  ASSUME AnalysisInit
  PROVE  PlacedInv
BY DEF AnalysisInit, PlacedInv, HasChannels, Built

LEMMA StepPlacedInv ==
  ASSUME PlacedInv, [AnalysisNext]_allVars
  PROVE  PlacedInv'
<1>1. CASE ConstructChannelResources
  <2>1. AtomicVars' = AtomicVars
    BY <1>1, FrameWanted DEF ConstructChannelResources
  <2>2. atomicsLeft' = DOMAIN AtomicVars /\ stage' = "atomics"
    BY <1>1 DEF ConstructChannelResources
  <2> QED
    BY <2>1, <2>2 DEF PlacedInv
<1>2. CASE ConstructAtomicResources
  <2>1. AtomicVars' = AtomicVars /\ stage = "atomics"
    BY <1>2, FrameWanted DEF ConstructAtomicResources
  <2>2. \A name \in DOMAIN AtomicVars \ atomicsLeft : Placed(name)
    BY <2>1 DEF PlacedInv, HasChannels
  <2>3. CASE atomicsLeft = {}
    <3>1. UNCHANGED <<atomicsLeft, atomicOrders, atomicPlaces>>
      BY <1>2, <2>3 DEF ConstructAtomicResources, resourceVars
    <3> QED
      BY <2>1, <2>2, <2>3, <3>1 DEF PlacedInv, Placed
  <2>4. CASE atomicsLeft # {}
    <3>1. stage' = "atomics"
      BY <1>2, <2>1, <2>4 DEF ConstructAtomicResources
    <3>2. PICK n \in atomicsLeft : ConstructAtomic(n)
      BY <1>2, <2>4 DEF ConstructAtomicResources
    <3> DEFINE id == AtomicVars[n].id
    <3>3. /\ atomicsLeft' = atomicsLeft \ {n}
          /\ DOMAIN atomicOrders' = {id} \cup DOMAIN atomicOrders
          /\ DOMAIN atomicPlaces' = {id} \cup DOMAIN atomicPlaces
      BY <3>2 DEF ConstructAtomic, Put
    <3>4. ASSUME NEW name \in DOMAIN AtomicVars, name \notin atomicsLeft'
          PROVE  AtomicVars[name].id \in DOMAIN atomicOrders'
                 /\ AtomicVars[name].id \in DOMAIN atomicPlaces'
      BY <2>2, <3>3, <3>4 DEF Placed
    <3> QED
      BY <2>1, <3>1, <3>4 DEF PlacedInv, Placed
  <2> QED
    BY <2>3, <2>4
<1>3. CASE \/ ParseOptions \/ AfterAnalysis \/ Enter \/ AnalyzeCallGraph \/ EndCallGraph
           \/ ConstructFunctions \/ ConstructLocks
  <2>1. ~HasChannels'
    BY <1>3 DEF ParseOptions, AfterAnalysis, Enter, AnalyzeCallGraph, EndCallGraph, analysisVars,
       ConstructFunctions, ConstructLocks, HasChannels, Built
  <2> QED
    BY <2>1 DEF PlacedInv
<1>4. CASE \/ ConstructUnsafeBlocks \/ TranslateFunction \/ EndTranslation \/ ReduceAndDump
           \/ HandleVisualizations \/ WriteSummary \/ (\E d \in running : RunDetector(d))
           \/ EndDetection \/ StopWatcher \/ Sampler \/ UNCHANGED allVars
  <2>1. /\ UNCHANGED <<input, options, graphVars>>
        /\ UNCHANGED <<atomicsLeft, atomicOrders, atomicPlaces>>
    BY <1>4 DEF ConstructUnsafeBlocks, ConstructUnsafe, TranslateFunction, EndTranslation,
       ReduceAndDump, HandleVisualizations, WriteSummary, RunDetector, EndDetection, StopWatcher,
       Sampler, SamplerLock, SamplerUnlock, SamplerWakes, allVars, constructionVars, resourceVars
  <2>2. HasChannels' => HasChannels /\ (stage' = "atomics" <=> stage = "atomics")
    BY <1>4 DEF ConstructUnsafeBlocks, TranslateFunction, EndTranslation, ReduceAndDump,
       HandleVisualizations, WriteSummary, RunDetector, EndDetection, StopWatcher, Sampler,
       SamplerLock, SamplerUnlock, SamplerWakes, allVars, analysisVars, HasChannels, Built
  <2>3. AtomicVars' = AtomicVars
    BY <2>1, FrameWanted
  <2> QED
    BY <2>1, <2>2, <2>3 DEF PlacedInv, Placed
<1> QED
  BY <1>1, <1>2, <1>3, <1>4 DEF AnalysisNext, Main, ConstructNet, Construct, allVars

(* The instance that is translated is the one the operations are filed     *)
(* under: the first of the function is wanted too.                         *)
LEMMA FirstIsTranslated ==
  ASSUME GraphInv, options.concurrentRoots \/ ~options.entryReachable,
         NEW first \in DOMAIN nodes, nodes[first] \in Examined,
         \A j \in DOMAIN nodes : j < first => Fn(nodes[j]) # Fn(nodes[first]),
         NEW op \in Range(About(nodes[first]).ops), op.given = "moved"
  PROVE  nodes[first] \in Wanted
<1> DEFINE i == nodes[first]
           name == NameOf(Fn(i), op)
<1>1. name \in DOMAIN AtomicVars /\ AtomicVars[name].id = NameOf(i, op)
  BY OperationsFiled DEF GraphInv
<1>2. i \in Range(nodes)
  BY DEF Range
<1>3. CASE ~options.entryReachable \/ input.main = NoInstance
  BY <1>2, <1>3 DEF Wanted
<1>4. CASE ~(~options.entryReachable \/ input.main = NoInstance)
  <2> DEFINE roots == {input.main} \cup ConcurrentRoots
  <2>1. Wanted = ReachableFromRoots(roots)
    BY <1>4 DEF Wanted
  <2>2. AtomicVars[name] \in Range(AtomicVars) /\ AtomicVars[name].id[1] = i
    BY <1>1 DEF Range, NameOf
  <2>3. i \in roots \cap Range(nodes)
    BY <1>2, <2>2 DEF ConcurrentRoots
  <2> HIDE DEF roots
  <2>4. roots \cap Range(nodes) \subseteq ReachableFromRoots(roots)
    BY Reach DEF GraphInv
  <2> QED
    BY <2>1, <2>3, <2>4
<1> QED
  BY <1>3, <1>4

LEMMA BuiltOperations ==
  ASSUME GraphInv, NetInv, PlacedInv
  PROVE  AtomicOperationsFound
<1> SUFFICES ASSUME Built, options.concurrentRoots \/ ~options.entryReachable,
                    NEW f \in DOMAIN translated, input.functions[f].local,
                    options.crate \in input.functions[f].named,
                    NEW op \in Range(input.functions[f].ops), op.given = "moved"
             PROVE  NameOf(translated[f], op) \in DOMAIN atomicOrders
                    /\ NameOf(translated[f], op) \in DOMAIN atomicPlaces
  BY DEF AtomicOperationsFound, NameOf
<1>1. PICK k \in DOMAIN nodes :
        /\ nodes[k] = translated[f] /\ Fn(nodes[k]) = f /\ Translates(nodes[k])
        /\ \A j \in DOMAIN nodes : j < k /\ Fn(nodes[j]) = f => nodes[j] \notin Wanted
  BY DEF NetInv, FirstTranslated
<1>2. DOMAIN nodes \subseteq Nat /\ \A j \in DOMAIN nodes : nodes[j] \in Instance /\ nodes[j] \in Range(nodes)
  BY DEF GraphInv, IInv, TypeOK, Range
<1>3. PICK first \in DOMAIN nodes :
        Fn(nodes[first]) = f /\ \A j \in DOMAIN nodes : Fn(nodes[j]) = f => first =< j
  <2> DEFINE T == {j \in DOMAIN nodes : Fn(nodes[j]) = f}
  <2>1. T \subseteq Nat /\ T # {}
    BY <1>1, <1>2
  <2> HIDE DEF T
  <2>2. PICK x \in T : \A y \in T : x =< y
    BY <2>1, LeastNumber
  <2> QED
    BY <2>2 DEF T
<1>4. \A j \in DOMAIN nodes : j < first => Fn(nodes[j]) # Fn(nodes[first])
  BY <1>2, <1>3
<1>5. About(nodes[first]) = input.functions[f] /\ input.functions[f].mir
  BY <1>1, <1>3 DEF About, Translates
<1>6. nodes[first] \in Examined
  <2>1. input \in Inputs /\ nodes[first] \in Instance
    BY <1>2 DEF GraphInv, IInv, TypeOK
  <2>2. nodes[first] \in input.expandable
    BY <1>5, <2>1, BodiesAssumption DEF About
  <2>3. weight[nodes[first]] # "none"
    BY <1>2 DEF GraphInv, IInv, BodiesAreScheduled
  <2>4. nodes[first] \in WithBody
    BY <1>2, <2>2, <2>3 DEF GraphInv, OwnHaveBodies, WithBody
  <2> QED
    BY <1>5, <2>4 DEF Examined
<1>7. nodes[first] \in Wanted
  BY <1>4, <1>5, <1>6, FirstIsTranslated
<1>8. first = k
  <2>1. first =< k /\ ~(first < k)
    BY <1>1, <1>3, <1>7
  <2> QED
    BY <1>2, <2>1
<1>9. NameOf(f, op) \in DOMAIN AtomicVars /\ AtomicVars[NameOf(f, op)].id = NameOf(translated[f], op)
  BY <1>1, <1>3, <1>4, <1>5, <1>6, <1>8, OperationsFiled DEF GraphInv
<1>10. \A name \in DOMAIN AtomicVars : Placed(name)
  BY DEF PlacedInv, HasChannels, Built
<1> QED
  BY <1>9, <1>10 DEF Placed

(* The translation asks for an atomic by the instance it translates, the   *)
(* collector has filed it by the first instance of the function: in every  *)
(* order of the nodes each operation with an ordering of its own finds its *)
(* ordering and its places, unless only what main reaches is translated.   *)
THEOREM OperationsFound == AnalysisSpec => []AtomicOperationsFound
<1> DEFINE Inv == GraphInv /\ NetInv /\ PlacedInv
<1>1. AnalysisInit => Inv
  BY StartOfGraph, InitGraphInv, InitNetInv, InitPlacedInv
<1>2. Inv /\ [AnalysisNext]_allVars => Inv'
  BY StepOfGraph, StepGraphInv, StepNetInv, StepPlacedInv DEF GraphInv
<1>3. Inv => AtomicOperationsFound
  BY BuiltOperations
<1> QED
  BY <1>1, <1>2, <1>3, PTL DEF AnalysisSpec

-----------------------------------------------------------------------------
(* Lock objects: the collector of the analysis is that of LockGroups too.  *)
LEMMA SameProtects == \A g : LP!Protects(g) = Locks!Protects(g)
<1>1. \A f : LP!Owned(f) = Locks!Owned(f)
  BY Zenon DEF LP!Owned, Locks!Owned, LP!NoField, Locks!NoField, LP!Cardinality, Locks!Cardinality
<1> QED
  BY <1>1 DEF LP!Protects, Locks!Protects, LP!At, Locks!At

LEMMA SameReceivers == LP!ReceiversFound <=> ReceiversFound
BY SameProtects DEF LP!ReceiversFound, Locks!ReceiversFound, ReceiversFound

LEMMA SameCollect == Locks!Collect => LP!Collect
<1>1. \A x : LP!TraceToReceiver(x) = Locks!TraceToReceiver(x)
  BY Zenon DEF LP!TraceToReceiver, Locks!TraceToReceiver, LP!NoField, Locks!NoField,
               LP!Cardinality, Locks!Cardinality
<1>2. \A x, how, src, from : LP!Record(x, how, src, from) <=> Locks!Record(x, how, src, from)
  BY DEF LP!Record, Locks!Record, LP!With, Locks!With
<1>3. \A how : LP!Reading(how) <=> Locks!Reading(how)
  BY DEF LP!Reading, Locks!Reading, LP!fn, Locks!fn
<1>4. \A d : (Locks!Use(d) => LP!Use(d)) /\ (Locks!Ref(d) => LP!Ref(d))
  BY <1>2, <1>3 DEF LP!Use, Locks!Use, LP!Ref, Locks!Ref
<1>5. \A d : Locks!Acquire(d) => LP!Acquire(d)
  BY <1>1, <1>2, <1>3 DEF LP!Acquire, Locks!Acquire, LP!OrElse, Locks!OrElse, LP!NoField, Locks!NoField,
     LP!With, Locks!With, LP!fn, Locks!fn
<1>6. \A d : /\ Locks!Extract(d) => LP!Extract(d)
             /\ Locks!Wait(d) => LP!Wait(d)
             /\ Locks!Ignore(d) => LP!Ignore(d)
  BY <1>2, <1>3 DEF LP!Extract, Locks!Extract, LP!Wait, Locks!Wait, LP!Ignore, Locks!Ignore,
     LP!Plain, Locks!Plain, LP!fn, Locks!fn, LP!NoField, Locks!NoField
<1> QED
  BY <1>4, <1>5, <1>6 DEF LP!Collect, Locks!Collect, LP!fn, Locks!fn

LEMMA SameEndBody == Locks!EndBody => LP!EndBody
BY Zenon DEF LP!EndBody, Locks!EndBody, LP!Resolve, Locks!Resolve, LP!EndsChain, Locks!EndsChain,
             LP!OrElse, Locks!OrElse, LP!NoField, Locks!NoField, LP!Plain, Locks!Plain,
             LP!fn, Locks!fn, LP!Min, Locks!Min

(* Before the locks nothing has been read of the bodies; from then on what *)
(* has been read is known, and a guard that owns a lock has its lock object*)
(* at the end of its body.                                                 *)
Unread ==
  phase = "collect" /\ node = 1 /\ next = 1 /\ defs = <<>> /\ guards = input.locks.guard

CollectedInv ==
  /\ BeforeLocks => Unread
  /\ stage = "locks" => (LP!Traceable => LP!ReceiverInv)
  /\ ~BeforeLocks => Unread \/ (LP!Traceable => LP!ReceiverInv)

LEMMA StartReceivers == (LP!NothingRead /\ LP!Traceable => LP!ReceiverInv)'
<1>1. LP!NothingRead /\ LP!Traceable => LP!ReceiverInv
  BY LP!InitReceiverInv
<1> QED
  BY <1>1, PTL

LEMMA StepReceivers ==
  ASSUME LP!IInv, LP!ReceiverInv, LP!Traceable, Locks!Step
  PROVE  LP!ReceiverInv'
<1>1. CASE Locks!Collect
  BY <1>1, SameCollect, LP!CollectReceivers
<1>2. CASE Locks!EndBody
  BY <1>2, SameEndBody, LP!EndBodyReceivers
<1>3. CASE Locks!StartUniting
  BY <1>3, SameStart, LP!UniteReceivers
<1>4. CASE Locks!ComparePair \/ Locks!CreatePlaces
  <2>1. /\ phase \in {"unite", "done"} /\ phase' \in {"unite", "done"}
        /\ crate' = crate /\ guards' = guards /\ objects' = objects
    BY <1>4 DEF Locks!ComparePair, Locks!CreatePlaces, Locks!collectVars
  <2> QED
    BY <2>1, LP!UniteReceivers
<1> QED
  BY <1>1, <1>2, <1>3, <1>4 DEF Locks!Step

(* While guards are collected and grouped: the crate moves its guards from *)
(* local to local, what has been read of a body is known to the collector  *)
(* (resolve_lock_objects), and a guard that owns a lock has its lock object*)
(* or its body is still to be read to its end.                             *)
ReceiversFollowed == stage = "locks" => LP!Traceable /\ LP!ReceiverInv

LEMMA InputKept ==
  ASSUME [AnalysisNext]_allVars
  PROVE  input' = input
BY StepOfGraph DEF Next, Analyze, Give, Take, EnterSite, EndBody

LEMMA StepCollectedInv ==
  ASSUME GroupInv, CollectedInv, [AnalysisNext]_allVars
  PROVE  CollectedInv'
<1>1. CASE ConstructFunctions
  <2>1. Unread /\ ~BeforeLocks' /\ UNCHANGED <<input, phase, node, next, defs, guards>>
    BY <1>1 DEF ConstructFunctions, CollectedInv, BeforeLocks
  <2>2. crate'.guard = input.locks.guard
    BY <1>1 DEF ConstructFunctions
  <2>3. LP!NothingRead'
    BY <2>1, <2>2 DEF LP!NothingRead, Unread
  <2> QED
    BY <2>1, <2>3, StartReceivers DEF CollectedInv
<1>2. CASE ConstructLocks
  <2>1. stage = "locks" /\ ~BeforeLocks /\ ~BeforeLocks'
    BY <1>2 DEF ConstructLocks, BeforeLocks
  <2>2. Locks!Step \/ UNCHANGED lockVars
    BY <1>2 DEF ConstructLocks
  <2>3. crate' = crate
    BY <2>2 DEF lockVars, Locks!Step, Locks!Collect, Locks!Use, Locks!Ref, Locks!Acquire,
       Locks!Extract, Locks!Wait, Locks!Ignore, Locks!Reading, Locks!EndBody, Locks!StartUniting,
       Locks!ComparePair, Locks!CreatePlaces
  <2>4. LP!Traceable' <=> LP!Traceable
    BY <2>3, LP!TraceableKept
  <2>5. CASE Locks!Step
    BY <2>1, <2>4, <2>5, StepReceivers DEF CollectedInv, GroupInv
  <2>6. CASE UNCHANGED lockVars
    BY <2>1, <2>4, <2>6, LP!ReceiversKept DEF CollectedInv, lockVars, LP!collectVars
  <2> QED
    BY <2>2, <2>5, <2>6
<1>3. ASSUME UNCHANGED lockVars, UNCHANGED input, BeforeLocks' => BeforeLocks,
             stage' = "locks" => stage = "locks"
      PROVE  CollectedInv'
  <2>1. LP!Traceable' <=> LP!Traceable
    BY <1>3, LP!TraceableKept DEF lockVars
  <2>2. LP!ReceiverInv => LP!ReceiverInv'
    BY <1>3, LP!ReceiversKept DEF lockVars, LP!collectVars
  <2> QED
    BY <1>3, <2>1, <2>2 DEF CollectedInv, Unread, lockVars
<1>4. CASE \/ ParseOptions \/ AfterAnalysis \/ Enter \/ AnalyzeCallGraph \/ EndCallGraph
           \/ ReduceAndDump \/ HandleVisualizations \/ WriteSummary
           \/ (\E d \in running : RunDetector(d)) \/ EndDetection \/ StopWatcher \/ Sampler
           \/ UNCHANGED allVars
  <2>1. /\ UNCHANGED lockVars /\ (BeforeLocks' => BeforeLocks)
        /\ stage' = "locks" => stage = "locks"
    BY <1>4 DEF ParseOptions, AfterAnalysis, Enter, AnalyzeCallGraph, EndCallGraph, ReduceAndDump,
       HandleVisualizations, WriteSummary, RunDetector, EndDetection, StopWatcher, Sampler,
       SamplerLock, SamplerUnlock, SamplerWakes, allVars, constructionVars, analysisVars, BeforeLocks
  <2> QED
    BY <1>3, <2>1, InputKept
<1>5. CASE \/ ConstructChannelResources \/ ConstructAtomicResources \/ ConstructUnsafeBlocks
           \/ TranslateFunction \/ EndTranslation
  <2>1. UNCHANGED lockVars /\ ~BeforeLocks' /\ stage' # "locks"
    BY <1>5 DEF ConstructChannelResources, ConstructAtomicResources, ConstructUnsafeBlocks,
       TranslateFunction, EndTranslation, BeforeLocks
  <2> QED
    BY <1>3, <2>1, InputKept
<1> QED
  BY <1>1, <1>2, <1>4, <1>5 DEF AnalysisNext, Main, ConstructNet, Construct, allVars

(* Within the analysis too: if the crate moves its guards from local to    *)
(* local, every guard that some lock call of its body reaches gets its lock*)
(* object.                                                                 *)
THEOREM AnalysisReceivers == AnalysisSpec => [](LP!Traceable => ReceiversFound)
<1> DEFINE Inv == GroupInv /\ CollectedInv
<1>1. AnalysisInit => Inv
  BY InitGroupInv DEF AnalysisInit, ConstructionInit, CollectedInv, Unread, BeforeLocks
<1>2. Inv /\ [AnalysisNext]_allVars => Inv'
  BY StepGroupInv, StepCollectedInv
<1>3. Inv => (LP!Traceable => ReceiversFound)
  <2>1. Unread => ReceiversFound
    BY SameReceivers DEF Unread, LP!ReceiversFound
  <2>2. LP!ReceiverInv => ReceiversFound
    BY SameReceivers DEF LP!ReceiverInv, LP!GuardsFollowed, LP!ReceiversFound
  <2> QED
    BY <2>1, <2>2 DEF CollectedInv
<1> QED
  BY <1>1, <1>2, <1>3, PTL DEF AnalysisSpec
=============================================================================
