--------------------------- MODULE DeadlockReport ---------------------------
(***************************************************************************)
(* What detect/deadlock.rs tells of a deadlocked state: the transitions    *)
(* that wait for resources, and for each a trace of who took the missing   *)
(* tokens, read backwards from a shortest path to the state.               *)
(*                                                                         *)
(* A graph whose net is known has a field net:                             *)
(*   resources   the places that are resources; the others are control     *)
(*   capacity    place -> capacity                                         *)
(*   trans       transition -> [in, out, thread]; arcs are place -> weight *)
(*   marking     state -> place -> tokens                                  *)
(*   initial     the initial state                                         *)
(*   holders     state -> resource -> threads that hold it, of which only  *)
(*               the properties know                                       *)
(* The explanations of several transitions have nothing in common, so one  *)
(* is followed, any of them.                                               *)
(***************************************************************************)
EXTENDS DeadlockDetector, SequencesExt

(* The graph is what is explored from the initial state; and who takes the  *)
(* single token of a resource holds it, for as long as there is none.       *)
NetWellFormed(g) ==
  LET net == g.net
      tokens(n, p) == net.marking[n][p]
  IN  /\ net.initial \in g.nodes
      /\ g.nodes \subseteq ReachableIn(g, net.initial)
      /\ \A n \in g.nodes, p \in net.resources : tokens(n, p) \in Nat
      /\ \A e \in g.edges, p \in net.resources :
           tokens(net.initial, p) = 1 =>
             /\ tokens(e.from, p) > tokens(e.to, p) =>
                  net.trans[e.trans].thread \in net.holders[e.to][p]
             /\ tokens(e.from, p) = 0 /\ tokens(e.to, p) = 0 =>
                  net.holders[e.from][p] \subseteq net.holders[e.to][p]

ASSUME NetAssumption == \A g \in Graphs : "net" \in DOMAIN g => NetWellFormed(g)

VARIABLES
  subject,     \* <<state, transition>> explained; <<>> before
  step,        \* "none", "search", "trace" or "explained"
  remaining,   \* resource -> tokens still to be accounted for
  queue,       \* states the breadth-first search has still to leave
  reached,     \* states it has found
  previous,    \* state found -> the edge it was found by
  at,          \* where the walk back is
  trace        \* steps [edge, places] of the trace, the latest first

reportVars == <<subject, step, remaining, queue, reached, previous, at, trace>>

Net == graph.net

Weight(arcs, p) == IF p \in DOMAIN arcs THEN arcs[p] ELSE 0
In(t, p) == Weight(Net.trans[t].in, p)
OutOf(t, p) == Weight(Net.trans[t].out, p)
Tokens(n, p) == Net.marking[n][p]
InitialTokens(p) == Tokens(Net.initial, p)
AfterFiring(n, t, p) == (Tokens(n, p) - In(t, p)) + OutOf(t, p)

(* fire_transition(...).is_ok() *)
CanFire(n, t) ==
  /\ \A p \in DOMAIN Net.trans[t].in : Tokens(n, p) >= In(t, p)
  /\ \A p \in DOMAIN Net.trans[t].out : AfterFiring(n, t, p) =< Net.capacity[p]

ControlInputs(t) == DOMAIN Net.trans[t].in \ Net.resources

(* A resource that is as full as at the start is not what is missing. *)
Untouched(n, p) == Tokens(n, p) > 0 /\ Tokens(n, p) >= InitialTokens(p)

Missing(n, t) ==
  {p \in Net.resources : Tokens(n, p) < In(t, p) /\ ~Untouched(n, p)}

Overfull(n, t) ==
  {p \in Net.resources : /\ OutOf(t, p) > 0
                         /\ Tokens(n, p) >= In(t, p)
                         /\ AfterFiring(n, t, p) > Net.capacity[p]
                         /\ ~Untouched(n, p)}

NeededResources(n, t) == Missing(n, t) \cup Overfull(n, t)

(* find_blocked_resource_transitions: its thread stands before it, and a    *)
(* resource is in the way.                                                  *)
BlockedTransitions(n) ==
  {t \in DOMAIN Net.trans :
     /\ ~CanFire(n, t)
     /\ ControlInputs(t) # {}
     /\ \A p \in ControlInputs(t) : Tokens(n, p) >= In(t, p)
     /\ NeededResources(n, t) # {}}

Deficits(n, places) ==
  [p \in {q \in places : Tokens(n, q) < InitialTokens(q)} |-> InitialTokens(p) - Tokens(n, p)]

ReportInit ==
  /\ Init
  /\ subject = <<>> /\ step = "none" /\ remaining = <<>>
  /\ queue = <<>> /\ reached = {} /\ previous = <<>> /\ at = 0 /\ trace = <<>>

(* trace_resource_usage, up to the call of path_to_state. *)
Explain(n, t) ==
  /\ phase = "done"
  /\ subject = <<>>
  /\ t \in BlockedTransitions(n)
  /\ subject' = <<n, t>>
  /\ remaining' = Deficits(n, NeededResources(n, t))
  /\ step' = IF remaining' = <<>> THEN "explained" ELSE "search"
  /\ queue' = <<Net.initial>>
  /\ reached' = {Net.initial}
  /\ UNCHANGED <<vars, previous, at, trace>>

Target == subject[1]

Found == queue = <<>> \/ Head(queue) = Target

(* Mutant: what is found last is left first. *)
LeaveMut ==
  /\ step = "search"
  /\ ~Found
  /\ LET new == {e.to : e \in Out(Head(queue))} \ reached
     IN  /\ reached' = reached \cup new
         /\ \E order \in SetToSeqs(new) : queue' = order \o Tail(queue)
         /\ \E edge \in [new -> Out(Head(queue))] :
              /\ \A m \in new : edge[m].to = m
              /\ previous' = [m \in new \cup DOMAIN previous |->
                               IF m \in new THEN edge[m] ELSE previous[m]]
  /\ UNCHANGED <<vars, subject, step, remaining, at, trace>>

(* One turn of the search of path_to_state: the edges come in any order. *)
Leave ==
  /\ step = "search"
  /\ ~Found
  /\ LET new == {e.to : e \in Out(Head(queue))} \ reached
     IN  /\ reached' = reached \cup new
         /\ \E order \in SetToSeqs(new) : queue' = Tail(queue) \o order
         /\ \E edge \in [new -> Out(Head(queue))] :
              /\ \A m \in new : edge[m].to = m
              /\ previous' = [m \in new \cup DOMAIN previous |->
                               IF m \in new THEN edge[m] ELSE previous[m]]
  /\ UNCHANGED <<vars, subject, step, remaining, at, trace>>

EndSearch ==
  /\ step = "search"
  /\ Found
  /\ step' = "trace"
  /\ at' = IF Target \in reached THEN Target ELSE Net.initial
  /\ UNCHANGED <<vars, subject, remaining, queue, reached, previous, trace>>

Consumed(e, p) == Tokens(e.from, p) - Tokens(e.to, p)

(* Mutant: the steps that give tokens back are taken for those that take.   *)
TakersMut(e) == {p \in DOMAIN remaining : Tokens(e.from, p) < Tokens(e.to, p)}

Takers(e) == {p \in DOMAIN remaining : Tokens(e.from, p) > Tokens(e.to, p)}

(* One edge of the path, which is walked from its end. *)
TraceBack ==
  /\ step = "trace"
  /\ at # Net.initial /\ remaining # <<>>
  /\ LET e == previous[at]
         taken == Takers(e)
         left == {p \in DOMAIN remaining : p \in taken => remaining[p] > Consumed(e, p)}
     IN  /\ trace' = IF taken = {} THEN trace
                     ELSE Append(trace, [edge |-> e, places |-> taken])
         /\ remaining' = [p \in left |-> IF p \in taken THEN remaining[p] - Consumed(e, p)
                                         ELSE remaining[p]]
         /\ at' = e.from
  /\ UNCHANGED <<vars, subject, step, queue, reached, previous>>

EndTrace ==
  /\ step = "trace"
  /\ at = Net.initial \/ remaining = <<>>
  /\ step' = "explained"
  /\ UNCHANGED <<vars, subject, remaining, queue, reached, previous, at, trace>>

Detect == Search /\ UNCHANGED reportVars

(* Without a net there is nothing to tell. *)
ExplainAny == "net" \in DOMAIN graph /\ \E n \in deadlocks : \E t \in DOMAIN Net.trans : Explain(n, t)

Reported ==
  /\ phase = "done"
  /\ step \in {"none", "explained"}
  /\ UNCHANGED <<vars, reportVars>>

ReportNext == Detect \/ ExplainAny \/ Leave \/ EndSearch \/ TraceBack \/ EndTrace \/ Reported

ReportSpec ==
  ReportInit /\ [][ReportNext]_<<vars, reportVars>> /\ WF_<<vars, reportVars>>(ReportNext)
-----------------------------------------------------------------------------
(* The length of the shortest run to n: the first level it is reached on.   *)
Distance(n) ==
  LET within[k \in Nat] ==
        IF k = 0 THEN {Net.initial}
        ELSE LET before == within[k - 1]
             IN  before \cup {e.to : e \in {d \in graph.edges : d.from \in before}}
  IN  Min({k \in 0 .. Cardinality(graph.nodes) : n \in within[k]})

(* The path a trace is read from is a shortest run of the net: each state   *)
(* was found by an edge from a state one step nearer to the initial one,    *)
(* also where there are loops and several ways, and the walk back ends      *)
(* there.                                                                   *)
PathIsShortest ==
  \A m \in DOMAIN previous :
    /\ previous[m] \in graph.edges
    /\ previous[m].to = m
    /\ Distance(m) = Distance(previous[m].from) + 1

NamedFor(p) == {trace[i].edge : i \in {k \in DOMAIN trace : p \in trace[k].places}}

(* An explanation accounts for all the tokens that are missing, and for a   *)
(* lock with a single token it names the thread that holds it: not one that *)
(* held it earlier on the way, nor one that waits for it.  (Of readers that *)
(* came and went the last to come is named.)                                *)
HoldersNamed ==
  step = "explained" =>
    LET n == subject[1]
        missing == DOMAIN Deficits(n, NeededResources(n, subject[2]))
    IN  /\ remaining = <<>>
        /\ \A p \in missing :
             /\ NamedFor(p) # {}
             /\ InitialTokens(p) = 1 =>
                  \A e \in NamedFor(p) : Net.trans[e.trans].thread \in Net.holders[n][p]
=============================================================================
