------------------------- MODULE AtomicityDetector -------------------------
(***************************************************************************)
(* The search for atomicity violations of detect/atomicity_violation.rs.   *)
(*                                                                         *)
(* A violation is an interval of thread i on one variable, opened by a     *)
(* start operation and closed by an end operation, into which thread j     *)
(* stores.  detect_witnesses() walks the state graph depth first.  A frame *)
(* of its stack is a walk from the initial state together with what the    *)
(* matcher remembers of it; a frame whose fingerprint (state and memory of *)
(* the matcher) was expanded before is pruned.                             *)
(***************************************************************************)
EXTENDS Naturals, FiniteSets, SequencesExt

CONSTANTS
  StateGraphs,   \* [initial, edges, op]: edges are <<state, transition, state>>,
                 \* op maps a transition (a number) to [kind, tid, var]
  MaxStates,
  MaxDepth

ASSUME LimitsAssumption == MaxStates \in Nat /\ MaxDepth \in Nat

(* A state graph has finitely many edges, each of a transition of the net. *)
ASSUME GraphAssumption ==
  \A g \in StateGraphs : IsFiniteSet(g.edges) /\ \A e \in g.edges : e[2] \in DOMAIN g.op

VARIABLES
  graph,     \* the state graph searched
  stack,     \* frames [node, trace, memory]
  visited,   \* fingerprints of the expanded frames
  seen,      \* witnesses <<rule, start, mid, end>> (transitions)
  report     \* patterns reported; {} until the search is over

vars == <<graph, stack, visited, seen, report>>

(* RULES: AV1, AV2, AV3. *)
Rules ==
  << [start |-> "Load",  mid |-> "Store", end |-> "Store"],
     [start |-> "Store", mid |-> "Store", end |-> "Load"],
     [start |-> "Load",  mid |-> "Store", end |-> "Load"] >>

RuleId == DOMAIN Rules

(* parse_event: a compare-exchange counts as a store, other transitions     *)
(* are no events ("None").                                                  *)
KindOf(t) == IF graph.op[t].kind = "CmpXchg" THEN "Store" ELSE graph.op[t].kind

Tid(t) == graph.op[t].tid
Var(t) == graph.op[t].var
KeyOf(t) == <<Var(t), Tid(t)>>

IsEvent(t) == KindOf(t) # "None"
IsStart(r, t) == KindOf(t) = Rules[r].start
IsMid(r, t) == KindOf(t) = Rules[r].mid
IsEnd(r, t) == KindOf(t) = Rules[r].end
-----------------------------------------------------------------------------
(* try_match.  The memory of a rule is a record of two maps:                *)
(*   last  (var, tid) -> index of the last start                            *)
(*   saw   (var, tid) -> (intruder -> index of its last store since)        *)

Without(f, ks) == [k \in DOMAIN f \ ks |-> f[k]]

With(f, k, v) == [h \in DOMAIN f \cup {k} |-> IF h = k THEN v ELSE f[h]]

Forgotten == [last |-> <<>>, saw |-> <<>>]

(* Intruders whose interval the event closes. *)
Closed(m, r, t, now) ==
  IF IsEnd(r, t) /\ KeyOf(t) \in DOMAIN m.last /\ KeyOf(t) \in DOMAIN m.saw
    THEN LET in == m.saw[KeyOf(t)]
         IN  {j \in DOMAIN in : m.last[KeyOf(t)] < in[j] /\ in[j] < now}
    ELSE {}

AfterEnd(m, r, t, now) ==
  LET closed == Closed(m, r, t, now)
      left == Without(m.saw[KeyOf(t)], closed)
  IN  IF ~IsEnd(r, t) \/ KeyOf(t) \notin DOMAIN m.saw \/ KeyOf(t) \notin DOMAIN m.last THEN m
      ELSE IF DOMAIN left = {} THEN [m EXCEPT !.saw = Without(@, {KeyOf(t)})]
      ELSE [m EXCEPT !.saw[KeyOf(t)] = left]

(* Mutant: a thread intrudes into its own intervals. *)
AfterMidMut(m, r, t, now) ==
  LET keys == {k \in DOMAIN m.last : k[1] = Var(t)}
      before(k) == IF k \in DOMAIN m.saw THEN m.saw[k] ELSE <<>>
  IN  IF ~IsMid(r, t) THEN m
      ELSE [m EXCEPT !.saw = [k \in keys \cup DOMAIN m.saw |->
                                IF k \in keys THEN With(before(k), Tid(t), now) ELSE @[k]]]

AfterMid(m, r, t, now) ==
  LET keys == {k \in DOMAIN m.last : k[1] = Var(t) /\ k[2] # Tid(t)}
      before(k) == IF k \in DOMAIN m.saw THEN m.saw[k] ELSE <<>>
  IN  IF ~IsMid(r, t) THEN m
      ELSE [m EXCEPT !.saw = [k \in keys \cup DOMAIN m.saw |->
                                IF k \in keys THEN With(before(k), Tid(t), now) ELSE @[k]]]

(* Mutant: the intruders of the previous interval are kept. *)
AfterStartMut(m, r, t, now) ==
  IF ~IsStart(r, t) THEN m
  ELSE [last |-> With(m.last, KeyOf(t), now), saw |-> m.saw]

AfterStart(m, r, t, now) ==
  IF ~IsStart(r, t) THEN m
  ELSE [last |-> With(m.last, KeyOf(t), now), saw |-> Without(m.saw, {KeyOf(t)})]

Matched(m, r, t, now) ==
  IF ~IsEvent(t) THEN m
  ELSE AfterStart(AfterMid(AfterEnd(m, r, t, now), r, t, now), r, t, now)
-----------------------------------------------------------------------------
(* detect_witnesses *)

Truncated(fr) == Cardinality(visited) >= MaxStates \/ Len(fr.trace) >= MaxDepth

(* Mutant: a state is expanded once, whatever the matcher remembers. *)
FingerprintMut(fr) == [node |-> fr.node]

(* Which transitions the walk took is not part of the fingerprint. *)
Fingerprint(fr) == [node |-> fr.node, memory |-> fr.memory]

(* edges.sort_by_key *)
Outgoing(n) ==
  {s \in SetToSeqs({e \in graph.edges : e[1] = n}) :
     \A i, j \in DOMAIN s : i < j => s[i][2] <= s[j][2]}

Extended(fr, e) ==
  LET now == Len(fr.trace) + 1
  IN  [node |-> e[3], trace |-> Append(fr.trace, e[2]),
       memory |-> [r \in RuleId |-> Matched(fr.memory[r], r, e[2], now)]]

Witnesses(fr, e) ==
  LET now == Len(fr.trace) + 1
      new(r) == {<<r, fr.trace[fr.memory[r].last[KeyOf(e[2])]],
                   fr.trace[fr.memory[r].saw[KeyOf(e[2])][j]], e[2]>> :
                     j \in Closed(fr.memory[r], r, e[2], now)}
  IN  IF IsEvent(e[2]) THEN UNION {new(r) : r \in RuleId} ELSE {}

Init ==
  /\ graph \in StateGraphs
  /\ stack = IF MaxStates = 0 THEN <<>>
             ELSE <<[node |-> graph.initial, trace |-> <<>>,
                     memory |-> [r \in RuleId |-> Forgotten]]>>
  /\ visited = {}
  /\ seen = {}
  /\ report = {}

(* A frame past the limits, or expanded before, is dropped. *)
Drop ==
  /\ stack # <<>>
  /\ \/ Truncated(Last(stack))
     \/ Fingerprint(Last(stack)) \in visited
  /\ stack' = Front(stack)
  /\ UNCHANGED <<graph, visited, seen, report>>

(* The limits are looked at again before every edge, after the frame itself *)
(* was counted.                                                             *)
Expand ==
  /\ stack # <<>>
  /\ LET fr == Last(stack)
         counted == visited \cup {Fingerprint(fr)}
     IN  /\ ~Truncated(fr)
         /\ Fingerprint(fr) \notin visited
         /\ visited' = counted
         /\ \E out \in IF Cardinality(counted) >= MaxStates THEN {<<>>} ELSE Outgoing(fr.node) :
              /\ seen' = seen \cup UNION {Witnesses(fr, out[i]) : i \in DOMAIN out}
              /\ stack' = Front(stack) \o [i \in DOMAIN out |-> Extended(fr, out[i])]
  /\ UNCHANGED <<graph, report>>

(* dedupe_patterns: of an AV3 the closing load is not part of the pattern.  *)
PatternOf(w) ==
  CASE w[1] = 1 -> [load |-> w[2], stores |-> <<w[3], w[4]>>]
    [] w[1] = 2 -> [load |-> w[4], stores |-> <<w[2], w[3]>>]
    [] w[1] = 3 -> [load |-> w[2], stores |-> <<w[3]>>]

Report ==
  /\ stack = <<>>
  /\ report = {}
  /\ seen # {}
  /\ report' = {PatternOf(w) : w \in seen}
  /\ UNCHANGED <<graph, stack, visited, seen>>

Done == stack = <<>> /\ (seen # {} => report # {})

Next == Drop \/ Expand \/ Report \/ (Done /\ UNCHANGED vars)

Spec == Init /\ [][Next]_vars
-----------------------------------------------------------------------------
TransitionIds == DOMAIN graph.op

Since(trace, k) == (k + 1) .. Len(trace)

(* What the walk says of rule r: the last start of every thread on every    *)
(* variable, and of the stores of others since then the last one of each    *)
(* thread that no end has consumed.                                         *)
Mirrors(tr, m, r) ==
  LET starts(k) == {i \in DOMAIN tr : IsStart(r, tr[i]) /\ KeyOf(tr[i]) = k}
      ends(k, i) == \E e \in Since(tr, i) : IsEnd(r, tr[e]) /\ KeyOf(tr[e]) = k
      stores(k, j) == {i \in Since(tr, m.last[k]) :
                         /\ IsMid(r, tr[i])
                         /\ KeyOf(tr[i]) = <<k[1], j>>
                         /\ ~ends(k, i)}
      others(k) == {KeyOf(tr[i])[2] : i \in DOMAIN tr} \ {k[2]}
      intruders(k) == {j \in others(k) : stores(k, j) # {}}
  IN  /\ DOMAIN m.last = {KeyOf(tr[i]) : i \in {h \in DOMAIN tr : IsStart(r, tr[h])}}
      /\ \A k \in DOMAIN m.last : m.last[k] = Max(starts(k))
      /\ DOMAIN m.saw = {k \in DOMAIN m.last : intruders(k) # {}}
      /\ \A k \in DOMAIN m.saw : /\ DOMAIN m.saw[k] = intruders(k)
                                 /\ \A j \in intruders(k) : m.saw[k][j] = Max(stores(k, j))

(* What the matcher keeps up to date event by event is what the whole walk  *)
(* says (try_match).                                                        *)
MemoryMirrorsTrace ==
  \A n \in DOMAIN stack : \A r \in RuleId : Mirrors(stack[n].trace, stack[n].memory[r], r)

(* The states reached from n by walks that take only transitions of ts. *)
Reached(n, ts) ==
  LET within[k \in Nat] ==
        IF k = 0 THEN {n}
        ELSE LET before == within[k - 1]
             IN  before \cup {e[3] : e \in {d \in graph.edges : d[1] \in before /\ d[2] \in ts}}
  IN  within[Cardinality(graph.edges)]

EdgesOf(t) == {e \in graph.edges : e[2] = t}

(* Some run takes s, later m and later e: between s and m transitions of   *)
(* us alone, between m and e transitions of vs alone.                      *)
Runs(s, us, m, vs, e) ==
  \E a \in EdgesOf(s) :
    /\ a[1] \in Reached(graph.initial, TransitionIds)
    /\ \E b \in EdgesOf(m) :
         /\ b[1] \in Reached(a[3], us)
         /\ \E c \in EdgesOf(e) : c[1] \in Reached(b[3], vs)

IsTriple(r, s, m, e) ==
  /\ IsStart(r, s) /\ IsMid(r, m) /\ IsEnd(r, e)
  /\ KeyOf(s) = KeyOf(e)
  /\ Var(s) = Var(m) /\ Tid(s) # Tid(m)

(* Transitions that do not open a new interval of the thread of s. *)
NoRestart(r, s) == {t \in TransitionIds : ~(IsStart(r, t) /\ KeyOf(t) = KeyOf(s))}

(* A witness is a violation: the three operations have the kinds of the     *)
(* rule, two are of one thread and one of another, all on one variable, and *)
(* some run of the program executes them in this order with no new interval *)
(* of the thread in between.                                                *)
WitnessesReal ==
  \A w \in seen :
    LET during == NoRestart(w[1], w[2])
    IN  IsTriple(w[1], w[2], w[3], w[4]) /\ Runs(w[2], during, w[3], during, w[4])

(* No run takes MaxDepth steps. *)
Shallow ==
  LET after[k \in Nat] ==
        IF k = 0 THEN {graph.initial}
        ELSE LET before == after[k - 1]
             IN  {e[3] : e \in {d \in graph.edges : d[1] \in before}}
  IN  after[MaxDepth] = {}

(* The search is over and no frame was dropped for a limit. *)
Exhausted == Done /\ Shallow /\ Cardinality(visited) < MaxStates

(* Pruning loses no kind of violation: if some run breaks an interval of    *)
(* thread i by a store of j, a violation of that rule between these threads *)
(* on this variable is reported.                                            *)
ViolationsFound ==
  Exhausted =>
    \A r \in RuleId : \A s, m, e \in TransitionIds :
      IsTriple(r, s, m, e) /\ Runs(s, TransitionIds, m, NoRestart(r, s), e) =>
        \E w \in seen :
           /\ w[1] = r /\ KeyOf(w[2]) = KeyOf(s) /\ Tid(w[3]) = Tid(m)
           /\ PatternOf(w) \in report
=============================================================================
