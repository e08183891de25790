------------------------ MODULE MCDeadlockDetector ------------------------
(***************************************************************************)
(* Graphs of four states without a net: state 0 acquires lock a and leads  *)
(* to state 1; at most two edges leave states 1 and 2, those of state 2    *)
(* acquire lock b, and up to three leave state 3, one of which acquires b. *)
(*                                                                         *)
(* And the graphs of small nets, two threads that each run a list of       *)
(* operations, once or in a loop.                                          *)
(***************************************************************************)
EXTENDS DeadlockReport

CONSTANTS a, b, none

Entry == [from |-> 0, to |-> 1, lock |-> a]

Edges(n, l, succs) == {[from |-> n, to |-> m, lock |-> l] : m \in succs}

UpTo(k, ns) == {s \in SUBSET ns : Cardinality(s) =< k}

ShapeGraphs ==
  {[nodes |-> 0 .. 3,
    edges |-> {Entry} \cup Edges(1, none, s1) \cup Edges(2, b, s2)
              \cup Edges(3, none, s3) \cup Edges(3, b, s4),
    exits |-> x] :
     s1 \in UpTo(2, 1 .. 3), s2, s3 \in UpTo(2, 0 .. 3), s4 \in UpTo(1, 0 .. 3),
     x \in {{}, {1, 3}}}
-----------------------------------------------------------------------------
(* Resources: two locks, an RwLock and a channel of one message. *)
LockA == <<"lock", "a">>
LockB == <<"lock", "b">>
Rw == <<"rwlock", "r">>
Channel == <<"channel", "c">>
Resources == {LockA, LockB, Rw, Channel}
Capacity == (LockA :> 1) @@ (LockB :> 1) @@ (Rw :> 10) @@ (Channel :> 1)
Start == [Capacity EXCEPT ![Channel] = 0]

(* skip: operations that a branch may leave out. *)
Op(take, give, lock) == [take |-> take, give |-> give, lock |-> lock, skip |-> 0]
Labels == (LockA :> a) @@ (LockB :> b)
Acquire(l) == Op(l :> 1, <<>>, Labels[l])
Release(l) == Op(<<>>, l :> 1, none)
Maybe(n, op) == [op EXCEPT !.skip = n]
Read == Op(Rw :> 1, <<>>, none)
Unread == Op(<<>>, Rw :> 1, none)
WriteLock == Op(Rw :> 10, <<>>, none)
Send == Op(<<>>, Channel :> 1, none)
Recv == Op(Channel :> 1, <<>>, none)
Join(th, pc) == Op(<<th, pc>> :> 1, <<>>, none)

AB == << Acquire(LockA), Acquire(LockB), Release(LockB), Release(LockA) >>
BA == << Acquire(LockB), Acquire(LockA), Release(LockA), Release(LockB) >>
TwiceA == << Maybe(2, Acquire(LockA)), Release(LockA) >> \o AB
LoopA == << Acquire(LockA), Release(LockA) >>
BB == << Acquire(LockB), Acquire(LockB) >>

(* What main and the other thread do, and who runs in a loop. *)
Code(main, other, loops) == [code |-> [main |-> main, other |-> other], loops |-> loops]

Codes ==
  { Code(AB, BA, {}), Code(TwiceA, BA, {}), Code(AB, AB, {}),
    Code(LoopA, BB, {"main"}), Code(TwiceA, BB, {"main"}),
    Code(<< Read, Acquire(LockA) >>, << Read, Unread, Acquire(LockA), WriteLock >>, {}),
    Code(<< Acquire(LockA), Recv, Release(LockA) >>,
         << Acquire(LockA), Send, Release(LockA) >>, {}),
    Code(<< Send, Acquire(LockB), Send >>, BB, {}),
    Code(<< Acquire(LockA), Join("other", 3) >>, LoopA, {}) }
-----------------------------------------------------------------------------
Threads == {"main", "other"}

Places(c) ==
  Resources \cup UNION {{<<th, pc>> : pc \in 1 .. Len(c.code[th]) + 1} : th \in Threads}

Next1(c, th, pc) == IF th \in c.loops /\ pc > Len(c.code[th]) THEN 1 ELSE pc

Transitions(c) ==
  LET steps == UNION {{<<th, pc, k>> : pc \in DOMAIN c.code[th], k \in {"op", "skip"}} : th \in Threads}
      kept == {t \in steps : t[3] = "op" \/ c.code[t[1]][t[2]].skip > 0}
      from(t) == <<t[1], t[2]>> :> 1
      to(t, n) == <<t[1], Next1(c, t[1], t[2] + n)>> :> 1
      op(t) == c.code[t[1]][t[2]]
  IN  [t \in kept |->
         IF t[3] = "op"
           THEN [in |-> from(t) @@ op(t).take, out |-> to(t, 1) @@ op(t).give, thread |-> t[1]]
           ELSE [in |-> from(t), out |-> to(t, op(t).skip), thread |-> t[1]]]

StartMarking(c) ==
  [p \in Places(c) |-> IF p \in Resources THEN Start[p] ELSE IF p[2] = 1 THEN 1 ELSE 0]

(* Firings from marking m: transition -> marking. *)
Firings(c, ts, m) ==
  LET after(t) == [p \in DOMAIN m |-> (m[p] - Weight(ts[t].in, p)) + Weight(ts[t].out, p)]
      fires == {t \in DOMAIN ts : /\ \A p \in DOMAIN ts[t].in : m[p] >= ts[t].in[p]
                                  /\ \A p \in DOMAIN ts[t].out \cap Resources :
                                       after(t)[p] =< Capacity[p]}
  IN  [t \in fires |-> after(t)]

(* The markings level by level, as the explorer numbers them. *)
Explored(c, ts) ==
  LET levels[k \in Nat] ==
        IF k = 0 THEN << StartMarking(c) >>
        ELSE LET before == levels[k - 1]
                 new == UNION {Range(Firings(c, ts, before[i])) : i \in DOMAIN before}
                          \ Range(before)
             IN  IF new = {} THEN before ELSE before \o SetToSeq(new)
  IN  levels[Cardinality(DOMAIN ts) + 2]

(* Threads that have taken more of p than given back, for each p. *)
HeldBy(c, m) ==
  LET taken(th, pc, p) == {i \in 1 .. pc - 1 : p \in DOMAIN c.code[th][i].take}
      given(th, pc, p) == {i \in 1 .. pc - 1 : p \in DOMAIN c.code[th][i].give}
  IN  [p \in Resources |->
         {th \in Threads : \E pc \in 1 .. Len(c.code[th]) + 1 :
            /\ m[<<th, pc>>] = 1
            /\ Cardinality(taken(th, pc, p)) > Cardinality(given(th, pc, p))}]

GraphOf(c) ==
  LET ts == Transitions(c)
      ms == Explored(c, ts)
      index(m) == CHOOSE i \in DOMAIN ms : ms[i] = m
      label(t) == IF t[3] = "op" THEN c.code[t[1]][t[2]].lock ELSE none
      leaving(i) == LET fs == Firings(c, ts, ms[i])
                    IN  {[from |-> i - 1, to |-> index(fs[t]) - 1, lock |-> label(t), trans |-> t] :
                           t \in DOMAIN fs}
      nodes == 0 .. Len(ms) - 1
  IN  [nodes |-> nodes,
       edges |-> UNION {leaving(i) : i \in DOMAIN ms},
       exits |-> {n \in nodes : ms[n + 1][<<"main", Len(c.code["main"]) + 1>>] = 1},
       net |-> [resources |-> Resources, trans |-> ts, initial |-> 0,
                capacity |-> [p \in Places(c) |-> IF p \in Resources THEN Capacity[p] ELSE 1],
                marking |-> [n \in nodes |-> ms[n + 1]],
                holders |-> [n \in nodes |-> HeldBy(c, ms[n + 1])]]]

States == 0 .. 40

SmallGraphs == ShapeGraphs \cup {GraphOf(c) : c \in Codes}
=============================================================================
