------------------------ MODULE MCAtomicityDetector ------------------------
(***************************************************************************)
(* State graphs of two or three threads over the atomics x and y.  A       *)
(* thread is a sequence of edges of its control flow graph; transition     *)
(* 10 * i + n is the n-th edge of thread i, and a state of the graph is    *)
(* the tuple of the positions of the threads.                              *)
(***************************************************************************)
EXTENDS AtomicityDetector

Edge(from, to, kind, var) == [from |-> from, to |-> to, kind |-> kind, var |-> var]

Straight(kinds) == [n \in DOMAIN kinds |-> Edge(n, n + 1, kinds[n], "x")]

(* Waits for x in a loop, then goes on with the operation of the given kind. *)
Spinning(kind) == << Edge(1, 1, "Load", "x"), Edge(1, 2, "Load", "x"), Edge(2, 3, kind, "x") >>

(* Two ways from 1 to 3, each with a load of its own. *)
Branching(kind) ==
  << Edge(1, 2, "Load", "x"), Edge(1, 3, "Load", "x"),
     Edge(2, 4, "None", "x"), Edge(3, 4, "None", "x"), Edge(4, 5, kind, "x") >>

Mixed == << Edge(1, 2, "Load", "x"), Edge(2, 3, "Store", "y"), Edge(3, 4, "Load", "x"),
            Edge(4, 5, "Load", "y") >>

GraphOf(threads) ==
  LET ids == UNION {{10 * i + n : n \in DOMAIN threads[i]} : i \in DOMAIN threads}
      owner(t) == t \div 10
      edge(t) == threads[owner(t)][t % 10]
      positions(i) == UNION {{threads[i][n].from, threads[i][n].to} : n \in DOMAIN threads[i]}
      nodes == {s \in [DOMAIN threads -> 1 .. 5] : \A i \in DOMAIN threads : s[i] \in positions(i)}
      step(t) == {<<s, t, [s EXCEPT ![owner(t)] = edge(t).to]>> :
                    s \in {u \in nodes : u[owner(t)] = edge(t).from}}
  IN  [initial |-> [i \in DOMAIN threads |-> 1],
       edges |-> UNION {step(t) : t \in ids},
       op |-> [t \in ids |-> [kind |-> edge(t).kind, tid |-> owner(t), var |-> edge(t).var]]]

Kinds == {"Load", "Store", "CmpXchg"}

SmallThreads ==
  {<<Straight(p), Straight(q)>> : p \in [1 .. 3 -> Kinds], q \in [1 .. 2 -> Kinds]}
  \cup {<<Straight(p), Straight(<<"Store">>), Straight(<<k>>)>> :
          p \in [1 .. 2 -> {"Load", "Store"}], k \in Kinds}
  \cup {<<Mixed, Straight(<<"Store", "Load">>)>>,
        <<Mixed, << Edge(1, 2, "Store", "x"), Edge(2, 3, "Store", "y") >> >>}
  \cup {<<Spinning(k), Straight(<<"Store">>)>> : k \in Kinds}
  \cup {<<Branching(k), Straight(<<"Store">>)>> : k \in Kinds}

Graphs == {GraphOf(threads) : threads \in SmallThreads}
=============================================================================
