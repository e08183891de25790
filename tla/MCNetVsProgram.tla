-------------------------- MODULE MCNetVsProgram --------------------------
(***************************************************************************)
(* Programs of two or three threads.  SmallPrograms pairs every lock body  *)
(* in main with every one in a spawned worker; the others use one feature  *)
(* of the translation each.  A local is <<function, name>>.                *)
(***************************************************************************)
EXTENDS NetVsProgram_proofs

No(f) == <<f, "none">>
Following == <<99>>       \* the next block; replaced by Straight

Tm(op, api, args, dest, callee, targets) ==
  [op |-> op, api |-> api, args |-> args, dest |-> dest, callee |-> callee,
   targets |-> targets, diverges |-> FALSE]

Blk(t) == [cleanup |-> FALSE, empty |-> FALSE, pending |-> FALSE, moves |-> <<>>,
           accesses |-> {}, term |-> t]

CallB(f, api, args, dest) ==
  Blk(Tm("call", api, [i \in DOMAIN args |-> <<f, args[i]>>], <<f, dest>>, "none", Following))
CallFn(f, callee) == Blk(Tm("call", "plain", <<>>, No(f), callee, Following))
Lk(f, g) == CallB(f, "lock", <<>>, g)
Un(f, g) == Blk(Tm("drop", "none", <<<<f, g>>>>, No(f), "none", Following))
Go(f, op, targets) == Blk(Tm(op, "none", <<>>, No(f), "none", targets))
Ret(f) == Go(f, "return", <<>>)
Cleanup(f) == [Go(f, "terminal", <<>>) EXCEPT !.cleanup = TRUE]
EmptyB(f) == [Go(f, "terminal", <<>>) EXCEPT !.empty = TRUE]
Accessing(acc, blk) == [blk EXCEPT !.accesses = acc]
Moving(dst, src, blk) == [blk EXCEPT !.moves = <<<<dst, src>>>>]

Straight(bs) ==
  [i \in DOMAIN bs |-> IF bs[i].term.targets = Following
                         THEN [bs[i] EXCEPT !.term.targets = <<i>>] ELSE bs[i]]

(* The body of f whose blocks start at n. *)
Read == <<"x", FALSE>>
Write == <<"x", TRUE>>

LockBodies(f, n) ==
  { <<Lk(f, "a"), Lk(f, "b"), Un(f, "b"), Un(f, "a")>>,
    <<Lk(f, "b"), Lk(f, "a"), Un(f, "b"), Un(f, "a")>>,
    <<Accessing({Read}, Lk(f, "r")), Un(f, "r")>>,
    <<Lk(f, "w"), Accessing({Read, Write}, Un(f, "w"))>>,
    <<Lk(f, "r"), Go(f, "switch", <<n + 2, n + 3>>), Lk(f, "a"), Un(f, "r"),
      Go(f, "goto", Following)>>,
    <<Lk(f, "a"), Un(f, "a"), Go(f, "switch", <<n, n + 3>>)>>,
    <<Lk(f, "r"), Lk(f, "w"), Un(f, "w"), Un(f, "r")>> }

GuardsOf(f) == {<<f, "a">>, <<f, "b">>, <<f, "r">>, <<f, "w">>}
GuardInfo(g) ==
  CASE g[2] = "a" -> [lock |-> "A", kind |-> "mutex"]
    [] g[2] = "b" -> [lock |-> "B", kind |-> "mutex"]
    [] g[2] = "r" -> [lock |-> "RW", kind |-> "read"]
    [] g[2] = "w" -> [lock |-> "RW", kind |-> "write"]

Program(nodes, body, closures, threads) ==
  [nodes |-> nodes, main |-> "main", ignored |-> {}, serde |-> {}, coroutine |-> {},
   scope |-> [f \in DOMAIN body |-> f], body |-> body,
   guard |-> [g \in UNION {GuardsOf(f) : f \in DOMAIN body} |-> GuardInfo(g)],
   result |-> <<>>, condvar |-> <<>>, channel |-> <<>>,
   atomic |-> <<>>, order |-> <<>>, segments |-> FALSE,
   closure |-> closures, thread |-> threads, mayJoin |-> [h \in DOMAIN threads |-> {}]]

W1 == <<"main", "c1">> :> "w1"
W2 == <<"main", "c2">> :> "w2"
H1 == <<"main", "h1">> :> "w1"
H2 == <<"main", "h2">> :> "w2"

Main(bs) == Straight(bs \o <<Ret("main")>>)
Worker(f, bs) == Straight(bs \o <<Ret(f)>>)
Spawn(c, h) == CallB("main", "spawn", <<c>>, h)
Join(h) == CallB("main", "join", <<h>>, "none")

SmallPrograms ==
  {Program(<<"main", "w1">>,
           [main |-> Main(<<Spawn("c1", "h1")>> \o b1 \o <<Join("h1")>>),
            w1 |-> Worker("w1", b2)],
           W1, H1) : b1 \in LockBodies("main", 1), b2 \in LockBodies("w1", 0)}

AB(f) == <<Lk(f, "a"), Lk(f, "b"), Un(f, "b"), Un(f, "a")>>
BA(f) == <<Lk(f, "b"), Lk(f, "a"), Un(f, "a"), Un(f, "b")>>
Readers(f) == <<Lk(f, "r"), Un(f, "r")>>

(* A called function, a closure run by an external function, a closure      *)
(* returned to; a skipped serialization function, a repeated instance.      *)
CallProgram ==
  [Program(<<"main", "w1", "help", "ser", "w2", "help">>,
     [main |-> Main(<<Spawn("c1", "h1"), Lk("main", "a"), CallFn("main", "help"),
                      Un("main", "a"), CallB("main", "plain", <<"x", "c2">>, "none"),
                      Join("h1")>>),
      help |-> Worker("help", <<Lk("help", "b"), Un("help", "b")>>),
      ser |-> <<Ret("ser")>>,
      w1 |-> Worker("w1", BA("w1")), w2 |-> Worker("w2", Readers("w2"))],
     W1 @@ W2, H1) EXCEPT !.ignored = {"ser"}, !.serde = {"ser"}]

(* Handles that were moved, that are not known, joined before their spawn   *)
(* in the order of the blocks.                                              *)
JoinPrograms ==
  { Program(<<"main", "w1", "w2">>,
      [main |-> Main(<<Spawn("c1", "h1"), Spawn("c2", "h2"),
                       Moving(<<"main", "h3">>, <<"main", "h2">>, Join("h3")),
                       Lk("main", "w"), Un("main", "w"), Join("h1")>>),
       w1 |-> Worker("w1", Readers("w1")), w2 |-> Worker("w2", Readers("w2"))],
      W1 @@ W2, H1 @@ H2 @@ (<<"main", "h3">> :> "w2")),
    Program(<<"main", "w1", "w2">>,
      [main |-> Main(<<Spawn("c1", "h0"), Spawn("c2", "h0"), Join("h1"), Join("h2")>>),
       w1 |-> Worker("w1", AB("w1")), w2 |-> Worker("w2", BA("w2"))],
      W1 @@ W2, H1 @@ H2),
    [Program(<<"main", "w1">>,
      [main |-> Straight(<<Go("main", "goto", <<2>>),
                           [Join("h1") EXCEPT !.term.targets = <<3>>],
                           [Spawn("c1", "h1") EXCEPT !.term.targets = <<1>>], Ret("main")>>),
       w1 |-> Worker("w1", AB("w1"))],
      W1, H1) EXCEPT !.mayJoin[<<"main", "h1">>] = {"w1"}] }

(* thread::scope and rayon::join *)
ScopeProgram ==
  Program(<<"main", "s", "w1", "w2">>,
    [main |-> Main(<<CallB("main", "plain", <<"cs">>, "none"), Lk("main", "a"), Un("main", "a")>>),
     s |-> Straight(<<CallB("s", "scopeSpawn", <<"x", "c1">>, "h1"),
                      CallB("s", "scopeSpawn", <<"x", "c2">>, "h2"), Ret("s")>>),
     w1 |-> Worker("w1", AB("w1")), w2 |-> Worker("w2", BA("w2"))],
    (<<"main", "cs">> :> "s") @@ (<<"s", "c1">> :> "w1") @@ (<<"s", "c2">> :> "w2"), <<>>)

RayonProgram ==
  Program(<<"main", "w1", "w2">>,
    [main |-> Main(<<Lk("main", "r"), CallB("main", "rayonJoin", <<"c1", "c2">>, "none"),
                     Un("main", "r")>>),
     w1 |-> Worker("w1", Readers("w1")),
     w2 |-> Worker("w2", <<Lk("w2", "a"), CallB("w2", "drop", <<"a">>, "none")>>)],
    W1 @@ W2, <<>>)

(* Two messages, one of them received under a lock. *)
ChannelProgram ==
  [Program(<<"main", "w1">>,
     [main |-> Main(<<Spawn("c1", "h1"), CallB("main", "send", <<"tx">>, "none"),
                      Lk("main", "a"), CallB("main", "send", <<"tx">>, "none"),
                      Un("main", "a"), Join("h1")>>),
      w1 |-> Worker("w1", <<CallB("w1", "recv", <<"rx">>, "none"), Lk("w1", "a"),
                            CallB("w1", "recv", <<"rx">>, "none"), Un("w1", "a")>>)],
     W1, H1) EXCEPT !.channel = [x \in {<<"main", "tx">>, <<"w1", "rx">>} |-> {"ch"}]]

(* One wait; the guard is taken out of the result by a pattern. *)
WaitBody(f) == <<Lk(f, "a"), CallB(f, "wait", <<"cv", "a">>, "res")>>

WaitProgram(after) ==
  [Program(<<"main", "w1">>,
     [main |-> Main(<<Spawn("c1", "h1"), Lk("main", "a"),
                      CallB("main", "notify", <<"cv">>, "none"), Un("main", "a"),
                      CallB("main", "notify", <<"other">>, "none"), Join("h1")>>),
      w1 |-> Worker("w1", WaitBody("w1") \o after)],
     W1, H1)
   EXCEPT !.condvar = [x \in {<<"main", "cv">>, <<"w1", "cv">>} |-> {"cv"}],
          !.result = <<"w1", "res">> :> [lock |-> "A", kind |-> "mutex"],
          !.guard = @ @@ (<<"w1", "g">> :> [lock |-> "A", kind |-> "mutex"])]

MatchedWait ==
  WaitProgram(<<Moving(<<"w1", "g">>, <<"w1", "res">>, Un("w1", "g"))>>)

(* let g = cvar.wait(g).unwrap(), the common form. *)
UnwrappedWait ==
  WaitProgram(<<CallB("w1", "forward", <<"res">>, "g"), Un("w1", "g")>>)

(* A coroutine that holds a lock across an await point. *)
AsyncProgram ==
  [Program(<<"main", "w1">>,
     [main |-> Main(<<Spawn("c1", "h1"), Lk("main", "a"), Un("main", "a"), Join("h1")>>),
      w1 |-> Straight(<<Go("w1", "switch", <<1, 2>>), Lk("w1", "a"),
                        CallB("w1", "plain", <<"fut">>, "none"),
                        Go("w1", "switch", <<4, 5>>),
                        [Ret("w1") EXCEPT !.pending = TRUE],
                        Un("w1", "a"), Ret("w1")>>)],
     W1, H1) EXCEPT !.coroutine = {"w1"}]

(* Ways out of main, and the calls that do nothing. *)
ExitProgram ==
  Program(<<"main", "w1">>,
    [main |-> Straight(
       <<Spawn("c1", "h1"),
         CallB("main", "fnptr", <<>>, "none"),
         Go("main", "assert", Following),
         Lk("main", "r"),
         Go("main", "fallthrough", Following),
         Go("main", "switch", <<6, 7, 8, 9, 11, 12>>),
         [CallB("main", "drop", <<"r">>, "none") EXCEPT !.term.targets = <<13>>],
         [CallB("main", "panic", <<>>, "none") EXCEPT !.term.targets = <<>>],
         Go("main", "goto", <<10>>),
         [CallB("main", "plain", <<>>, "none")
            EXCEPT !.term.targets = <<>>, !.term.diverges = TRUE],
         Cleanup("main"),
         EmptyB("main"),
         Go("main", "fallthrough", <<11>>),
         Go("main", "terminal", <<>>)>>),
     w1 |-> Worker("w1", <<Lk("w1", "r"), CallB("w1", "drop", <<"r">>, "none")>>)],
    W1, H1)

(* A visitor of the crate's own, krate::visit_tree: its name is on the      *)
(* ignore list, so it gets no places.                                       *)
IgnoredProgram ==
  [Program(<<"main", "visit_tree">>,
     [main |-> Main(<<Lk("main", "a"), CallFn("main", "visit_tree"), Un("main", "a")>>),
      visit_tree |-> Worker("visit_tree", <<Lk("visit_tree", "b"), Un("visit_tree", "b")>>)],
     <<>>, <<>>) EXCEPT !.ignored = {"visit_tree"}]

(* Two closures of a function named like test_read_write. *)
MergedSites ==
  [Program(<<"main", "w1", "w2">>,
     [main |-> Main(<<Spawn("c1", "h1"), Spawn("c2", "h2"), Join("h1"), Join("h2")>>),
      w1 |-> Straight(<<Accessing({Write}, Ret("w1"))>>),
      w2 |-> Straight(<<Accessing({Write}, Ret("w2"))>>)],
     W1 @@ W2, H1 @@ H2) EXCEPT !.scope["w1"] = "test", !.scope["w2"] = "test"]

(* Two atomics in the same mode: a handshake, with a relaxed loop, a local  *)
(* that may be either, and one the analysis knows nothing of.               *)
AtomicProgram(segments) ==
  [Program(<<"main", "w1">>,
     [main |-> Main(<<Spawn("c1", "h1"), CallB("main", "atomicStore", <<"x">>, "none"),
                      CallB("main", "atomicStore", <<"y">>, "none"),
                      CallB("main", "atomicLoad", <<"unknown">>, "none"), Join("h1")>>),
      w1 |-> Worker("w1", <<CallB("w1", "atomicLoad", <<"x">>, "none"),
                            Go("w1", "switch", <<0, 2>>),
                            CallB("w1", "atomicLoad", <<"y">>, "none"),
                            CallB("w1", "atomicStore", <<"xy">>, "none")>>)],
     W1, H1)
   EXCEPT !.atomic = (<<"main", "x">> :> {"x"}) @@ (<<"main", "y">> :> {"y"})
                     @@ (<<"w1", "x">> :> {"x"}) @@ (<<"w1", "y">> :> {"y"})
                     @@ (<<"w1", "xy">> :> {"x", "y"}),
          !.order = (<<"main", "x">> :> "Release") @@ (<<"main", "y">> :> "SeqCst")
                    @@ (<<"w1", "x">> :> "Relaxed") @@ (<<"w1", "y">> :> "SeqCst")
                    @@ (<<"w1", "xy">> :> "SeqCst"),
          !.segments = segments]

(* while !x.load(Acquire) {} *)
SpinProgram == [AtomicProgram(TRUE) EXCEPT !.order[<<"w1", "x">>] = "Acquire"]

FeaturePrograms ==
  {AtomicProgram(TRUE), AtomicProgram(FALSE), CallProgram, ScopeProgram, RayonProgram, ChannelProgram, MatchedWait, AsyncProgram}
  \cup JoinPrograms

AllPrograms == SmallPrograms \cup FeaturePrograms \cup {ExitProgram, IgnoredProgram}

WaitPrograms == {UnwrappedWait}

SpinPrograms == {SpinProgram}

MergedSitesPrograms == {MergedSites}
=============================================================================
