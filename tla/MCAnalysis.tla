----------------------------- MODULE MCAnalysis -----------------------------
(***************************************************************************)
(* Crates and command lines for the whole analysis.                        *)
(*   graph     ways to call, spawn, and hand over functions, with the three*)
(*             settings of what is translated                              *)
(*   memory    atomics, raw pointers and channel ends that may be one of   *)
(*             two things or either                                        *)
(*   locks     the crates of LockCrates                                  *)
(*   options   a crate of two functions with every command line, and with  *)
(*             the sampler running                                         *)
(***************************************************************************)
EXTENDS Analysis_proofs

L == INSTANCE LockCrates

NoCallee == <<"unknown", "-">>
NoHandle == "none"
Mono(f) == <<f, "-">>
Of(f) == <<f, "T">>

Instances ==
  {Mono(f) : f \in {"main", "worker", "helper", "closure", "dead", "m0", "m1"}}
  \cup {Of(f) : f \in {"worker", "helper", "closure", "std"}}

App == Name("app")

(* A function of the crate that returns and does nothing else. *)
Plain ==
  [local |-> TRUE, mir |-> TRUE, named |-> {App}, locals |-> <<>>, ops |-> <<>>,
   blocks |-> FALSE, returns |-> TRUE, ignored |-> FALSE, skipped |-> FALSE,
   enters |-> {}, calls |-> <<>>, closures |-> <<>>]

Std == [Plain EXCEPT !.local = FALSE, !.mir = FALSE, !.named = {Name("std")}]

Call(callee) == [callee |-> callee, matches |-> {}, polls |-> FALSE, args |-> <<>>, dest |-> "_0"]
Api(names, args) ==
  [Call(Of("std")) EXCEPT !.matches = names, !.args = args, !.dest = "handle"]
Arg(ty, f) == [ty |-> ty, fn |-> f]
Other == Arg("other", "none")

Command == [crate |-> App, flags |-> {}, unknown |-> FALSE, separate |-> TRUE]

AnyWorld ==
  [crate |-> App, buildDir |-> FALSE, codegen |-> TRUE, statm |-> FALSE, issues |-> FALSE,
   unwritable |-> {}]

(* fs: the functions that matter; what is missing is empty. *)
Crate(fs, given) ==
  LET functions == fs @@ [std |-> Std] @@
        [f \in {Fn(i) : i \in Instances} |-> Plain]
  IN  [given |-> given, promoted |-> {}, main |-> Mono("main"),
       expandable |-> {i \in Instances : functions[Fn(i)].local /\ functions[Fn(i)].mir},
       sites |-> [i \in Instances |->
                    SitesOfBody(functions[Fn(i)].calls, functions[Fn(i)].closures)],
       functions |-> functions, memory |-> <<>>,
       args |-> Command, config |-> DefaultConfig, world |-> AnyWorld,
       locks |-> [nodes |-> <<>>, body |-> [f \in DOMAIN functions |-> <<>>],
                  guard |-> <<>>, param |-> <<>>, pts |-> <<>>, flows |-> <<>>]]
-----------------------------------------------------------------------------
Entering(fs, calls) == [Plain EXCEPT !.enters = fs, !.calls = calls]

Load(x) == [local |-> x, index |-> NoIndex, given |-> "moved", assigned |-> <<"Acquire">>]
AtomicUser == [Plain EXCEPT !.ops = << Load("r") >>]

All(fs) == {Mono(f) : f \in fs}

GraphCrates ==
  { (* thread::spawn(worker), joined; a function no one calls *)
    Crate([main |-> Entering({"worker"}, << Api({"thread_spawn"}, <<Arg("fn", "worker")>>),
                                           Api({"thread_join"}, <<Other>>) >>),
           worker |-> AtomicUser, dead |-> [Plain EXCEPT !.blocks = TRUE]],
          All({"main", "worker", "dead"})),
    (* scope.spawn(worker), and worker called as well *)
    Crate([main |-> Entering({"worker"},
             << Call(Mono("worker")),
                Api({"scope_spawn", "thread_spawn"}, <<Other, Arg("fn", "worker")>>),
                Api({"scope_join"}, <<Other>>) >>),
           worker |-> AtomicUser], All({"main", "worker"})),
    Crate([main |-> Entering({"worker"},
             << Api({"scope_spawn", "thread_spawn"}, <<Other, Arg("fn", "worker")>>) >>),
           worker |-> AtomicUser], All({"main", "worker", "dead"})),
    (* a closure in a variable that a generic helper calls, with two calls of itself *)
    Crate([main |-> [Entering({"helper", "closure"}, << Call(Of("helper")) >>)
                       EXCEPT !.closures = << [fn |-> "closure", arguments |-> "-",
                                               local |-> "f", kind |-> "var"],
                                              [fn |-> "dead", arguments |-> "-",
                                               local |-> "p", kind |-> "arg"] >>],
           closure |-> Entering({"worker"}, << Call(Mono("worker")) >>),
           helper |-> Entering({"helper"}, << Call(NoCallee), Call(Of("helper")),
                                               Call(Of("helper")) >>),
           worker |-> AtomicUser],
          {Mono("main"), Of("helper"), Mono("closure")}),
    (* rayon::join(closure, worker), unwrapped by a library function *)
    Crate([main |-> Entering({"closure", "worker"},
             << Api({"rayon"}, <<Arg("closure", "closure"), Arg("fn", "worker")>>),
                [Api({}, <<Other>>) EXCEPT !.polls = TRUE] >>),
           closure |-> Entering({"helper"}, << Call(Mono("helper")) >>),
           helper |-> [Plain EXCEPT !.returns = FALSE]],
          All({"main", "closure"})),
    (* an async task, which no call site names, and a spawn of it *)
    Crate([main |-> Entering({}, << Api({"async_spawn"}, <<Arg("coroutine", "worker")>>) >>),
           worker |-> [AtomicUser EXCEPT !.blocks = TRUE,
                         !.calls = << Call(Mono("helper")) >>, !.enters = {"helper"}]],
          All({"main", "worker"})),
    (* serialization code, which is left alone, and a promoted constant *)
    [Crate([main |-> Entering({"worker"}, << Call(Mono("worker")) >>),
            worker |-> [Plain EXCEPT !.skipped = TRUE, !.ignored = TRUE]], All({"main", "m0"}))
       EXCEPT !.promoted = {Mono("m0")}],
    (* a visitor, which is ignored by one and translated by the other *)
    Crate([main |-> Entering({"worker"}, << Call(Mono("worker")) >>),
           worker |-> [Plain EXCEPT !.ignored = TRUE]], All({"main"})),
    (* a library *)
    [Crate([worker |-> Entering({"helper"}, << Call(Mono("helper")) >>)], All({"worker"}))
       EXCEPT !.main = NoInstance] }

GraphJobs ==
  {[c EXCEPT !.args.flags = fs] :
     c \in GraphCrates, fs \in {{}, {"full"}, {"no_concurrent_roots"}}}

(* worker is of another crate, or helper of a part of this one. *)
Lists(names) == {[list \in {l} |-> names] : l \in {"white", "black"}}
FilterLists ==
  {<<>>, [white |-> {Name("dep")}, black |-> {App}]}
  \cup UNION {Lists(ns) : ns \in {{Name("dep")}, {App, Name("dep")}, {Name("app_gen")}}}

FilterJobs ==
  {[Crate([main |-> Entering({"worker", "helper"},
                             << Call(Mono("worker")), Call(Mono("helper")) >>),
           worker |-> [Plain EXCEPT !.named = {Name("dep")}, !.local = FALSE],
           helper |-> [Plain EXCEPT !.named = {App, Name("app_gen")}]],
          All({"main", "worker"}))
      EXCEPT !.args = lists @@ [Command EXCEPT !.crate = name]] :
     lists \in FilterLists, name \in {App, [App EXCEPT !.hyphen = TRUE]}}
-----------------------------------------------------------------------------
Local(x, ty, line) == [local |-> x, ty |-> ty, line |-> line]
(* Something in memory that is no local. *)
Thing(name) == <<"thing", name>>
Things == {{Thing("A")}, {Thing("B")}, {Thing("A"), Thing("B")}}

(* Three references to atomics, of which the second is loaded through twice *)
(* and in two instances of worker.                                          *)
MemoryJobs ==
  {[Crate([main |-> [Entering({"worker"}, << Api({"thread_spawn"}, <<Arg("fn", "worker")>>) >>)
              EXCEPT !.locals = << Local("a", "Atomic", "1"), Local("p", "RawPtr", "2"),
                                   Local("q", "RawPtr", "3") >>,
                     !.ops = << Load("r"), [Load("c") EXCEPT !.given = "value"],
                                [Load("s") EXCEPT !.assigned = <<"Relaxed", "copy">>] >>],
           worker |-> [AtomicUser EXCEPT !.locals = << Local("p", "RawPtr", "7") >>,
                         !.ops = << Load("r"), Load("r") >>]],
          All({"main", "worker"}))
      EXCEPT !.memory = (<<"main", "a">> :> {Thing("A")}) @@ (<<"main", "r">> :> {Thing("A")})
                        @@ (<<"main", "s">> :> t1) @@ (<<"worker", "r">> :> t2)
                        @@ (<<"main", "p">> :> t1) @@ (<<"main", "q">> :> t3)
                        @@ (<<"worker", "p">> :> t2),
             !.args.flags = {"full"}] :
     t1, t2, t3 \in Things}

(* Two elements of an array, and one of them no one knows which. *)
ArrayJobs ==
  {Crate([main |-> [Plain EXCEPT !.ops = << [Load("r") EXCEPT !.index = "0"], Load("r"),
                                            [Load("r") EXCEPT !.index = "1"] >>]],
         All({"main"}))}

(* let (tx, rx) = channel(); let (tx2, tx3) = (tx.clone(), tx.clone()), and *)
(* a second channel in the worker, which may be two nodes.                  *)
ChannelJobs ==
  {[Crate([main |-> [Entering({"worker"}, calls)
              EXCEPT !.locals = << Local("pair", "pair", "1"), Local("tx", first, "1"),
                                   Local("rx", "Receiver", "1"), Local("tx2", first, "2"),
                                   Local("tx3", first, "2") >>],
           worker |-> [Plain EXCEPT !.locals = << Local("tx", "SyncSender", "5"),
                         Local("rx", "Receiver", "5"), Local("up", first, "6") >>]],
          All({"main", "worker"}))
      EXCEPT !.memory = [x \in {<<"main", l>> : l \in {"tx", "rx", "tx2", "tx3"}}
                            \cup {<<"worker", "up">>} |-> {Thing("M")}]
                        @@ [x \in {<<"worker", "tx">>, <<"worker", "rx">>} |-> {Thing("W")}]] :
     first \in {"Sender", "SyncSender"},
     calls \in {<< Api({"thread_spawn"}, <<Arg("fn", "worker")>>) >>, << Call(Mono("worker")) >>}}
-----------------------------------------------------------------------------
LockJobs ==
  {[Crate([f \in DOMAIN l.body |-> [Plain EXCEPT !.blocks = TRUE]], All(DOMAIN l.body))
      EXCEPT !.locks = [l EXCEPT !.body = @ @@ [f \in {"std"} |-> <<>>]],
             !.main = NoInstance, !.args = [stop |-> "pointsto"] @@ Command] :
     l \in L!Followed \cup L!Chains}
-----------------------------------------------------------------------------
Small ==
  Crate([main |-> Entering({"worker"}, << Call(Mono("worker")) >>)], All({"main"}))

Options(option, values) == {<<>>} \cup {[o \in {option} |-> v] : v \in values}

FlagSets == {{}, Dumps \ {"unsafe"}, {"unsafe", "no_reduce"}}

OptionJobs ==
  {[Small EXCEPT
      !.args = m @@ s @@ l @@ [Command EXCEPT !.flags = fs],
      !.world = [AnyWorld EXCEPT !.issues = TRUE, !.unwritable = u]] :
     m \in Options("mode", {"datarace", "atomic", "all", "pointsto"}),
     s \in Options("stop", {"mir", "callgraph", "pointsto", "petrinet", "stategraph"}),
     l \in Options("level", {"research"}), fs \in FlagSets,
     u \in {{}, {"petrinet_raw", "deadlock_report"}}}

(* Arguments of rustc among those of pn. *)
ForeignJobs ==
  {[Small EXCEPT !.args = [mode |-> "all"] @@ [Command EXCEPT !.unknown = TRUE, !.separate = s],
                 !.config = [DefaultConfig EXCEPT !.research = r],
                 !.world.crate = name] :
     s, r \in BOOLEAN, name \in {App, Name("main")}}

(* Nothing to do, or with the sampler. *)
WatchedJobs ==
  {[Small EXCEPT
      !.args = [mode |-> "all", level |-> "developer"] @@ Command,
      !.config = [DefaultConfig EXCEPT !.research = TRUE],
      !.world = [AnyWorld EXCEPT !.statm = TRUE, !.buildDir = b, !.codegen = c, !.crate = t]] :
     b, c \in BOOLEAN, t \in {App, Name("other")}}

Jobs == GraphJobs \cup FilterJobs \cup MemoryJobs \cup ArrayJobs \cup ChannelJobs
        \cup LockJobs \cup OptionJobs \cup ForeignJobs \cup WatchedJobs

AllSites == UNION {UNION {Range(c.sites[i]) : i \in DOMAIN c.sites} : c \in Jobs}
=============================================================================
