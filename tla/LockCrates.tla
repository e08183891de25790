----------------------------- MODULE LockCrates -----------------------------
(***************************************************************************)
(* Crates for LockGroups: a main function and a worker closure that share  *)
(* the locks X (a mutex) and Z (an RwLock) through Arcs, and the mutexes   *)
(* M0 and M1, fields of one object that methods borrow.  A local is its    *)
(* name.                                                                   *)
(***************************************************************************)
EXTENDS Naturals, Sequences, FiniteSets, SequencesExt, TLC

Whole == "none"     \* all of a local, not one of its fields
f0 == "f0"          \* field 0
f1 == "f1"

Def(how, dest, src, from) ==
  [how |-> how, dest |-> dest, field |-> Whole, src |-> src, from |-> from,
   second |-> "none", kind |-> "none", locks |-> {}]

Taking(l, d) == [d EXCEPT !.locks = {l}]

(* tmp = Arc::deref(&base.field); res = lock(tmp) *)
ArcLock(l, base, field, tmp, res) ==
  << Def("ref", tmp \o "r", base, field), Def("extract", tmp, tmp \o "r", Whole),
     Taking(l, Def("acquire", res, tmp, Whole)) >>

(* tmp = &self.field; res = lock(tmp) *)
FieldLock(l, field, tmp, res) ==
  << Def("ref", tmp, "self", field), Taking(l, Def("acquire", res, tmp, Whole)) >>

Unwrap(g, res) == << Def("extract", g, res, Whole) >>

(* if let Ok(g) = res *)
Match(g, res) == << Def("use", g, res, f0) >>

(* A place in main or in the worker that the Arc of X, or of Z, is kept in. *)
Arc(f, l) == IF f = "main" THEN <<l, Whole>> ELSE <<"env", IF l = "x" THEN f0 ELSE f1>>

Locking(f, l, res) ==
  ArcLock(l, Arc(f, l)[1], Arc(f, l)[2], l \o f, res)

(* while .. { g = cvar.wait(g).unwrap() }, the loop before or after the     *)
(* block that acquires, as the blocks happen to be numbered.                *)
WaitLoop == << Def("ref", "cvr", "cv", Whole),
               [Def("wait", "res2", "cvr", Whole) EXCEPT !.second = "g"],
               Def("extract", "g", "res2", Whole) >>

(* Guards of X. *)
MutexBodies(f) ==
  { Locking(f, "x", "res") \o Unwrap("g", "res"),
    Locking(f, "x", "g"),                                        \* parking_lot
    WaitLoop \o Locking(f, "x", "res") \o Unwrap("g", "res"),
    Locking(f, "x", "res") \o Unwrap("g", "res") \o WaitLoop,
    Locking(f, "x", "res") \o Unwrap("h", "res") \o <<Def("use", "g", "h", Whole)>>,
    (* g = cvar.wait(g), of a condvar whose wait returns a guard *)
    Locking(f, "x", "g") \o << Def("ref", "cvr", "cv", Whole),
                              [Def("wait", "g", "cvr", Whole) EXCEPT !.second = "g"] >>,
    (* a wrapper of the crate's own: g = rl(&arc) *)
    << Def("ref", "t", Arc(f, "x")[1], Arc(f, "x")[2]),
       Taking("x", Def("call", "g", "t", Whole)) >> }

(* A reader and a writer of Z, one of them kept across an await point. *)
RwBody(f) ==
  Locking(f, "z", "resr") \o Unwrap("r", "resr")
  \o << [Taking("z", Def("acquire", "state", "z" \o f, Whole))
           EXCEPT !.field = f1, !.kind = "write"] >>

(* Other calls, a result kept across an await point. *)
Noise(f) ==
  << Def("call", "n", "x", Whole),
     [Taking("x", Def("acquire", "state", "x", Whole)) EXCEPT !.field = f0],
     Def("store", "s", "n", Whole) >>

(* Methods of one object that lock its first field, or that and an RwLock   *)
(* in its second.                                                           *)
MethodBodies ==
  { FieldLock("M0", f0, "t", "res") \o Unwrap("g", "res"),
    FieldLock("M0", f0, "t", "res") \o Unwrap("g", "res")
      \o FieldLock("Z1", f1, "u", "resw") \o Unwrap("w", "resw") }

Kind(x) == CASE x \in {"g", "h"} -> "mutex" [] x = "r" -> "read" [] x = "w" -> "write"

GuardsIn(f, body) ==
  {<<f, x, Whole>> : x \in {body[i].dest : i \in DOMAIN body} \cap {"g", "h", "r", "w"}}

Loc(f, x, path) == [base |-> <<f, x>>, path |-> path]

(* The heap behind an Arc, the environment of the closure, and the object   *)
(* self points to.                                                          *)
Heap(l) == Loc("heap", l, <<>>)

Solved ==
  (Loc("main", "x", <<>>) :> {Heap("x")}) @@ (Loc("main", "z", <<>>) :> {Heap("z")})
  @@ (Loc("main", "y", <<>>) :> {Heap("y")})
  @@ (Loc("worker", "env", <<>>) :> {Heap("env")})
  @@ (Loc("worker", "env", <<f0>>) :> {Heap("x")}) @@ (Loc("worker", "env", <<f1>>) :> {Heap("z")})
  @@ (Loc("heap", "env", <<f0>>) :> {Heap("x")}) @@ (Loc("heap", "env", <<f1>>) :> {Heap("z")})
  @@ (Loc("helper", "m", <<>>) :> {Heap("x"), Heap("y")})
  @@ [l \in {Loc(f, "self", <<>>) : f \in {"m0", "m1"}} |-> {Heap("object")}]

Crate(b) ==
  [nodes |-> SetToSeq(DOMAIN b), body |-> b,
   guard |-> [g \in UNION {GuardsIn(f, b[f]) : f \in DOMAIN b} |-> Kind(g[2])],
   param |-> [p \in {<<f, "self">> : f \in {"m0", "m1"}} |-> <<1, "T">>],
   pts |-> Solved, flows |-> <<>>]

(* A mutex that main locks before it moves it into the Arc: its value flows *)
(* through a temporary to the heap.                                         *)
MovedMutex ==
  [Crate([main |-> << Def("ref", "t", "m", Whole),
                      Taking("x", Def("acquire", "res", "t", Whole)) >> \o Unwrap("g", "res"),
          worker |-> Locking("worker", "x", "res") \o Unwrap("g", "res")])
   EXCEPT !.flows = (Loc("main", "m", <<>>) :> {Loc("main", "m1", <<>>)})
                    @@ (Loc("main", "m1", <<>>) :> {Heap("x")})]

(* A helper that is called with a reference to X and with one to Y.         *)
EitherMutex ==
  Crate([main |-> Locking("main", "x", "res") \o Unwrap("g", "res")
                  \o Locking("main", "y", "resy") \o Unwrap("h", "resy"),
         helper |-> << [Def("acquire", "res", "m", Whole) EXCEPT !.locks = {"x", "y"}] >>
                    \o Unwrap("g", "res")])

(* Functions each of which is called with references to some of the         *)
(* mutexes: may-alias leads from one to another only through those between. *)
Chained(given) ==
  LET functions == <<"main", "worker", "helper", "m0">>
      body(i) == << [Def("acquire", "res", "m", Whole) EXCEPT !.locks = given[i]] >>
                 \o Unwrap("g", "res")
      used == {functions[i] : i \in DOMAIN given}
      nth(f) == CHOOSE i \in DOMAIN given : functions[i] = f
  IN  [Crate([f \in used |-> body(nth(f))]) EXCEPT
         !.pts = [l \in {Loc(f, "m", <<>>) : f \in used} |->
                    {Heap(x) : x \in given[nth(l.base[1])]}]]

Chains ==
  { Chained(<< {"x"}, {"x", "y"}, {"y", "z"}, {"z"} >>),                \* a chain
    Chained(<< {"x"}, {"y"}, {"z"}, {"x", "y", "z"} >>),                \* a star
    Chained(<< {"x", "y"}, {"y", "z"}, {"z", "v"}, {"v", "x"} >>),      \* a ring
    Chained(<< {"x", "y"}, {"y"}, {"z"}, {"z", "v"} >>) }               \* two groups

Followed ==
  {Crate([main |-> b1, worker |-> b2]) :
     b1 \in MutexBodies("main"), b2 \in MutexBodies("worker")}
  \cup {Crate([main |-> RwBody("main") \o Noise("main"), worker |-> RwBody("worker")]),
        Crate([main |-> Locking("main", "x", "res") \o Unwrap("g", "res"),
               worker |-> RwBody("worker")]), MovedMutex, EitherMutex}
  \cup {Crate([m0 |-> b1, m1 |-> b2]) : b1, b2 \in MethodBodies}

(* Guards of X: taken out of the result by a pattern; from Y or X, whichever*)
(* branch was taken; moved out of a coroutine's state.                      *)
LostBodies ==
  { Locking("main", "x", "res") \o Match("g", "res"),
    Locking("main", "y", "resy") \o Unwrap("g", "resy")
      \o Locking("main", "x", "res") \o Unwrap("g", "res"),
    << Def("ref", "t", "x", Whole), Def("extract", "u", "t", Whole),
       [Taking("x", Def("acquire", "state", "u", Whole)) EXCEPT !.field = f1, !.kind = "mutex"],
       Def("use", "g", "state", f1) >> }

Lost ==
  {Crate([main |-> b, worker |-> Locking("worker", "x", "res") \o Unwrap("g", "res")]) :
     b \in LostBodies}
=============================================================================
