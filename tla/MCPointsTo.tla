--------------------------- MODULE MCPointsTo ---------------------------
(***************************************************************************)
(* Small programs for PointsToSoundness.                                   *)
(***************************************************************************)
EXTENDS PointsToSoundness

Types == INSTANCE TypeUtil
LeafPaths(ty) == Types!LeafFieldPaths(ty)

L(x) == [local |-> x, proj |-> <<>>]
P(x, proj) == [local |-> x, proj |-> proj]
V(x) == [kind |-> "place", place |-> L(x)]
VP(x, proj) == [kind |-> "place", place |-> P(x, proj)]
Const == [kind |-> "const"]
Static == [kind |-> "static", global |-> "S"]

RefTo(dst, src) == [op |-> "ref", dst |-> dst, src |-> src]
UseOf(dst, src) == [op |-> "use", dst |-> dst, src |-> src]
CastOf(dst, src) == [op |-> "value", dst |-> dst, args |-> <<src>>]
Agg(dst, args) == [op |-> "aggregate", dst |-> dst, args |-> args]
Clo(x, args) == [op |-> "closure", dst |-> L(x), args |-> args]
Lib(api, dst, args) ==
  [op |-> "call", dst |-> dst, args |-> args, api |-> api, callee |-> "library"]
CallTo(f, dst, args) ==
  [op |-> "call", dst |-> dst, args |-> args, api |-> "none", callee |-> f]
Goto(to) == [op |-> "goto", to |-> to]
Ret == [op |-> "return"]

Scalar == [kind |-> "scalar"]
Raw == [kind |-> "raw"]
RefT == [kind |-> "ref"]
Enum == [kind |-> "enum"]
Struct(fields) == [kind |-> "struct", fields |-> fields]
Pair == Struct(<<Raw, Raw>>)
Arc == Struct(<<Struct(<<Raw>>), Struct(<<>>)>>)
CloT(f, fields) == [kind |-> "closure", body |-> f, fields |-> fields]
CoroT(f, fields) == [kind |-> "coroutine", body |-> f, fields |-> fields]

(* Functions as records [args, ty, body]; main comes first.  What a        *)
(* function returns is a pointer.                                          *)
Fn(args, ty, body) == [args |-> args, ty |-> ty, body |-> body]
Prog(roots, fns, closures, coroutines) ==
  [roots |-> roots, k |-> 0, closures |-> closures, coroutines |-> coroutines,
   args |-> [f \in DOMAIN fns |-> fns[f].args],
   ty |-> [f \in DOMAIN fns |->
            [x \in 0 .. Len(fns[f].ty) |-> IF x = 0 THEN Raw ELSE fns[f].ty[x]]],
   body |-> [f \in DOMAIN fns |-> fns[f].body]]
Plain(roots, fns) == Prog(roots, fns, {}, {})
-----------------------------------------------------------------------------
(* One function: any three statements of a pool, in any order and number.  *)
(* 1, 2 are plain variables, 3 and 4 point to them, 5 points to a pointer,  *)
(* 6 and 7 are structs of two pointers, 8 points to a struct.              *)

Pool ==
  << UseOf(L(3), V(4)), UseOf(P(5, <<Deref>>), V(4)), UseOf(L(4), VP(5, <<Deref>>)),
    RefTo(L(5), L(4)), UseOf(P(6, <<0>>), V(4)), UseOf(L(4), VP(6, <<1>>)),
    UseOf(L(4), VP(8, <<Deref, 0>>)), UseOf(P(8, <<Deref, 1>>), V(3)),
    UseOf(L(7), V(6)), UseOf(L(6), V(7)), RefTo(L(8), L(7)),
    RefTo(L(5), P(8, <<Deref, 1>>)), CastOf(L(3), VP(7, <<0>>)),
    Agg(L(6), <<V(4), Const>>) >>

LoopTypes == <<Scalar, Scalar, Raw, Raw, Raw, Pair, Pair, Raw>>

Loop(i, j, k) ==
  Plain(<<"main">>, "main" :> Fn(0, LoopTypes, <<
    RefTo(L(3), L(1)), RefTo(L(4), L(2)), RefTo(L(5), L(3)),
    Agg(L(6), <<V(3), V(4)>>), RefTo(L(8), L(6)), UseOf(L(7), V(6)),
    Goto({8, 10, 12, 14}),
    Pool[i], Goto({7}), Pool[j], Goto({7}), Pool[k], Goto({7}), Ret >>))

Loops ==
  {Loop(n[1], n[2], n[3]) : n \in {m \in (DOMAIN Pool) \X (DOMAIN Pool) \X (DOMAIN Pool) :
                                    m[1] < m[2] /\ m[2] < m[3]}}
-----------------------------------------------------------------------------
(* Calls: a function that returns its argument called with two variables,  *)
(* one that writes through its argument, one given a struct by value, and  *)
(* a result that is written through a pointer.                             *)
Calls ==
  Plain(<<"main", "id", "set", "get", "wrap">>,
    "main" :> Fn(0, <<Scalar, Scalar, RefT, RefT, RefT, Pair, RefT>>, <<
       RefTo(L(3), L(1)), RefTo(L(4), L(2)),
       CallTo("wrap", L(7), <<V(3)>>), CallTo("id", L(3), <<V(4)>>),
       RefTo(L(5), L(4)), CallTo("set", L(7), <<V(5), V(3)>>),
       Agg(L(6), <<V(3), V(7)>>), CallTo("get", P(5, <<Deref>>), <<V(6)>>), Ret>>)
    @@ "id" :> Fn(1, <<RefT>>, <<UseOf(L(0), V(1)), Ret>>)
    @@ "set" :> Fn(2, <<RefT, RefT>>, <<UseOf(P(1, <<Deref>>), V(2)), Ret>>)
    @@ "get" :> Fn(1, <<Pair>>, <<UseOf(L(0), VP(1, <<1>>)), Ret>>)
    @@ "wrap" :> Fn(1, <<RefT, RefT>>,
         <<CallTo("id", L(2), <<V(1)>>), UseOf(L(0), V(2)), Ret>>))

(* A recursive function that hands down pointers to its own locals.        *)
Recursion ==
  Plain(<<"main", "rec">>,
    "main" :> Fn(0, <<Scalar, RefT, RefT>>,
       <<RefTo(L(2), L(1)), CallTo("rec", L(3), <<V(2)>>), Ret>>)
    @@ "rec" :> Fn(1, <<RefT, RefT, RefT>>, <<
         Goto({2, 5}), RefTo(L(2), L(1)), CallTo("rec", L(3), <<V(2)>>), Goto({5, 6}),
         UseOf(L(0), V(1)), Ret>>))

(* Two functions without arguments that call each other.                   *)
Mutual ==
  Plain(<<"main", "ping", "pong">>,
    "main" :> Fn(0, <<RefT>>, <<CallTo("ping", L(1), <<>>), Ret>>)
    @@ "ping" :> Fn(0, <<Scalar, RefT>>,
         <<RefTo(L(0), L(1)), CallTo("pong", L(2), <<>>), Ret>>)
    @@ "pong" :> Fn(0, <<RefT>>,
         <<Goto({2, 3}), CallTo("ping", L(0), <<>>), Ret>>))

(* Arc of a struct, its clones and derefs; a box; unseen functions; a      *)
(* static; a function of the call graph that has no MIR.                   *)
Library ==
  Plain(<<"main", "extern", "other">>,
    "main" :> Fn(0, <<Scalar, RefT, Pair, Arc, RefT, Arc, RefT, RefT, Raw, RefT, Raw>>, <<
       RefTo(L(2), L(1)), Agg(L(3), <<V(2), Const>>), Lib("new", L(4), <<V(3)>>),
       RefTo(L(5), L(4)), Lib("clone", L(6), <<V(5)>>), RefTo(L(7), L(6)),
       Lib("deref", L(8), <<V(7)>>), UseOf(P(8, <<Deref, 1>>), Static),
       UseOf(L(9), VP(8, <<Deref, 0>>)), CallTo("other", L(10), <<V(7)>>),
       Lib("new", L(4), <<Const>>), Lib("into_raw", L(11), <<V(4)>>),
       Lib("unseen", L(2), <<V(8), V(9)>>), Ret>>)
    @@ "other" :> Fn(1, <<RefT, RefT, RefT>>,
         <<UseOf(L(2), Static), Lib("deref", L(3), <<V(1)>>),
           UseOf(L(0), VP(3, <<Deref, 1>>)), UseOf(P(2, <<Deref>>), V(3)), Ret>>))

(* Two threads started by a helper that is called twice: one owns its      *)
(* environment (an Arc, a struct, a reference), one borrows it.            *)
OwnT == CloT("own", <<Arc, Pair, RefT>>)
BorrowT == CloT("borrow", <<RefT, Arc>>)
Threads ==
  Prog(<<"main", "start", "own", "borrow">>,
    "main" :> Fn(0, <<Scalar, RefT, Arc, Pair>>, <<
       RefTo(L(2), L(1)), Agg(L(4), <<V(2), V(2)>>), Lib("new", L(3), <<V(4)>>),
       CallTo("start", L(0), <<V(3), V(4)>>), CallTo("start", L(0), <<V(3), V(4)>>), Ret>>)
    @@ "start" :> Fn(2, <<Arc, Pair, RefT, Arc, OwnT, BorrowT, Raw, RefT>>, <<
         RefTo(L(3), L(1)), Lib("clone", L(4), <<V(3)>>), RefTo(L(8), L(2)),
         Clo(5, <<V(4), V(2), V(8)>>), Clo(6, <<V(8), V(1)>>),
         Lib("spawn", L(7), <<V(5)>>), Lib("spawn", L(7), <<V(6)>>), Ret>>)
    @@ "own" :> Fn(1, <<OwnT, RefT, RefT, Raw, RefT>>, <<
         RefTo(L(2), P(1, <<0>>)), Lib("deref", L(3), <<V(2)>>),
         UseOf(L(4), VP(1, <<1, 0>>)), UseOf(P(3, <<Deref, 0>>), V(2)),
         UseOf(L(5), VP(1, <<2>>)), Ret>>)
    @@ "borrow" :> Fn(1, <<RefT, RefT, RefT, Raw>>, <<
         RefTo(L(2), P(1, <<Deref, 1>>)), Lib("deref", L(3), <<V(2)>>),
         UseOf(L(4), VP(3, <<Deref, 0>>)),
         UseOf(L(4), VP(1, <<Deref, 0, Deref, 1>>)), Ret>>),
    {"own", "borrow"}, {})

(* A closure handed to a function that starts it, and an async task.       *)
TaskT == CoroT("task", <<Arc>>)
RunT == CloT("run", <<RefT>>)
Tasks ==
  Prog(<<"main", "launch", "run", "task">>,
    "main" :> Fn(0, <<Pair, RefT, RunT, Arc, TaskT, Scalar, RefT>>, <<
       RefTo(L(2), L(1)), Clo(3, <<V(2)>>), CallTo("launch", L(6), <<V(3)>>),
       RefTo(L(7), L(6)), Agg(L(1), <<V(7), V(7)>>), Lib("new", L(4), <<V(1)>>),
       Clo(5, <<V(4)>>), Lib("spawn", L(6), <<V(5)>>), Ret>>)
    @@ "launch" :> Fn(1, <<RunT, Scalar>>, <<Lib("spawn", L(2), <<V(1)>>), Ret>>)
    @@ "run" :> Fn(1, <<RunT, RefT>>,
         <<UseOf(L(2), VP(1, <<0>>)), UseOf(P(2, <<Deref, 1>>), V(2)), Ret>>)
    @@ "task" :> Fn(1, <<Struct(<<RefT>>), RefT, RefT, Raw>>, <<
         RefTo(L(2), P(1, <<0, Deref, 0>>)), Lib("deref", L(3), <<V(2)>>),
         UseOf(L(4), VP(3, <<Deref, 1>>)), Ret>>),
    {"run", "task"}, {"task"})

Named == {Calls, Recursion, Mutual, Library, Threads, Tasks}

(* Every program with contexts of up to two call sites. *)
NamedPrograms == {[p EXCEPT !.k = k] : p \in Named, k \in 0 .. 2}
SmallPrograms == Loops \cup NamedPrograms
-----------------------------------------------------------------------------
(* `if let Some(x) = opt': the payload is stored as a field and read as a  *)
(* field of the collapsed downcast.                                        *)
Payloads ==
  { Plain(<<"main">>, "main" :> Fn(0, <<Scalar, RefT, Enum, RefT>>,
      <<RefTo(L(2), L(1)), Agg(L(3), <<V(2)>>), UseOf(L(4), VP(3, <<Variant, 0>>)), Ret>>)) }
=============================================================================
