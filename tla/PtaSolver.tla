---------------------------- MODULE PtaSolver ----------------------------
(***************************************************************************)
(* The worklist solver of the pointer analysis, memory/pta/solver.rs.      *)
(*                                                                         *)
(* One step is one iteration of a loop body.  The constraints, the edges   *)
(* and the pointees live in hash containers, so wherever the code iterates *)
(* over one of them the next element is chosen nondeterministically; the   *)
(* worklist is a queue and keeps its order.                                *)
(***************************************************************************)
EXTENDS Naturals, Sequences, Constraints

VARIABLES
  cs,         \* the ConstraintSet being solved
  todo,       \* constraints the registration loop has still to visit
  pts,        \* points-to sets
  copySucc,   \* copy_succ: src -> {dst}
  loads,      \* src -> {dst}
  stores,     \* dst -> {src}
  offsets,    \* src -> {<<dst, suffix>>}
  worklist,   \* locations to process, first in first out
  inWl,       \* in_wl
  phase,      \* the loop being executed
  cur,        \* n, the location popped last
  pointees,   \* the copy of pts(n) made when n was popped
  pending     \* elements of the current loop still to visit

edgeVars == <<copySucc, loads, stores, offsets>>
loopVars == <<phase, cur, pointees>>
vars == <<cs, todo, pts, edgeVars, worklist, inWl, loopVars, pending>>

None == "none"      \* no location is being processed

Phases == {"register", "pop", "copy", "load", "store", "offset", "done"}

Init ==
  /\ cs \in Inputs
  /\ todo = cs
  /\ pts = [n \in Loc |-> {}]
  /\ copySucc = [n \in Loc |-> {}]
  /\ loads = [n \in Loc |-> {}]
  /\ stores = [n \in Loc |-> {}]
  /\ offsets = [n \in Loc |-> {}]
  /\ worklist = <<>>
  /\ inWl = {}
  /\ phase = "register"
  /\ cur = None
  /\ pointees = {}
  /\ pending = {}

(* if in_wl.insert(n) { worklist.push_back(n) } *)
Push(n) ==
  /\ inWl' = inWl \cup {n}
  /\ worklist' = IF n \in inWl THEN worklist ELSE Append(worklist, n)

PushIf(changed, n) ==
  IF changed THEN Push(n) ELSE UNCHANGED <<worklist, inWl>>

AddEdge(map, n, x) == [map EXCEPT ![n] = @ \cup {x}]
-----------------------------------------------------------------------------
(* for c in constraints.iter(): one action per kind of constraint *)

Visit(c, t) ==
  /\ phase = "register"
  /\ c \in todo
  /\ c.type = t
  /\ todo' = todo \ {c}
  /\ UNCHANGED <<cs, loopVars, pending>>

RegisterAddressOf(c) ==
  /\ Visit(c, "AddressOf")
  /\ pts' = AddEdge(pts, c.dst, c.obj)
  /\ PushIf(c.obj \notin pts[c.dst], c.dst)
  /\ UNCHANGED edgeVars

RegisterCopy(c) ==
  /\ Visit(c, "Copy")
  /\ copySucc' = AddEdge(copySucc, c.src, c.dst)
  /\ Push(c.src)
  /\ UNCHANGED <<pts, loads, stores, offsets>>

RegisterLoad(c) ==
  /\ Visit(c, "Load")
  /\ loads' = AddEdge(loads, c.src, c.dst)
  /\ Push(c.src)
  /\ UNCHANGED <<pts, copySucc, stores, offsets>>

RegisterStore(c) ==
  /\ Visit(c, "Store")
  /\ stores' = AddEdge(stores, c.dst, c.src)
  /\ Push(c.dst)
  /\ UNCHANGED <<pts, copySucc, loads, offsets>>

RegisterOffset(c) ==
  /\ Visit(c, "Offset")
  /\ offsets' = AddEdge(offsets, c.src, <<c.dst, c.suffix>>)
  /\ Push(c.src)
  /\ UNCHANGED <<pts, copySucc, loads, stores>>

EndRegister ==
  /\ phase = "register"
  /\ todo = {}
  /\ phase' = "pop"
  /\ UNCHANGED <<cs, todo, pts, edgeVars, worklist, inWl, cur, pointees, pending>>
-----------------------------------------------------------------------------
(* while let Some(n) = worklist.pop_front() *)

(* Mutant: in_wl keeps the popped location. *)
PopMut ==
  /\ phase = "pop"
  /\ worklist # <<>>
  /\ worklist' = Tail(worklist)
  /\ cur' = Head(worklist)
  /\ pointees' = pts[cur']
  /\ phase' = "copy"
  /\ pending' = copySucc[cur']
  /\ UNCHANGED <<cs, todo, pts, edgeVars, inWl>>

(* The copy successors are copied to a Vec before the loop over them. *)
Pop ==
  /\ phase = "pop"
  /\ worklist # <<>>
  /\ worklist' = Tail(worklist)
  /\ cur' = Head(worklist)
  /\ inWl' = inWl \ {cur'}
  /\ pointees' = pts[cur']
  /\ phase' = "copy"
  /\ pending' = copySucc[cur']
  /\ UNCHANGED <<cs, todo, pts, edgeVars>>

(* Mutant: dst is pushed whether or not the copy changed it. *)
CopyToAlwaysMut(dst) ==
  /\ phase = "copy"
  /\ dst \in pending
  /\ pts' = [pts EXCEPT ![dst] = @ \cup pointees]
  /\ Push(dst)
  /\ pending' = pending \ {dst}
  /\ UNCHANGED <<cs, todo, edgeVars, loopVars>>

(* dst receives the pointees; pushed once if that changed it. *)
CopyTo(dst) ==
  /\ phase = "copy"
  /\ dst \in pending
  /\ pts' = [pts EXCEPT ![dst] = @ \cup pointees]
  /\ PushIf(~ pointees \subseteq pts[dst], dst)
  /\ pending' = pending \ {dst}
  /\ UNCHANGED <<cs, todo, edgeVars, loopVars>>

(* Mutant: the loop runs over the copy edges once more. *)
BeginLoadsMut ==
  /\ phase = "copy"
  /\ pending = {}
  /\ phase' = "load"
  /\ pending' = copySucc[cur] \X pointees
  /\ UNCHANGED <<cs, todo, pts, edgeVars, worklist, inWl, cur, pointees>>

BeginLoads ==
  /\ phase = "copy"
  /\ pending = {}
  /\ phase' = "load"
  /\ pending' = loads[cur] \X pointees
  /\ UNCHANGED <<cs, todo, pts, edgeVars, worklist, inWl, cur, pointees>>

(* The loop over dst is the outer one: once begun, a dst is finished first. *)
OuterLoopAt(dst) ==
  \A e \in pending : \/ e[1] = dst
                     \/ \A o \in pointees : <<e[1], o>> \in pending

(* Mutant: the edge is added, its source is not pushed. *)
LoadEdgeMut(dst, o) ==
  /\ phase = "load"
  /\ <<dst, o>> \in pending
  /\ OuterLoopAt(dst)
  /\ copySucc' = AddEdge(copySucc, o, dst)
  /\ pending' = pending \ {<<dst, o>>}
  /\ UNCHANGED <<cs, todo, pts, loads, stores, offsets, loopVars, worklist, inWl>>

LoadEdge(dst, o) ==
  /\ phase = "load"
  /\ <<dst, o>> \in pending
  /\ OuterLoopAt(dst)
  /\ copySucc' = AddEdge(copySucc, o, dst)
  /\ PushIf(dst \notin copySucc[o], o)
  /\ pending' = pending \ {<<dst, o>>}
  /\ UNCHANGED <<cs, todo, pts, loads, stores, offsets, loopVars>>

BeginStores ==
  /\ phase = "load"
  /\ pending = {}
  /\ phase' = "store"
  /\ pending' = stores[cur]
  /\ UNCHANGED <<cs, todo, pts, edgeVars, worklist, inWl, cur, pointees>>

(* src gains an edge to every pointee; it is pushed if one of them is new. *)
StoreFrom(src) ==
  /\ phase = "store"
  /\ src \in pending
  /\ copySucc' = [copySucc EXCEPT ![src] = @ \cup pointees]
  /\ PushIf(~ pointees \subseteq copySucc[src], src)
  /\ pending' = pending \ {src}
  /\ UNCHANGED <<cs, todo, pts, loads, stores, offsets, loopVars>>

BeginOffsets ==
  /\ phase = "store"
  /\ pending = {}
  /\ phase' = "offset"
  /\ pending' = offsets[cur]
  /\ UNCHANGED <<cs, todo, pts, edgeVars, worklist, inWl, cur, pointees>>

Projected(suffix) == {Project(o, suffix) : o \in pointees}

(* Mutant: the target receives the unprojected pointees. *)
OffsetToBaseMut(t) ==
  /\ phase = "offset"
  /\ t \in pending
  /\ pts' = [pts EXCEPT ![t[1]] = @ \cup pointees]
  /\ PushIf(~ pointees \subseteq pts[t[1]], t[1])
  /\ pending' = pending \ {t}
  /\ UNCHANGED <<cs, todo, edgeVars, loopVars>>

OffsetTo(t) ==
  /\ phase = "offset"
  /\ t \in pending
  /\ pts' = [pts EXCEPT ![t[1]] = @ \cup Projected(t[2])]
  /\ PushIf(~ Projected(t[2]) \subseteq pts[t[1]], t[1])
  /\ pending' = pending \ {t}
  /\ UNCHANGED <<cs, todo, edgeVars, loopVars>>

EndIteration ==
  /\ phase = "offset"
  /\ pending = {}
  /\ phase' = "pop"
  /\ cur' = None
  /\ pointees' = {}
  /\ UNCHANGED <<cs, todo, pts, edgeVars, worklist, inWl, pending>>

(* The worklist is empty: pts is returned. *)
Return ==
  /\ phase = "pop"
  /\ worklist = <<>>
  /\ phase' = "done"
  /\ UNCHANGED <<cs, todo, pts, edgeVars, worklist, inWl, cur, pointees, pending>>

Terminated == phase = "done" /\ UNCHANGED vars
-----------------------------------------------------------------------------
Register ==
  \E c \in todo :
    \/ RegisterAddressOf(c)
    \/ RegisterCopy(c)
    \/ RegisterLoad(c)
    \/ RegisterStore(c)
    \/ RegisterOffset(c)

Process ==
  \/ Pop
  \/ \E dst \in pending : CopyTo(dst)
  \/ BeginLoads
  \/ \E e \in pending : LoadEdge(e[1], e[2])
  \/ BeginStores
  \/ \E src \in pending : StoreFrom(src)
  \/ BeginOffsets
  \/ \E t \in pending : OffsetTo(t)
  \/ EndIteration

Next == Register \/ EndRegister \/ Process \/ Return \/ Terminated

Spec == Init /\ [][Next]_vars

(* solve() is sequential code: it keeps executing until it returns. *)
FairSpec == Spec /\ WF_vars(Next)
-----------------------------------------------------------------------------
Active == phase \in {"copy", "load", "store", "offset"}

PendingType ==
  /\ phase = "copy" => pending \subseteq copySucc[cur]
  /\ phase = "load" => pending \subseteq loads[cur] \X pointees
  /\ phase = "store" => pending \subseteq stores[cur]
  /\ phase = "offset" => pending \subseteq offsets[cur]
  /\ ~Active => pending = {}

(* Every variable has its type; a snapshot is taken only while a location  *)
(* is processed, and what a loop still has to visit is part of what the    *)
(* edge maps of the location hold.                                         *)
TypeOK ==
  /\ cs \subseteq Constraint
  /\ todo \subseteq cs
  /\ pts \in Relation
  /\ copySucc \in Relation
  /\ loads \in Relation
  /\ stores \in Relation
  /\ offsets \in [Loc -> SUBSET (Loc \X Suffix)]
  /\ worklist \in Seq(Loc)
  /\ inWl \subseteq Loc
  /\ phase \in Phases
  /\ Active => cur \in Loc
  /\ pointees \subseteq Loc
  /\ PendingType

(* in_wl is exactly the set of queued locations and no location is queued  *)
(* twice: a stale entry in in_wl would silently suppress a push, and the   *)
(* facts of that location would never be propagated.                       *)
WorklistMirrored ==
  /\ \A n \in Loc : n \in inWl <=> \E i \in 1 .. Len(worklist) : worklist[i] = n
  /\ \A i, j \in 1 .. Len(worklist) : worklist[i] = worklist[j] => i = j

CopyEdgesServed ==
  \A n \in Loc : \A d \in copySucc[n] :
    \/ n \in inWl
    \/ phase = "copy" /\ n = cur /\ d \in pending
    \/ pts[n] \subseteq pts[d]

LoadsServed ==
  \A n \in Loc : \A d \in loads[n] : \A o \in pts[n] :
    \/ n \in inWl
    \/ phase = "copy" /\ n = cur
    \/ phase = "load" /\ n = cur /\ <<d, o>> \in pending
    \/ d \in copySucc[o]

StoresServed ==
  \A n \in Loc : \A s \in stores[n] :
    \/ n \in inWl
    \/ phase \in {"copy", "load"} /\ n = cur
    \/ phase = "store" /\ n = cur /\ s \in pending
    \/ pts[n] \subseteq copySucc[s]

OffsetsServed ==
  \A n \in Loc : \A t \in offsets[n] :
    \/ n \in inWl
    \/ phase \in {"copy", "load", "store"} /\ n = cur
    \/ phase = "offset" /\ n = cur /\ t \in pending
    \/ \A o \in pts[n] : Project(o, t[2]) \in pts[t[1]]

(* No update is lost: whenever an edge, a load, a store or an offset is not *)
(* satisfied by the current sets, the location it hangs on is queued or is  *)
(* being processed and the loop has still to reach it.  The loops work on   *)
(* a copy of pts(n) and of the edge sets while both can grow under them.    *)
NoLostWork ==
  CopyEdgesServed /\ LoadsServed /\ StoresServed /\ OffsetsServed

(* What solve() returns is closed under the constraints and has nothing     *)
(* that a closed relation could do without: the may_alias answers of the    *)
(* lock, channel and race checks miss no alias the constraints entail and   *)
(* report none they do not, whatever order the hash containers give.        *)
LeastWhenDone == phase = "done" => Least(cs, pts)

(* solve() implements the abstract analysis: every set it changes grows     *)
(* only by facts demanded at that moment, and it returns only a closed      *)
(* relation.                                                                *)
Andersen == INSTANCE Andersen WITH rel <- pts, done <- phase = "done"

ImplementsAndersen == Andersen!AbsSpec

(* solve() returns: FIELD_DEPTH_CAP bounds the locations an offset can      *)
(* create, also when a pointer flows into its own field (p = &p->f).      *)
Terminates == <>(phase = "done")
=============================================================================
