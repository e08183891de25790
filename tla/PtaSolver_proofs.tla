------------------------- MODULE PtaSolver_proofs -------------------------
(***************************************************************************)
(* Proofs about the points-to solver, for every set of locations, every    *)
(* projection and every constraint set.                                    *)
(***************************************************************************)
EXTENDS PtaSolver, TLAPS

(* What the registration loop has done with a constraint it has visited.   *)
Recorded(c) ==
  /\ c.type = "AddressOf" => c.obj \in pts[c.dst]
  /\ c.type = "Copy" => c.dst \in copySucc[c.src]
  /\ c.type = "Load" => c.dst \in loads[c.src]
  /\ c.type = "Store" => c.src \in stores[c.dst]
  /\ c.type = "Offset" => <<c.dst, c.suffix>> \in offsets[c.src]

Registered ==
  /\ phase # "register" => todo = {}
  /\ \A c \in cs \ todo : Recorded(c)

(* The snapshot is current, or the location has been queued again.         *)
SnapshotValid ==
  Active => /\ pointees \subseteq pts[cur]
            /\ pts[cur] \subseteq pointees \/ cur \in inWl

(* Every edge comes from a constraint, directly or through a pointee.      *)
EdgeDemanded(n, d) ==
  \E c \in cs :
    \/ c.type = "Copy" /\ c.src = n /\ c.dst = d
    \/ c.type = "Load" /\ c.dst = d /\ n \in pts[c.src]
    \/ c.type = "Store" /\ c.src = n /\ d \in pts[c.dst]

EdgesDemanded ==
  /\ \A n \in Loc : \A d \in copySucc[n] : EdgeDemanded(n, d)
  /\ \A n \in Loc : \A d \in loads[n] :
       \E c \in cs : c.type = "Load" /\ c.src = n /\ c.dst = d
  /\ \A n \in Loc : \A s \in stores[n] :
       \E c \in cs : c.type = "Store" /\ c.src = s /\ c.dst = n
  /\ \A n \in Loc : \A t \in offsets[n] :
       \E c \in cs : c.type = "Offset" /\ c.src = n /\ c.dst = t[1] /\ c.suffix = t[2]

(* The returned relation was seen closed.                                  *)
DoneEmpty == phase = "done" => worklist = <<>>

(* NoLostWork alone is not inductive: a step of a loop serves an edge only  *)
(* if the snapshot it copies is still all of pts(n), and the closure of the *)
(* result needs every constraint to have reached the maps.                  *)
IInv ==
  /\ TypeOK
  /\ WorklistMirrored
  /\ Registered
  /\ SnapshotValid
  /\ EdgesDemanded
  /\ NoLostWork
  /\ DoneEmpty
-----------------------------------------------------------------------------
(* The fields of a constraint, by its kind. *)
LEMMA ConstraintFields ==
  ASSUME NEW c \in Constraint
  PROVE  /\ c.dst \in Loc
         /\ c.type = "AddressOf" => c.obj \in Loc
         /\ c.type \in {"Copy", "Load", "Store", "Offset"} => c.src \in Loc
         /\ c.type = "Offset" => c.suffix \in Suffix
  BY DEF Constraint

(* in_wl.insert(n) with push_back keeps the queue and the set in step. *)
LEMMA PushKeepsMirror ==
  ASSUME WorklistMirrored, worklist \in Seq(Loc), inWl \subseteq Loc,
         NEW n \in Loc, Push(n)
  PROVE  /\ WorklistMirrored'
         /\ worklist' \in Seq(Loc)
         /\ inWl' = inWl \cup {n}
<1>1. CASE n \in inWl
  BY <1>1 DEF Push, WorklistMirrored
<1>2. CASE n \notin inWl
  <2>1. worklist' = Append(worklist, n) /\ inWl' = inWl \cup {n}
    BY <1>2 DEF Push
  <2>2. /\ worklist' \in Seq(Loc)
        /\ Len(worklist') = Len(worklist) + 1
        /\ \A i \in 1 .. Len(worklist) : worklist'[i] = worklist[i]
        /\ worklist'[Len(worklist) + 1] = n
        /\ Len(worklist) \in Nat
    BY <2>1
  <2>3. \A i \in 1 .. Len(worklist) : worklist[i] # n /\ worklist[i] \in Loc
    BY <1>2 DEF WorklistMirrored
  <2>4. ASSUME NEW m \in Loc
        PROVE  m \in inWl' <=> \E i \in 1 .. Len(worklist') : worklist'[i] = m
    BY <2>1, <2>2 DEF WorklistMirrored
  <2>5. ASSUME NEW i \in 1 .. Len(worklist'), NEW j \in 1 .. Len(worklist'),
               worklist'[i] = worklist'[j]
        PROVE  i = j
    BY <2>2, <2>3, <2>5 DEF WorklistMirrored
  <2> QED
    BY <2>1, <2>2, <2>4, <2>5 DEF WorklistMirrored
<1> QED
  BY <1>1, <1>2

(* So does a push that depends on a change.                               *)
LEMMA PushIfKeepsMirror ==
  ASSUME WorklistMirrored, worklist \in Seq(Loc), inWl \subseteq Loc,
         NEW n \in Loc, NEW changed \in BOOLEAN, PushIf(changed, n)
  PROVE  /\ WorklistMirrored'
         /\ worklist' \in Seq(Loc)
         /\ inWl \subseteq inWl'
         /\ inWl' \subseteq inWl \cup {n}
         /\ changed => n \in inWl'
<1>1. CASE changed
  BY <1>1, PushKeepsMirror DEF PushIf
<1>2. CASE ~changed
  BY <1>2 DEF PushIf, WorklistMirrored
<1> QED
  BY <1>1, <1>2

(* pop_front with in_wl.remove does too. *)
LEMMA PopKeepsMirror ==
  ASSUME WorklistMirrored, worklist \in Seq(Loc), inWl \subseteq Loc, Pop
  PROVE  /\ WorklistMirrored'
         /\ worklist' \in Seq(Loc)
         /\ cur' \in Loc
         /\ inWl' = inWl \ {cur'}
<1>1. /\ worklist # <<>>
      /\ worklist' = Tail(worklist)
      /\ cur' = Head(worklist)
      /\ inWl' = inWl \ {cur'}
  BY DEF Pop
<1>2. /\ Len(worklist) \in Nat \ {0}
      /\ cur' = worklist[1]
      /\ cur' \in Loc
      /\ worklist' \in Seq(Loc)
      /\ Len(worklist') = Len(worklist) - 1
      /\ \A i \in 1 .. Len(worklist') : worklist'[i] = worklist[i + 1]
  BY <1>1
<1>3. ASSUME NEW m \in Loc
      PROVE  m \in inWl' <=> \E i \in 1 .. Len(worklist') : worklist'[i] = m
  <2>1. ASSUME m \in inWl'
        PROVE  \E i \in 1 .. Len(worklist') : worklist'[i] = m
    <3>1. PICK i \in 1 .. Len(worklist) : worklist[i] = m
      BY <1>1, <2>1 DEF WorklistMirrored
    <3>2. i # 1
      BY <1>1, <1>2, <2>1, <3>1
    <3>3. i - 1 \in 1 .. Len(worklist') /\ worklist'[i - 1] = m
      BY <1>2, <3>1, <3>2
    <3> QED
      BY <3>3
  <2>2. ASSUME NEW i \in 1 .. Len(worklist'), worklist'[i] = m
        PROVE  m \in inWl'
    <3>1. i + 1 \in 1 .. Len(worklist) /\ worklist[i + 1] = m /\ i + 1 # 1
      BY <1>2, <2>2
    <3>2. m # cur' /\ m \in inWl
      BY <1>2, <3>1 DEF WorklistMirrored
    <3> QED
      BY <1>1, <3>2
  <2> QED
    BY <2>1, <2>2
<1>4. ASSUME NEW i \in 1 .. Len(worklist'), NEW j \in 1 .. Len(worklist'),
             worklist'[i] = worklist'[j]
      PROVE  i = j
  <2>1. /\ i + 1 \in 1 .. Len(worklist) /\ j + 1 \in 1 .. Len(worklist)
        /\ worklist[i + 1] = worklist[j + 1]
    BY <1>2, <1>4
  <2> QED
    BY <2>1 DEF WorklistMirrored
<1> QED
  BY <1>1, <1>2, <1>3, <1>4 DEF WorklistMirrored
-----------------------------------------------------------------------------
(* Empty sets, an empty queue and everything still to register.           *)
LEMMA InitEstablishes == Init => IInv
<1> SUFFICES ASSUME Init PROVE IInv
  OBVIOUS
<1>1. TypeOK
  BY InputAssumption DEF Init, TypeOK, Relation, Phases, Active, PendingType
<1>2. WorklistMirrored
  BY DEF Init, WorklistMirrored
<1>3. Registered /\ SnapshotValid /\ DoneEmpty
  BY DEF Init, Registered, SnapshotValid, DoneEmpty, Active
<1>4. EdgesDemanded
  BY DEF Init, EdgesDemanded
<1>5. NoLostWork
  BY DEF Init, NoLostWork, CopyEdgesServed, LoadsServed, StoresServed, OffsetsServed
<1> QED
  BY <1>1, <1>2, <1>3, <1>4, <1>5 DEF IInv

(* The type invariant and the mirror of the queue, one case per action.    *)
LEMMA TypeStep ==
  ASSUME TypeOK, WorklistMirrored, [Next]_vars
  PROVE  TypeOK' /\ WorklistMirrored'
<1> USE DEF TypeOK, Relation, Phases, Active, PendingType, AddEdge
<1>1. CASE UNCHANGED vars
  BY <1>1 DEF vars, edgeVars, loopVars, WorklistMirrored
<1>2. ASSUME NEW c \in todo, RegisterAddressOf(c)
      PROVE  TypeOK' /\ WorklistMirrored'
  <2>1. c.dst \in Loc /\ c.obj \in Loc
    BY <1>2, ConstraintFields DEF RegisterAddressOf, Visit
  <2>2. WorklistMirrored' /\ worklist' \in Seq(Loc) /\ inWl' \subseteq Loc
    BY <1>2, <2>1, PushIfKeepsMirror DEF RegisterAddressOf
  <2> QED
    BY <1>2, <2>1, <2>2 DEF RegisterAddressOf, Visit, edgeVars, loopVars
<1>3. ASSUME NEW c \in todo, RegisterCopy(c) PROVE TypeOK' /\ WorklistMirrored'
  <2>1. c.dst \in Loc /\ c.src \in Loc
    BY <1>3, ConstraintFields DEF RegisterCopy, Visit
  <2>2. WorklistMirrored' /\ worklist' \in Seq(Loc) /\ inWl' \subseteq Loc
    BY <1>3, <2>1, PushKeepsMirror DEF RegisterCopy
  <2> QED
    BY <1>3, <2>1, <2>2 DEF RegisterCopy, Visit, loopVars
<1>4. ASSUME NEW c \in todo, RegisterLoad(c) PROVE TypeOK' /\ WorklistMirrored'
  <2>1. c.dst \in Loc /\ c.src \in Loc
    BY <1>4, ConstraintFields DEF RegisterLoad, Visit
  <2>2. WorklistMirrored' /\ worklist' \in Seq(Loc) /\ inWl' \subseteq Loc
    BY <1>4, <2>1, PushKeepsMirror DEF RegisterLoad
  <2> QED
    BY <1>4, <2>1, <2>2 DEF RegisterLoad, Visit, loopVars
<1>5. ASSUME NEW c \in todo, RegisterStore(c) PROVE TypeOK' /\ WorklistMirrored'
  <2>1. c.dst \in Loc /\ c.src \in Loc
    BY <1>5, ConstraintFields DEF RegisterStore, Visit
  <2>2. WorklistMirrored' /\ worklist' \in Seq(Loc) /\ inWl' \subseteq Loc
    BY <1>5, <2>1, PushKeepsMirror DEF RegisterStore
  <2> QED
    BY <1>5, <2>1, <2>2 DEF RegisterStore, Visit, loopVars
<1>6. ASSUME NEW c \in todo, RegisterOffset(c) PROVE TypeOK' /\ WorklistMirrored'
  <2>1. c.dst \in Loc /\ c.src \in Loc /\ c.suffix \in Suffix
    BY <1>6, ConstraintFields DEF RegisterOffset, Visit
  <2>2. WorklistMirrored' /\ worklist' \in Seq(Loc) /\ inWl' \subseteq Loc
    BY <1>6, <2>1, PushKeepsMirror DEF RegisterOffset
  <2> QED
    BY <1>6, <2>1, <2>2 DEF RegisterOffset, Visit, loopVars
<1>7. CASE EndRegister
  BY <1>7 DEF EndRegister, edgeVars, WorklistMirrored
<1>8. CASE Pop
  <2>1. /\ WorklistMirrored' /\ worklist' \in Seq(Loc)
        /\ cur' \in Loc /\ inWl' \subseteq Loc
    BY <1>8, PopKeepsMirror
  <2> QED
    BY <1>8, <2>1 DEF Pop, edgeVars
<1>9. ASSUME NEW dst \in pending, CopyTo(dst) PROVE TypeOK' /\ WorklistMirrored'
  <2>1. dst \in Loc
    BY <1>9 DEF CopyTo
  <2>2. WorklistMirrored' /\ worklist' \in Seq(Loc) /\ inWl' \subseteq Loc
    BY <1>9, <2>1, PushIfKeepsMirror DEF CopyTo
  <2> QED
    BY <1>9, <2>1, <2>2 DEF CopyTo, edgeVars, loopVars
<1>10. CASE BeginLoads
  BY <1>10 DEF BeginLoads, edgeVars, WorklistMirrored
<1>11. ASSUME NEW e \in pending, LoadEdge(e[1], e[2])
       PROVE  TypeOK' /\ WorklistMirrored'
  <2>1. e[1] \in Loc /\ e[2] \in Loc
    BY <1>11 DEF LoadEdge
  <2>2. WorklistMirrored' /\ worklist' \in Seq(Loc) /\ inWl' \subseteq Loc
    BY <1>11, <2>1, PushIfKeepsMirror DEF LoadEdge
  <2> QED
    BY <1>11, <2>1, <2>2 DEF LoadEdge, loopVars
<1>12. CASE BeginStores
  BY <1>12 DEF BeginStores, edgeVars, WorklistMirrored
<1>13. ASSUME NEW src \in pending, StoreFrom(src) PROVE TypeOK' /\ WorklistMirrored'
  <2>1. src \in Loc
    BY <1>13 DEF StoreFrom
  <2>2. WorklistMirrored' /\ worklist' \in Seq(Loc) /\ inWl' \subseteq Loc
    BY <1>13, <2>1, PushIfKeepsMirror DEF StoreFrom
  <2> QED
    BY <1>13, <2>1, <2>2 DEF StoreFrom, loopVars
<1>14. CASE BeginOffsets
  BY <1>14 DEF BeginOffsets, edgeVars, WorklistMirrored
<1>15. ASSUME NEW t \in pending, OffsetTo(t) PROVE TypeOK' /\ WorklistMirrored'
  <2>1. t[1] \in Loc /\ t[2] \in Suffix
    BY <1>15 DEF OffsetTo
  <2>2. Projected(t[2]) \subseteq Loc
    BY <2>1, ProjectAssumption DEF Projected
  <2>3. WorklistMirrored' /\ worklist' \in Seq(Loc) /\ inWl' \subseteq Loc
    BY <1>15, <2>1, PushIfKeepsMirror DEF OffsetTo
  <2> QED
    BY <1>15, <2>1, <2>2, <2>3 DEF OffsetTo, edgeVars, loopVars
<1>16. CASE EndIteration
  BY <1>16 DEF EndIteration, edgeVars, WorklistMirrored
<1>17. CASE Return
  BY <1>17 DEF Return, edgeVars, WorklistMirrored
<1> QED
  BY <1>1, <1>2, <1>3, <1>4, <1>5, <1>6, <1>7, <1>8, <1>9, <1>10, <1>11, <1>12,
     <1>13, <1>14, <1>15, <1>16, <1>17
  DEF Next, Register, Process, Terminated
-----------------------------------------------------------------------------
(* Sets and edges only grow, and nothing leaves in_wl except by a Pop.     *)
LEMMA Growth ==
  ASSUME TypeOK, [Next]_vars
  PROVE  /\ cs' = cs
         /\ todo' \subseteq todo
         /\ \A n \in Loc : /\ pts[n] \subseteq pts'[n]
                           /\ copySucc[n] \subseteq copySucc'[n]
                           /\ loads[n] \subseteq loads'[n]
                           /\ stores[n] \subseteq stores'[n]
                           /\ offsets[n] \subseteq offsets'[n]
<1> USE DEF TypeOK, Relation, AddEdge, edgeVars, loopVars
<1>1. CASE UNCHANGED vars
  BY <1>1 DEF vars
<1>2. CASE Register
  BY <1>2 DEF Register, Visit, RegisterAddressOf, RegisterCopy, RegisterLoad,
     RegisterStore, RegisterOffset
<1>3. CASE EndRegister \/ Return
  BY <1>3 DEF EndRegister, Return
<1>4. CASE Pop \/ BeginLoads \/ BeginStores \/ BeginOffsets \/ EndIteration
  BY <1>4 DEF Pop, BeginLoads, BeginStores, BeginOffsets, EndIteration
<1>5. CASE \E dst \in pending : CopyTo(dst)
  BY <1>5 DEF CopyTo
<1>6. CASE \E e \in pending : LoadEdge(e[1], e[2])
  BY <1>6 DEF LoadEdge
<1>7. CASE \E src \in pending : StoreFrom(src)
  BY <1>7 DEF StoreFrom
<1>8. CASE \E t \in pending : OffsetTo(t)
  BY <1>8 DEF OffsetTo
<1> QED
  BY <1>1, <1>2, <1>3, <1>4, <1>5, <1>6, <1>7, <1>8
  DEF Next, Process, Terminated

(* What a visited constraint left behind stays: nothing is ever removed.   *)
LEMMA RegisteredStep ==
  ASSUME TypeOK, Registered, [Next]_vars
  PROVE  Registered'
<1>1. ASSUME NEW c \in cs' \ todo'
      PROVE  Recorded(c)'
  <2>1. c \in Constraint
    BY Growth DEF TypeOK
  <2>2. CASE c \notin todo
    <3>1. Recorded(c)
      BY <1>1, <2>2, Growth DEF Registered
    <3> QED
      BY <2>1, <3>1, Growth, ConstraintFields DEF Recorded
  <2>3. CASE c \in todo
    <3>1. \E e \in todo : \/ RegisterAddressOf(e) \/ RegisterCopy(e)
                          \/ RegisterLoad(e) \/ RegisterStore(e)
                          \/ RegisterOffset(e)
      BY <1>1, <2>3
      DEF Next, Register, EndRegister, Process, Pop, CopyTo, BeginLoads, LoadEdge,
          BeginStores, StoreFrom, BeginOffsets, OffsetTo, EndIteration, Return,
          Terminated, vars
    <3>2. \/ RegisterAddressOf(c) \/ RegisterCopy(c) \/ RegisterLoad(c)
          \/ RegisterStore(c) \/ RegisterOffset(c)
      BY <1>1, <2>3, <3>1
      DEF RegisterAddressOf, RegisterCopy, RegisterLoad, RegisterStore,
          RegisterOffset, Visit
    <3> QED
      BY <2>1, <3>2, ConstraintFields
      DEF RegisterAddressOf, RegisterCopy, RegisterLoad, RegisterStore,
          RegisterOffset, Visit, AddEdge, Recorded, TypeOK, Relation
  <2> QED
    BY <2>2, <2>3
<1>2. phase' # "register" => todo' = {}
  BY DEF Registered, Next, Register, RegisterAddressOf, RegisterCopy, RegisterLoad,
         RegisterStore, RegisterOffset, Visit, EndRegister, Process, Pop, CopyTo,
         BeginLoads, LoadEdge, BeginStores, StoreFrom, BeginOffsets, OffsetTo,
         EndIteration, Return, Terminated, vars, loopVars
<1> QED
  BY <1>1, <1>2 DEF Registered

(* cur's set may outgrow the snapshot, but then cur is queued again.       *)
LEMMA SnapshotStep ==
  ASSUME TypeOK, WorklistMirrored, SnapshotValid, [Next]_vars
  PROVE  SnapshotValid'
<1> USE DEF TypeOK, Relation, Active, SnapshotValid, edgeVars, loopVars
<1>1. CASE UNCHANGED vars
  BY <1>1 DEF vars
<1>2. CASE Register
  BY <1>2 DEF Register, RegisterAddressOf, RegisterCopy, RegisterLoad,
     RegisterStore, RegisterOffset, Visit
<1>3. CASE EndRegister \/ EndIteration \/ Return
  BY <1>3 DEF EndRegister, EndIteration, Return
<1>4. CASE Pop
  BY <1>4, PopKeepsMirror DEF Pop
<1>5. CASE \E dst \in pending : CopyTo(dst)
  BY <1>5 DEF CopyTo, PushIf, Push, PendingType
<1>6. CASE BeginLoads \/ BeginStores \/ BeginOffsets
  BY <1>6 DEF BeginLoads, BeginStores, BeginOffsets
<1>7. CASE \E e \in pending : LoadEdge(e[1], e[2])
  BY <1>7 DEF LoadEdge, PushIf, Push
<1>8. CASE \E src \in pending : StoreFrom(src)
  BY <1>8 DEF StoreFrom, PushIf, Push
<1>9. CASE \E t \in pending : OffsetTo(t)
  BY <1>9 DEF OffsetTo, PushIf, Push, PendingType
<1> QED
  BY <1>1, <1>2, <1>3, <1>4, <1>5, <1>6, <1>7, <1>8, <1>9
  DEF Next, Process, Terminated

(* The loop is left only with an empty queue, and the end is final.        *)
LEMMA DoneStep ==
  ASSUME DoneEmpty, [Next]_vars
  PROVE  DoneEmpty'
  BY DEF DoneEmpty, Next, Register, RegisterAddressOf, RegisterCopy, RegisterLoad,
         RegisterStore, RegisterOffset, Visit, EndRegister, Process, Pop, CopyTo,
         BeginLoads, LoadEdge, BeginStores, StoreFrom, BeginOffsets, OffsetTo,
         EndIteration, Return, Terminated, vars, loopVars
-----------------------------------------------------------------------------
(* Edges are added for a constraint of the set, or for a pointee of one.   *)
LEMMA EdgesStep ==
  ASSUME TypeOK, SnapshotValid, EdgesDemanded, [Next]_vars
  PROVE  EdgesDemanded'
<1> USE DEF TypeOK, Relation, AddEdge, edgeVars, loopVars
<1>1. ASSUME NEW n \in Loc, NEW d, EdgeDemanded(n, d)
      PROVE  EdgeDemanded(n, d)'
  BY <1>1, Growth, ConstraintFields DEF EdgeDemanded
<1>2. CASE UNCHANGED vars
  BY <1>1, <1>2 DEF vars, EdgesDemanded
<1>3. ASSUME NEW c \in todo, RegisterAddressOf(c) PROVE EdgesDemanded'
  BY <1>1, <1>3 DEF RegisterAddressOf, Visit, EdgesDemanded
<1>4. ASSUME NEW c \in todo, RegisterCopy(c) PROVE EdgesDemanded'
  <2>1. c \in cs /\ c.type = "Copy" /\ cs' = cs
    BY <1>4 DEF RegisterCopy, Visit
  <2>2. EdgeDemanded(c.src, c.dst)'
    BY <2>1 DEF EdgeDemanded
  <2> QED
    BY <1>1, <1>4, <2>1, <2>2, ConstraintFields DEF RegisterCopy, EdgesDemanded
<1>5. ASSUME NEW c \in todo, RegisterLoad(c) PROVE EdgesDemanded'
  BY <1>1, <1>5, ConstraintFields DEF RegisterLoad, Visit, EdgesDemanded
<1>6. ASSUME NEW c \in todo, RegisterStore(c) PROVE EdgesDemanded'
  BY <1>1, <1>6, ConstraintFields DEF RegisterStore, Visit, EdgesDemanded
<1>7. ASSUME NEW c \in todo, RegisterOffset(c) PROVE EdgesDemanded'
  BY <1>1, <1>7, ConstraintFields, SMTT(30) DEF RegisterOffset, Visit, EdgesDemanded
<1>8. CASE \/ EndRegister \/ Pop \/ BeginLoads \/ BeginStores \/ BeginOffsets
           \/ EndIteration \/ Return
  BY <1>1, <1>8 DEF EndRegister, Pop, BeginLoads, BeginStores, BeginOffsets,
     EndIteration, Return, EdgesDemanded
<1>9. CASE \E dst \in pending : CopyTo(dst)
  BY <1>1, <1>9 DEF CopyTo, EdgesDemanded
<1>10. ASSUME NEW e \in pending, LoadEdge(e[1], e[2]) PROVE EdgesDemanded'
  <2>1. /\ cur \in Loc /\ e[1] \in loads[cur] /\ e[2] \in pointees
        /\ pointees \subseteq pts[cur] /\ pts' = pts /\ cs' = cs
    BY <1>10 DEF LoadEdge, PendingType, SnapshotValid, Active
  <2>2. EdgeDemanded(e[2], e[1])'
    BY <2>1 DEF EdgeDemanded, EdgesDemanded
  <2> QED
    BY <1>1, <1>10, <2>1, <2>2 DEF LoadEdge, EdgesDemanded
<1>11. ASSUME NEW src \in pending, StoreFrom(src) PROVE EdgesDemanded'
  <2>1. /\ cur \in Loc /\ src \in stores[cur]
        /\ pointees \subseteq pts[cur] /\ pts' = pts /\ cs' = cs
    BY <1>11 DEF StoreFrom, PendingType, SnapshotValid, Active
  <2>2. \A d \in pointees : EdgeDemanded(src, d)'
    BY <2>1 DEF EdgeDemanded, EdgesDemanded
  <2> QED
    BY <1>1, <1>11, <2>1, <2>2 DEF StoreFrom, EdgesDemanded
<1>12. CASE \E t \in pending : OffsetTo(t)
  BY <1>1, <1>12 DEF OffsetTo, EdgesDemanded
<1> QED
  BY <1>2, <1>3, <1>4, <1>5, <1>6, <1>7, <1>8, <1>9, <1>10, <1>11, <1>12
  DEF Next, Register, Process, Terminated

(* No step loses an update: one case per action, one conjunct per map.     *)
LEMMA NoLostWorkStep ==
  ASSUME TypeOK, SnapshotValid, NoLostWork, [Next]_vars
  PROVE  NoLostWork'
<1> USE DEF TypeOK, Relation, AddEdge, edgeVars, loopVars, NoLostWork, PushIf, Push
<1>1. CASE UNCHANGED vars
  BY <1>1 DEF vars, CopyEdgesServed, LoadsServed, StoresServed, OffsetsServed
<1>2. ASSUME NEW c \in todo, RegisterAddressOf(c) PROVE NoLostWork'
  BY <1>2, ConstraintFields
  DEF RegisterAddressOf, Visit, CopyEdgesServed, LoadsServed, StoresServed,
      OffsetsServed
<1>3. ASSUME NEW c \in todo, RegisterCopy(c) PROVE NoLostWork'
  BY <1>3, ConstraintFields
  DEF RegisterCopy, Visit, CopyEdgesServed, LoadsServed, StoresServed, OffsetsServed
<1>4. ASSUME NEW c \in todo, RegisterLoad(c) PROVE NoLostWork'
  BY <1>4, ConstraintFields
  DEF RegisterLoad, Visit, CopyEdgesServed, LoadsServed, StoresServed, OffsetsServed
<1>5. ASSUME NEW c \in todo, RegisterStore(c) PROVE NoLostWork'
  BY <1>5, ConstraintFields
  DEF RegisterStore, Visit, CopyEdgesServed, LoadsServed, StoresServed, OffsetsServed
<1>6. ASSUME NEW c \in todo, RegisterOffset(c) PROVE NoLostWork'
  BY <1>6, ConstraintFields
  DEF RegisterOffset, Visit, CopyEdgesServed, LoadsServed, StoresServed, OffsetsServed
<1>7. CASE EndRegister \/ Return
  BY <1>7 DEF EndRegister, Return, CopyEdgesServed, LoadsServed, StoresServed,
     OffsetsServed
<1>8. CASE Pop
  BY <1>8 DEF Pop, CopyEdgesServed, LoadsServed, StoresServed, OffsetsServed
<1>9. ASSUME NEW dst \in pending, CopyTo(dst) PROVE NoLostWork'
  <2>1. CopyEdgesServed'
    BY <1>9 DEF CopyTo, PendingType, SnapshotValid, Active, CopyEdgesServed
  <2>2. LoadsServed'
    BY <1>9 DEF CopyTo, PendingType, LoadsServed
  <2>3. StoresServed'
    BY <1>9 DEF CopyTo, PendingType, StoresServed
  <2>4. OffsetsServed'
    BY <1>9 DEF CopyTo, PendingType, OffsetsServed
  <2> QED
    BY <2>1, <2>2, <2>3, <2>4
<1>10. CASE BeginLoads
  BY <1>10 DEF BeginLoads, SnapshotValid, Active, CopyEdgesServed, LoadsServed,
     StoresServed, OffsetsServed
<1>11. ASSUME NEW e \in pending, LoadEdge(e[1], e[2]) PROVE NoLostWork'
  <2>1. CopyEdgesServed'
    BY <1>11 DEF LoadEdge, PendingType, CopyEdgesServed
  <2>2. LoadsServed'
    BY <1>11, ZenonT(60) DEF LoadEdge, PendingType, SnapshotValid, Active, LoadsServed
  <2>3. StoresServed'
    BY <1>11 DEF LoadEdge, PendingType, StoresServed
  <2>4. OffsetsServed'
    BY <1>11 DEF LoadEdge, PendingType, OffsetsServed
  <2> QED
    BY <2>1, <2>2, <2>3, <2>4
<1>12. CASE BeginStores
  BY <1>12 DEF BeginStores, CopyEdgesServed, LoadsServed, StoresServed, OffsetsServed
<1>13. ASSUME NEW src \in pending, StoreFrom(src) PROVE NoLostWork'
  <2>1. CopyEdgesServed'
    BY <1>13 DEF StoreFrom, PendingType, CopyEdgesServed
  <2>2. LoadsServed'
    BY <1>13 DEF StoreFrom, PendingType, LoadsServed
  <2>3. StoresServed'
    BY <1>13 DEF StoreFrom, PendingType, SnapshotValid, Active, StoresServed
  <2>4. OffsetsServed'
    BY <1>13 DEF StoreFrom, PendingType, OffsetsServed
  <2> QED
    BY <2>1, <2>2, <2>3, <2>4
<1>14. CASE BeginOffsets
  BY <1>14 DEF BeginOffsets, CopyEdgesServed, LoadsServed, StoresServed, OffsetsServed
<1>15. ASSUME NEW t \in pending, OffsetTo(t) PROVE NoLostWork'
  <2>1. CopyEdgesServed'
    BY <1>15 DEF OffsetTo, PendingType, CopyEdgesServed
  <2>2. LoadsServed'
    BY <1>15 DEF OffsetTo, PendingType, LoadsServed
  <2>3. StoresServed'
    BY <1>15 DEF OffsetTo, PendingType, StoresServed
  <2>4. OffsetsServed'
    <3>1. /\ phase = "offset" /\ phase' = phase /\ cur' = cur /\ cur \in Loc
          /\ offsets' = offsets /\ pending' = pending \ {t}
          /\ t[1] \in Loc /\ inWl \subseteq inWl'
          /\ pts' = [pts EXCEPT ![t[1]] = @ \cup Projected(t[2])]
          /\ ~ Projected(t[2]) \subseteq pts[t[1]] => t[1] \in inWl'
          /\ pts[cur] \subseteq pointees \/ cur \in inWl
      BY <1>15 DEF OffsetTo, PendingType, SnapshotValid, Active
    <3>2. ASSUME NEW n \in Loc, n \notin inWl'
          PROVE  pts'[n] = pts[n]
      BY <3>1, <3>2
    <3>3. ASSUME NEW n \in Loc, NEW u \in offsets[n], n \notin inWl',
                 NEW o \in pts[n], n # cur \/ u \notin pending \ {t}
          PROVE  Project(o, u[2]) \in pts'[u[1]]
      <4>1. CASE n = cur /\ u = t
        BY <3>1, <3>3, <4>1 DEF Projected
      <4>2. CASE ~(n = cur /\ u = t)
        <5>1. Project(o, u[2]) \in pts[u[1]] /\ u[1] \in Loc
          BY <3>1, <3>3, <4>2 DEF OffsetsServed
        <5> QED
          BY <3>1, <5>1
      <4> QED
        BY <4>1, <4>2
    <3> QED
      BY <3>1, <3>2, <3>3 DEF OffsetsServed
  <2> QED
    BY <2>1, <2>2, <2>3, <2>4
<1>16. CASE EndIteration
  BY <1>16 DEF EndIteration, CopyEdgesServed, LoadsServed, StoresServed, OffsetsServed
<1> QED
  BY <1>1, <1>2, <1>3, <1>4, <1>5, <1>6, <1>7, <1>8, <1>9, <1>10, <1>11, <1>12,
     <1>13, <1>14, <1>15, <1>16
  DEF Next, Register, Process, Terminated
-----------------------------------------------------------------------------
(* The inductive invariant: types, the mirror of the queue, visited        *)
(* constraints recorded, a valid snapshot, edges with a reason, no update  *)
(* lost.  It holds throughout solve().                                     *)
THEOREM Inductive == Spec => []IInv
<1>1. Init => IInv
  BY InitEstablishes
<1>2. IInv /\ [Next]_vars => IInv'
  BY TypeStep, RegisteredStep, SnapshotStep, EdgesStep, NoLostWorkStep, DoneStep
  DEF IInv
<1> QED
  BY <1>1, <1>2, PTL DEF Spec

(* The variables of solve() keep their types, the loops visit only what     *)
(* the edge maps hold, and every projection stays inside the arena.         *)
THEOREM TypeCorrect == Spec => []TypeOK
<1>1. IInv => TypeOK
  BY DEF IInv
<1> QED
  BY <1>1, Inductive, PTL

(* in_wl and the queue never disagree and no location is queued twice.      *)
THEOREM MirrorCorrect == Spec => []WorklistMirrored
<1>1. IInv => WorklistMirrored
  BY DEF IInv
<1> QED
  BY <1>1, Inductive, PTL

(* Nothing the constraints demand is ever forgotten while solve() runs.     *)
THEOREM NoUpdateLost == Spec => []NoLostWork
<1>1. IInv => NoLostWork
  BY DEF IInv
<1> QED
  BY <1>1, Inductive, PTL

(* When the loop ends the relation satisfies every constraint.              *)
LEMMA ClosedAtEnd ==
  ASSUME IInv, phase = "pop" \/ phase = "done", worklist = <<>>
  PROVE  Closed(cs, pts)
<1> USE DEF IInv, TypeOK, Relation
<1>1. inWl = {}
  BY DEF WorklistMirrored
<1>2. \A n \in Loc : \A d \in copySucc[n] : pts[n] \subseteq pts[d]
  BY <1>1 DEF NoLostWork, CopyEdgesServed
<1>3. \A n \in Loc : \A d \in loads[n] : \A o \in pts[n] : d \in copySucc[o]
  BY <1>1 DEF NoLostWork, LoadsServed
<1>4. \A n \in Loc : \A s \in stores[n] : pts[n] \subseteq copySucc[s]
  BY <1>1 DEF NoLostWork, StoresServed
<1>5. \A n \in Loc : \A t \in offsets[n] : \A o \in pts[n] :
        Project(o, t[2]) \in pts[t[1]]
  BY <1>1 DEF NoLostWork, OffsetsServed
<1>6. \A c \in cs : c \in Constraint /\ Recorded(c)
  BY DEF Registered
<1>7. ASSUME NEW n \in Loc, NEW o \in Loc, Demanded(cs, pts, n, o)
      PROVE  o \in pts[n]
  <2>1. PICK c \in cs :
          \/ c.type = "AddressOf" /\ c.dst = n /\ c.obj = o
          \/ c.type = "Copy" /\ c.dst = n /\ o \in pts[c.src]
          \/ c.type = "Load" /\ c.dst = n /\ \E m \in pts[c.src] : o \in pts[m]
          \/ c.type = "Store" /\ n \in pts[c.dst] /\ o \in pts[c.src]
          \/ /\ c.type = "Offset" /\ c.dst = n
             /\ \E m \in pts[c.src] : o = Project(m, c.suffix)
    BY <1>7 DEF Demanded
  <2>2. CASE c.type = "AddressOf"
    BY <1>6, <2>1, <2>2 DEF Recorded
  <2>3. CASE c.type = "Copy"
    BY <1>2, <1>6, <2>1, <2>3, ConstraintFields DEF Recorded
  <2>4. CASE c.type = "Load"
    BY <1>2, <1>3, <1>6, <2>1, <2>4, ConstraintFields DEF Recorded
  <2>5. CASE c.type = "Store"
    BY <1>2, <1>4, <1>6, <2>1, <2>5, ConstraintFields DEF Recorded
  <2>6. CASE c.type = "Offset"
    <3>1. <<c.dst, c.suffix>> \in offsets[c.src] /\ c.src \in Loc
      BY <1>6, <2>6, ConstraintFields DEF Recorded
    <3> QED
      BY <1>5, <2>1, <2>6, <3>1
  <2> QED
    BY <2>1, <2>2, <2>3, <2>4, <2>5, <2>6
<1> QED
  BY <1>7 DEF Closed

(* What a step adds to a set was demanded before the step.                 *)
LEMMA StepsDemanded ==
  ASSUME IInv, Next
  PROVE  \/ pts' = pts
         \/ \E n \in Loc : \E new \in SUBSET {o \in Loc : Demanded(cs, pts, n, o)} :
              pts' = [pts EXCEPT ![n] = @ \cup new]
<1> USE DEF IInv, TypeOK, Relation
<1>1. ASSUME NEW c \in todo, RegisterAddressOf(c)
      PROVE  \E n \in Loc : \E new \in SUBSET {o \in Loc : Demanded(cs, pts, n, o)} :
               pts' = [pts EXCEPT ![n] = @ \cup new]
  <2>1. /\ c \in cs /\ c.type = "AddressOf" /\ c.dst \in Loc /\ c.obj \in Loc
        /\ pts' = [pts EXCEPT ![c.dst] = @ \cup {c.obj}]
    BY <1>1, ConstraintFields DEF RegisterAddressOf, Visit, AddEdge
  <2>2. Demanded(cs, pts, c.dst, c.obj)
    BY <2>1 DEF Demanded
  <2>3. {c.obj} \in SUBSET {o \in Loc : Demanded(cs, pts, c.dst, o)}
    BY <2>1, <2>2
  <2> QED
    BY <2>1, <2>3
<1>2. ASSUME NEW dst \in pending, CopyTo(dst)
      PROVE  \E n \in Loc : \E new \in SUBSET {o \in Loc : Demanded(cs, pts, n, o)} :
               pts' = [pts EXCEPT ![n] = @ \cup new]
  <2>1. /\ cur \in Loc /\ dst \in copySucc[cur] /\ dst \in Loc
        /\ pointees \subseteq pts[cur]
        /\ pts' = [pts EXCEPT ![dst] = @ \cup pointees]
    BY <1>2 DEF CopyTo, PendingType, SnapshotValid, Active
  <2>2. EdgeDemanded(cur, dst)
    BY <2>1 DEF EdgesDemanded
  <2>3. \A o \in pointees : Demanded(cs, pts, dst, o)
    BY <2>1, <2>2 DEF EdgeDemanded, Demanded
  <2>4. pointees \in SUBSET {o \in Loc : Demanded(cs, pts, dst, o)}
    BY <2>3
  <2> QED
    BY <2>1, <2>4
<1>3. ASSUME NEW t \in pending, OffsetTo(t)
      PROVE  \E n \in Loc : \E new \in SUBSET {o \in Loc : Demanded(cs, pts, n, o)} :
               pts' = [pts EXCEPT ![n] = @ \cup new]
  <2>1. /\ cur \in Loc /\ t \in offsets[cur]
        /\ t[1] \in Loc /\ t[2] \in Suffix
        /\ pointees \subseteq pts[cur]
        /\ pts' = [pts EXCEPT ![t[1]] = @ \cup Projected(t[2])]
    BY <1>3 DEF OffsetTo, PendingType, SnapshotValid, Active
  <2>2. PICK c \in cs : /\ c.type = "Offset" /\ c.src = cur
                        /\ c.dst = t[1] /\ c.suffix = t[2]
    BY <2>1 DEF EdgesDemanded
  <2>3. \A o \in Projected(t[2]) : o \in Loc /\ Demanded(cs, pts, t[1], o)
    BY <2>1, <2>2, ProjectAssumption DEF Projected, Demanded
  <2>4. Projected(t[2]) \in SUBSET {o \in Loc : Demanded(cs, pts, t[1], o)}
    BY <2>3
  <2> QED
    BY <2>1, <2>4
<1>4. CASE \/ \E c \in todo : RegisterCopy(c) \/ RegisterLoad(c) \/ RegisterStore(c)
                             \/ RegisterOffset(c)
           \/ EndRegister \/ Return \/ Terminated
  BY <1>4 DEF RegisterCopy, RegisterLoad, RegisterStore, RegisterOffset, EndRegister,
     Return, Terminated, vars
<1>5. CASE \/ Pop \/ BeginLoads \/ (\E e \in pending : LoadEdge(e[1], e[2]))
           \/ BeginStores \/ (\E src \in pending : StoreFrom(src)) \/ BeginOffsets
           \/ EndIteration
  BY <1>5 DEF Pop, BeginLoads, LoadEdge, BeginStores, StoreFrom, BeginOffsets,
     EndIteration
<1> QED
  BY <1>1, <1>2, <1>3, <1>4, <1>5 DEF Next, Register, Process

(* solve() implements the abstract analysis: its sets grow only by demanded *)
(* facts, and it returns only when nothing more is demanded.                *)
THEOREM Refinement == Spec => ImplementsAndersen
<1>1. Init => Andersen!AbsInit
  BY DEF Init, Andersen!AbsInit
<1>2. IInv /\ [Next]_vars => [Andersen!AbsNext]_(Andersen!absVars)
  <2> SUFFICES ASSUME IInv, [Next]_vars
               PROVE  [Andersen!AbsNext]_(Andersen!absVars)
    OBVIOUS
  <2>1. CASE UNCHANGED vars
    BY <2>1 DEF vars, loopVars, Andersen!absVars
  <2>2. CASE Return
    <3>1. Closed(cs, pts)
      BY <2>2, ClosedAtEnd DEF Return
    <3> QED
      BY <2>2, <3>1 DEF Return, Andersen!AbsNext, Andersen!Finish, Andersen!Closed,
         Andersen!Demanded, Closed, Demanded
  <2>3. CASE Next /\ ~Return /\ ~UNCHANGED vars
    <3>1. cs' = cs /\ (phase' = "done") = FALSE /\ (phase = "done") = FALSE
      BY <2>3 DEF Next, Register, RegisterAddressOf, RegisterCopy, RegisterLoad,
         RegisterStore, RegisterOffset, Visit, EndRegister, Process, Pop, CopyTo,
         BeginLoads, LoadEdge, BeginStores, StoreFrom, BeginOffsets, OffsetTo,
         EndIteration, Terminated, loopVars
    <3>2. CASE pts' = pts
      BY <3>1, <3>2 DEF Andersen!absVars
    <3>3. ASSUME NEW n \in Loc,
                 NEW new \in SUBSET {o \in Loc : Demanded(cs, pts, n, o)},
                 pts' = [pts EXCEPT ![n] = @ \cup new]
          PROVE  Andersen!Grow
      BY <3>1, <3>3 DEF Andersen!Grow, Andersen!Demanded, Demanded
    <3> QED
      BY <2>3, <3>2, <3>3, StepsDemanded DEF Andersen!AbsNext
  <2> QED
    BY <2>1, <2>2, <2>3
<1> QED
  BY <1>1, <1>2, Inductive, PTL DEF Spec, ImplementsAndersen, Andersen!AbsSpec
-----------------------------------------------------------------------------
(* More pointees demand more.                                               *)
LEMMA DemandedMonotone ==
  ASSUME NEW C \in SUBSET Constraint, NEW r \in Relation, NEW q \in Relation,
         Below(r, q), NEW n \in Loc, NEW o \in Loc, Demanded(C, r, n, o)
  PROVE  Demanded(C, q, n, o)
<1>1. PICK c \in C :
        \/ c.type = "AddressOf" /\ c.dst = n /\ c.obj = o
        \/ c.type = "Copy" /\ c.dst = n /\ o \in r[c.src]
        \/ c.type = "Load" /\ c.dst = n /\ \E m \in r[c.src] : o \in r[m]
        \/ c.type = "Store" /\ n \in r[c.dst] /\ o \in r[c.src]
        \/ /\ c.type = "Offset" /\ c.dst = n
           /\ \E m \in r[c.src] : o = Project(m, c.suffix)
  BY DEF Demanded
<1>2. \A m \in Loc : r[m] \subseteq q[m] /\ r[m] \subseteq Loc
  BY DEF Below, Relation
<1> QED
  BY <1>1, <1>2, ConstraintFields DEF Demanded

(* Every relation closed under the constraints contains what was found.     *)
Forced == \A q \in Relation : Closed(cs, q) => Below(pts, q)

(* What a step adds is in every closed relation the sets were below.       *)
LEMMA ForcedStep ==
  ASSUME IInv, Forced, [Next]_vars
  PROVE  Forced'
<1> SUFFICES ASSUME NEW q \in Relation, Closed(cs, q)
             PROVE  Below(pts', q)
  BY Growth DEF Forced, IInv
<1>1. pts \in Relation /\ Below(pts, q) /\ cs \subseteq Constraint
  BY DEF Forced, IInv, TypeOK
<1>2. CASE pts' = pts
  BY <1>1, <1>2
<1>3. ASSUME NEW n \in Loc,
             NEW new \in SUBSET {o \in Loc : Demanded(cs, pts, n, o)},
             pts' = [pts EXCEPT ![n] = @ \cup new]
      PROVE  Below(pts', q)
  <2>1. new \subseteq q[n]
    BY <1>1, DemandedMonotone DEF Closed
  <2> QED
    BY <1>1, <1>3, <2>1 DEF Below, Relation
<1> QED
  BY <1>2, <1>3, StepsDemanded DEF vars

(* solve() returns the least solution of its constraints, for every set of  *)
(* constraints and every order the hash containers and the queue give.      *)
THEOREM LeastSolution == Spec => []LeastWhenDone
<1>1. Init => Forced
  BY DEF Init, Forced, Below
<1>2. IInv /\ Forced /\ [Next]_vars => Forced'
  BY ForcedStep
<1>3. IInv /\ Forced => LeastWhenDone
  <2> SUFFICES ASSUME IInv, Forced, phase = "done"
               PROVE  Least(cs, pts)
    BY DEF LeastWhenDone
  <2>1. Closed(cs, pts)
    BY ClosedAtEnd DEF IInv, DoneEmpty
  <2> QED
    BY <2>1 DEF Least, Forced
<1> QED
  BY <1>1, <1>2, <1>3, Inductive, PTL DEF Spec
=============================================================================
