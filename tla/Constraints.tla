-------------------------- MODULE Constraints --------------------------
(***************************************************************************)
(* Inclusion constraints (memory/pta/constraint.rs) and what it means for  *)
(* a points-to relation to solve them.                                     *)
(***************************************************************************)
CONSTANTS
  Loc,             \* interned locations (LocId)
  Suffix,          \* interned field paths (FieldPath)
  Project(_, _),   \* LocArena::project
  Inputs           \* the constraint sets the solver may be given

Constraint ==
       [type : {"AddressOf"}, dst : Loc, obj : Loc]
  \cup [type : {"Copy", "Load", "Store"}, dst : Loc, src : Loc]
  \cup [type : {"Offset"}, dst : Loc, src : Loc, suffix : Suffix]

ASSUME ProjectAssumption == \A n \in Loc, s \in Suffix : Project(n, s) \in Loc

ASSUME InputAssumption == Inputs \subseteq SUBSET Constraint

Relation == [Loc -> SUBSET Loc]

(* The doc comments of the five constraints: some c in cs puts o in p[n]. *)
Demanded(cs, p, n, o) ==
  \E c \in cs :
    \/ c.type = "AddressOf" /\ c.dst = n /\ c.obj = o
    \/ c.type = "Copy" /\ c.dst = n /\ o \in p[c.src]
    \/ c.type = "Load" /\ c.dst = n /\ \E m \in p[c.src] : o \in p[m]
    \/ c.type = "Store" /\ n \in p[c.dst] /\ o \in p[c.src]
    \/ /\ c.type = "Offset" /\ c.dst = n
       /\ \E m \in p[c.src] : o = Project(m, c.suffix)

(* Nothing more is demanded of p. *)
Closed(cs, p) == \A n, o \in Loc : Demanded(cs, p, n, o) => o \in p[n]

Below(p, q) == \A n \in Loc : p[n] \subseteq q[n]

Least(cs, p) ==
  /\ Closed(cs, p)
  /\ \A q \in Relation : Closed(cs, q) => Below(p, q)
=============================================================================
