--------------------------- MODULE MCPtaFields ---------------------------
(***************************************************************************)
(* PtaSolver over the locations of LocArena: the unit tests of solver.rs   *)
(* and result.rs, and inputs in which pointers flow into their own fields. *)
(***************************************************************************)
EXTENDS PtaSolver, LocArena

CONSTANTS p, q, o, f

At(b) == [base |-> b, path |-> <<>>]
Field(b) == [base |-> b, path |-> <<f>>]

Addr(d, x) == [type |-> "AddressOf", dst |-> d, obj |-> x]
Copy(d, s) == [type |-> "Copy", dst |-> d, src |-> s]
Load(d, s) == [type |-> "Load", dst |-> d, src |-> s]
Store(d, s) == [type |-> "Store", dst |-> d, src |-> s]
Offset(d, s, n) == [type |-> "Offset", dst |-> d, src |-> s,
                    suffix |-> [i \in 1 .. n |-> f]]

(* Every choice of three, added to p = &o: projections of one and two       *)
(* fields, pointers that flow into their own fields (directly, by a cycle   *)
(* of offsets, through memory), an offset of nothing, stores and loads      *)
(* through the location they change.                                        *)
Pool ==
  { Addr(At(p), At(p)), Addr(At(q), At(o)), Addr(Field(o), At(p)),
    Copy(At(q), At(p)), Copy(At(p), At(q)), Copy(At(q), Field(o)),
    Load(At(q), At(q)), Load(At(q), At(p)),
    Store(At(p), At(q)), Store(At(q), At(p)),
    Offset(At(p), At(p), 1), Offset(At(q), At(p), 1), Offset(At(p), At(q), 2),
    Offset(At(q), At(p), 0) }

FieldInputs == {{Addr(At(p), At(o)), a, b, c} : a, b, c \in Pool}
=============================================================================
