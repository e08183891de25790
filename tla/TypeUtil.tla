---------------------------- MODULE TypeUtil ----------------------------
(***************************************************************************)
(* Leaf field paths of a type, memory/pta/typeutil.rs.                     *)
(*                                                                         *)
(* A type is [kind |-> k] with, where it has any, its fields.  Kinds:      *)
(* "ref", "raw", "scalar", "enum", "struct", "tuple", "closure",           *)
(* "coroutine" and "array", whose one field is the type of its elements.   *)
(***************************************************************************)
EXTENDS Naturals, Sequences, SequencesExt

CONSTANT Index      \* the one path element all elements of an array share

FlattenDepth == 6

Field(n) == n - 1   \* field n of a type, counted from one, as a path element

RECURSIVE Flatten(_, _, _)

(* The paths of ty's leaves below path, in the order of the fields.        *)
Flatten(ty, path, depth) ==
  IF depth >= FlattenDepth
    THEN <<path>>
    ELSE CASE ty.kind \in {"struct", "tuple", "closure"} ->
                FlattenSeq([i \in DOMAIN ty.fields |->
                  Flatten(ty.fields[i], Append(path, Field(i)), depth + 1)])
           [] ty.kind = "array" ->
                Flatten(ty.fields[1], Append(path, Index), depth + 1)
           [] OTHER -> <<path>>

(* A type without leaves, such as an empty struct, is a leaf itself.       *)
LeafFieldPaths(ty) ==
  LET paths == Flatten(ty, <<>>, 0)
  IN  IF paths = <<>> THEN << <<>> >> ELSE paths
=============================================================================
