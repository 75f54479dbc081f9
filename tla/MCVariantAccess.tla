-------------------------- MODULE MCVariantAccess --------------------------
(***************************************************************************)
(* A small program for VariantAccess: int, and a class that can neither be *)
(* copied nor moved.  The types it names are split over two sets, values   *)
(* with lvalue references, and rvalue references with pointers and the     *)
(* class, because `registered` doubles the states with every type.         *)
(***************************************************************************)
EXTENDS VariantAccess, TLC

CONSTANTS IntT, Pinned

Type(class, const, form) == [class |-> class, const |-> const, form |-> form]

MCClasses  == {IntT, Pinned}
MCCopyable == {IntT}

MCSymmetry == Permutations(Cells) \cup Permutations(Handles)

MCValueExprs ==
  {Type(IntT, const, form) : const \in BOOLEAN, form \in {"value", "lref"}}

MCRefExprs ==
  {Type(IntT, const, form) : const \in BOOLEAN, form \in {"rref", "ptr"}}
    \cup {Type(Pinned, FALSE, "value")}
=============================================================================
