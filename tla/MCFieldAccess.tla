--------------------------- MODULE MCFieldAccess ---------------------------
(***************************************************************************)
(* A small program for FieldAccess: a class with an int and a const int    *)
(* field, a static int and a static of a class without copy assignment.    *)
(***************************************************************************)
EXTENDS FieldAccess, TLC

CONSTANTS ClassT, IntT, Frozen, publicValue, constValue, staticValue, staticFrozen

MCClasses    == {ClassT, IntT, Frozen}
MCFields     == {publicValue, constValue}
MCStatics    == {staticValue, staticFrozen}
MCFieldClass == [f \in MCFields \cup MCStatics |-> IF f = staticFrozen THEN Frozen ELSE IntT]

MCExprs ==
  {TypeOf(ClassT, FALSE, "value"), TypeOf(ClassT, FALSE, "lref"), TypeOf(ClassT, TRUE, "lref"),
   TypeOf(IntT, FALSE, "value")}

MCSymmetry   == Permutations(Roots) \cup Permutations(Handles)
=============================================================================
