--------------------------- MODULE MCTypeRegistry ---------------------------
(***************************************************************************)
(* A small program for TypeRegistry: int, void*, a class with a base and   *)
(* an inner type, and two types whose TypeData name each other.            *)
(***************************************************************************)
EXTENDS TypeRegistry

CONSTANTS IntT, VoidPtr, Derived, Node, NodePtr

MCTypes == {IntT, VoidPtr, Derived, Node, NodePtr}

MCDeps == [t \in MCTypes |->
  CASE t = IntT     -> <<>>
    [] t = VoidPtr -> <<Void>>
    [] t = Derived -> <<VoidPtr, IntT>>
    [] t = Node    -> <<IntT, NodePtr>>
    [] t = NodePtr -> <<Node>>]

MCGarbage == {0, 7}
=============================================================================
