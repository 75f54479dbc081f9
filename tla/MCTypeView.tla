----------------------------- MODULE MCTypeView -----------------------------
(***************************************************************************)
(* A small program for TypeView: int with two members of one name, const   *)
(* int, const int*, a volatile one of those, and void*.                    *)
(***************************************************************************)
EXTENDS TypeView

CONSTANTS IntT, ConstInt, Ptr, VolatilePtr, VoidPtr,
          DeclaredGet, DeclaredGetAgain, AskedGet, AskedOther

MCTypes == {IntT, ConstInt, Ptr, VolatilePtr, VoidPtr}

MCDeps == [t \in MCTypes |->
  CASE t = IntT        -> <<>>
    [] t = ConstInt    -> <<IntT>>
    [] t = Ptr         -> <<ConstInt>>
    [] t = VolatilePtr -> <<Ptr>>
    [] t = VoidPtr     -> <<Void>>]

MCForm == [t \in MCTypes |->
  CASE t = IntT           -> "named"
    [] t = ConstInt       -> "const"
    [] t = VolatilePtr    -> "volatile"
    [] t \in {Ptr, VoidPtr} -> "pointer"]

MCGarbage == {0, 2}

MCLiterals == {DeclaredGet, DeclaredGetAgain, AskedGet, AskedOther}

MCText == [l \in MCLiterals |-> IF l = AskedOther THEN "other" ELSE "get"]

MCMembers == [t \in MCTypes \cup {Void} |->
  IF t = IntT THEN <<DeclaredGet, DeclaredGetAgain>> ELSE <<>>]

(* Equal literals kept once, or some of them shared. *)
MCLayouts ==
  {[l \in MCLiterals |-> CHOOSE m \in MCLiterals : MCText[m] = MCText[l]],
   [l \in MCLiterals |-> IF l = AskedGet THEN DeclaredGetAgain ELSE l]}
=============================================================================
