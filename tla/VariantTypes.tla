---------------------------- MODULE VariantTypes ----------------------------
(***************************************************************************)
(* Variant of refl-cpp, the part decided by types: which wrapper           *)
(* Create<T> makes, and which types Get<R> finds a matcher for.            *)
(*                                                                         *)
(* A C++ type is a class or arithmetic type, a constness and a form: T,    *)
(* T&, T&& or T*; const is that of the value, referent or pointee.         *)
(* volatile is left out.  Type ids are one-to-one (see TypeRegistry), so a *)
(* type stands for its id.                                                 *)
(*                                                                         *)
(* Operators with an underscore in their name are faulty variants of the   *)
(* operator of that name, used to see that the properties notice the fault.*)
(***************************************************************************)
CONSTANTS
  Classes,     (* the classes of the program                               *)
  Copyable,    (* those with a copy constructor                            *)
  Movable      (* those with a move constructor                            *)

ASSUME TraitsAssumption == Copyable \subseteq Classes /\ Movable \subseteq Classes

Forms    == {"value", "lref", "rref", "ptr"}
AllTypes == [class : Classes, const : BOOLEAN, form : Forms]

-----------------------------------------------------------------------------
(* Wrappers. *)

ValueKinds == {"VALUE", "CONST_VALUE"}
LRefKinds  == {"LVALUE_REF", "CONST_LVALUE_REF"}
RRefKinds  == {"RVALUE_REF", "CONST_RVALUE_REF"}
PtrKinds   == {"POINTER", "CONST_POINTER"}
Kinds      == {"VOID"} \cup ValueKinds \cup LRefKinds \cup RRefKinds \cup PtrKinds
ConstKinds == {"CONST_VALUE", "CONST_LVALUE_REF", "CONST_RVALUE_REF", "CONST_POINTER"}

(* Move-only values reach a wrapper constructor that takes an lvalue: the  *)
(* program does not compile.                                               *)
Compiles(T) == ~(T.form = "value" /\ ~T.const /\ T.class \in Movable \ Copyable)

(* MakeWrapper: values are copied when the class can be copied; every      *)
(* other value is adopted by reference.                                    *)
Adopted(T) == T.form = "value" /\ T.class \notin Copyable

WrapperKind(T) ==
  CASE T.form = "ptr"                  -> IF T.const THEN "CONST_POINTER" ELSE "POINTER"
    [] T.form = "rref"                 -> IF T.const THEN "CONST_RVALUE_REF" ELSE "RVALUE_REF"
    [] T.form = "lref" \/ Adopted(T)   -> IF T.const THEN "CONST_LVALUE_REF" ELSE "LVALUE_REF"
    [] OTHER                           -> IF T.const THEN "CONST_VALUE" ELSE "VALUE"

(* The VariantMatcher specialisations: the wrapper kinds and types that    *)
(* have one, and the type whose id it compares with the variant's.         *)
HasMatcher_AnyConst(kind, R) ==
  \/ kind \in ValueKinds \cup LRefKinds /\ R.form \in {"value", "lref"}
  \/ kind \in RRefKinds /\ R.form = "rref"
  \/ kind \in PtrKinds /\ R.form = "ptr"

HasMatcher(kind, R) ==
  /\ \/ kind \in ValueKinds \cup LRefKinds /\ R.form \in {"value", "lref"}
     \/ kind \in RRefKinds /\ R.form = "rref"
     \/ kind \in PtrKinds /\ R.form = "ptr"
  /\ kind \in ConstKinds => R.const

Compared_KeepsConst(kind, R) ==
  [class |-> R.class,
   const |-> R.const,
   form  |-> IF kind \in ValueKinds THEN "value"
             ELSE IF kind \in LRefKinds THEN "lref" ELSE R.form]

Compared(kind, R) ==
  [class |-> R.class,
   const |-> kind \in ConstKinds,
   form  |-> IF kind \in ValueKinds THEN "value"
             ELSE IF kind \in LRefKinds THEN "lref" ELSE R.form]

(* What a variant of this kind, created as T, answers to CanGet<R>() once  *)
(* T and R are registered.                                                 *)
CanGetAs(kind, T, R) == HasMatcher(kind, R) /\ T = Compared(kind, R)
=============================================================================
