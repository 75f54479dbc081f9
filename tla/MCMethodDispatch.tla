-------------------------- MODULE MCMethodDispatch --------------------------
(***************************************************************************)
(* A small program for MethodDispatch: methods with up to two functions    *)
(* whose parameters differ in class, const, form and number, static and    *)
(* not.                                                                    *)
(***************************************************************************)
EXTENDS MethodDispatch

CONSTANTS ClassT, IntT, StringT

Type(class, const, form) == [class |-> class, const |-> const, form |-> form]

MCClasses  == {ClassT, IntT, StringT}
MCCopyable == {IntT, StringT}

MCParams ==
  {<<>>, <<Type(IntT, FALSE, "value")>>, <<Type(StringT, TRUE, "lref")>>,
   <<Type(IntT, FALSE, "ptr")>>, <<Type(IntT, FALSE, "rref")>>,
   <<Type(IntT, FALSE, "value"), Type(IntT, TRUE, "lref")>>}

Function(static, const, rvalue, params) ==
  [static |-> static, const |-> const, rvalue |-> rvalue, returns |-> params = <<>>,
   params |-> params]

(* A static and a plain member function for each parameter list, and const  *)
(* and rvalue member functions without parameters and with two.             *)
MCFunctions ==
  {Function(static, FALSE, FALSE, p) : static \in BOOLEAN, p \in MCParams}
  \cup {Function(FALSE, const, ~const, p) : const \in BOOLEAN,
                                           p \in {q \in MCParams : Len(q) # 1}}

MCMethods == BoundedSeq(MCFunctions, 2) \ {<<>>}

Made(T) == [kind |-> WrapperKind(T), type |-> T]

MCArguments ==
  {Made(T) : T \in {Type(IntT, FALSE, "value"), Type(IntT, TRUE, "value"),
                    Type(IntT, FALSE, "rref"), Type(IntT, FALSE, "ptr"),
                    Type(StringT, FALSE, "lref")}}

MCInstances ==
  {Made(T) : T \in {Type(ClassT, FALSE, "lref"), Type(ClassT, TRUE, "lref"),
                    Type(ClassT, FALSE, "rref")}}
=============================================================================
