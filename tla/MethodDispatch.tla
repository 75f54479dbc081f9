--------------------------- MODULE MethodDispatch ---------------------------
(***************************************************************************)
(* Method of refl-cpp: how Invoke chooses one of a method's functions for  *)
(* a list of arguments, checks the arguments and the object, and calls it. *)
(*                                                                         *)
(* A function is static or not, const or not, may want an rvalue object,   *)
(* and has parameters; a Variant is its wrapper kind and the type it was   *)
(* created with.  Whether it can be got as a type is VariantTypes.         *)
(*                                                                         *)
(* Operators with an underscore in their name are faulty variants of the   *)
(* operator of that name, used to see that the properties notice the fault.*)
(***************************************************************************)
EXTENDS VariantTypes, Naturals, Sequences, SequencesExt

CONSTANTS
  Class,      (* the class the method belongs to                           *)
  Methods,    (* the methods of the program: sequences of functions        *)
  Arguments,  (* the Variants the program passes as arguments              *)
  Instances,  (* the Variants it passes as objects, besides Variant::Void  *)
  MaxArgs     (* bound: the length of an argument list                     *)

Variants  == [kind : Kinds, type : AllTypes]
Functions == [static : BOOLEAN, const : BOOLEAN, rvalue : BOOLEAN,
              returns : BOOLEAN, params : Seq(AllTypes)]

ASSUME MethodsAssumption   == Class \in Classes /\ Methods \subseteq Seq(Functions)
ASSUME VariantsAssumption  == Arguments \cup Instances \subseteq Variants
ASSUME MaxArgsAssumption   == MaxArgs \in Nat

VARIABLES
  funcs,     (* Method::funcs_ of the method being called                  *)
  call,      (* the arguments; the object, if there is one; whether some   *)
             (* type can not be registered while the call runs             *)
  index,     (* the function the loop of Invoke is at, 0 outside of it     *)
  ran,       (* the functions the call has run, by index                   *)
  outcome    (* what the call returned, or how it stopped the program      *)

vars == <<funcs, call, index, ran, outcome>>

-----------------------------------------------------------------------------
(* Arguments. *)

Void       == [kind |-> "VOID"]
Gets(v, R) == v.kind # "VOID" /\ CanGetAs(v.kind, v.type, R)

(* A value parameter is got as an lvalue reference, anything else as is.   *)
Passed_AsValue(P) == [class |-> P.class, const |-> P.const,
                      form  |-> IF P.form = "ptr" THEN "value" ELSE P.form]
Passed(P) == [class |-> P.class, const |-> P.const,
              form  |-> IF P.form = "value" THEN "lref" ELSE P.form]

(* CheckArgs goes through the parameters of the function, not through the  *)
(* list, up to the first argument that does not fit.  A parameter type that *)
(* can not be registered makes an argument not fit.                         *)
Fits(f, j)       == Gets(call.args[j], f.params[j])
Given(f)         == {j \in 1 .. Len(f.params) : j <= Len(call.args)}
ArgsFit(f)       == Len(f.params) <= Len(call.args) /\ \A j \in Given(f) : Fits(f, j)
ReadsPastEnd(f)  == Len(f.params) > Len(call.args) /\ \A j \in Given(f) : Fits(f, j)
MayNotFit(f)     == \/ ~ArgsFit(f) /\ ~ReadsPastEnd(f)
                    \/ call.limited /\ Given(f) # {}

(* The type a non-static function needs its object as. *)
ObjectType(f) ==
  [class |-> Class, const |-> f.const, form |-> IF f.rvalue THEN "rref" ELSE "lref"]

-----------------------------------------------------------------------------
(* Calls. *)

ReflectFailures == {"MaxReflectLimitReached", "ReflectTypeCreationFailed", "OutOfMemory"}
InvokeErrors == ReflectFailures \cup
  {"IncorrectNumberOfArguments", "ObjectIsVoid", "ObjectIsInvalid",
   "ArgumentIsInvalid", "NoCompatibleFunctionFound"}

Calling == index # 0
Func    == funcs[index]

Init ==
  /\ funcs = <<>>
  /\ call = [args |-> <<>>, object |-> Void, bare |-> TRUE, limited |-> FALSE]
  /\ index = 0
  /\ ran = <<>>
  /\ outcome = "None"

(* Method::Invoke(args), which is bare, and Method::Invoke(obj, args).      *)
(* Methods and Variants keep nothing of a call: one call is all of them.    *)
Invoke ==
  /\ ~Calling /\ outcome = "None"
  /\ funcs' \in Methods
  /\ \E args \in BoundedSeq(Arguments, MaxArgs), object \in Instances \cup {Void},
        bare, limited \in BOOLEAN :
       /\ bare => object = Void
       /\ call' = [args |-> args, object |-> object, bare |-> bare, limited |-> limited]
  /\ index' = 1
  /\ UNCHANGED <<ran, outcome>>

Return_GoesOn(o) == index' = index + 1 /\ outcome' = o
Return(o) == index' = 0 /\ outcome' = o

(* Without an object a static function is taken unchecked. *)
AtFunction == Calling /\ index <= Len(funcs)
Unchecked  == call.bare /\ Func.static

(* CanInvokeWithArgs fails: on to the next function. *)
Skip_Stuck ==
  /\ AtFunction /\ ~Unchecked /\ MayNotFit(Func)
  /\ UNCHANGED vars

Skip_GivesUp ==
  /\ AtFunction /\ ~Unchecked /\ MayNotFit(Func)
  /\ index' = Len(funcs) + 1
  /\ UNCHANGED <<funcs, call, ran, outcome>>

Skip ==
  /\ AtFunction /\ ~Unchecked /\ MayNotFit(Func)
  /\ index' = index + 1
  /\ UNCHANGED <<funcs, call, ran, outcome>>

(* CanInvokeWithArgs reads arguments that are not there. *)
ReadPastEnd ==
  /\ AtFunction /\ ~Unchecked /\ ReadsPastEnd(Func)
  /\ Return("Undefined")
  /\ UNCHANGED <<funcs, call, ran>>

Exhausted ==
  /\ Calling /\ index > Len(funcs)
  /\ Return("NoCompatibleFunctionFound")
  /\ UNCHANGED <<funcs, call, ran>>

(* FunctionWrapper::Invoke of the chosen function: the count, the object's  *)
(* being there, the arguments and the object's type, in that order.  Types  *)
(* of checked parameters are registered, that of the object may not be.     *)
Chosen == AtFunction /\ (Unchecked \/ ArgsFit(Func))

CountDiffers  == Len(call.args) # Len(Func.params)
ObjectMissing == ~Func.static /\ call.object = Void
ArgsRefused   == IF Unchecked THEN MayNotFit(Func) ELSE ~ArgsFit(Func)
ObjectFits    == Func.static \/ Gets(call.object, ObjectType(Func))
ObjectRefused == ~ObjectFits \/ (~Func.static /\ call.limited)

RefusedWith(e) ==
  IF CountDiffers THEN e = "IncorrectNumberOfArguments"
  ELSE IF ObjectMissing THEN e = "ObjectIsVoid"
  ELSE \/ e = "ArgumentIsInvalid" /\ ArgsRefused
       \/ e = "ObjectIsInvalid" /\ ArgsFit(Func) /\ ObjectRefused

Refuse_TriesNext ==
  /\ Chosen
  /\ \E e \in InvokeErrors : RefusedWith(e)
  /\ index' = index + 1
  /\ UNCHANGED <<funcs, call, ran, outcome>>

Refuse ==
  /\ Chosen
  /\ \E e \in InvokeErrors : RefusedWith(e) /\ Return(e)
  /\ UNCHANGED <<funcs, call, ran>>

Accepted_WithoutObject == ~CountDiffers /\ ~ObjectMissing /\ ArgsFit(Func)
Accepted == ~CountDiffers /\ ~ObjectMissing /\ ArgsFit(Func) /\ ObjectFits

(* The function runs on the values got; value() of a failed Get aborts (or, *)
(* in release builds, is undefined).                                        *)
(* The result becomes a Variant, which can fail when the function has run.  *)
ValuesGot == \A j \in Given(Func) : Gets(call.args[j], Passed(Func.params[j]))

Run ==
  /\ Chosen /\ Accepted
  /\ IF ValuesGot
     THEN /\ ran' = Append(ran, index)
          /\ \/ Return("Success")
             \/ Func.returns /\ call.limited /\ \E e \in ReflectFailures : Return(e)
     ELSE /\ Return("Aborted")
          /\ UNCHANGED ran
  /\ UNCHANGED <<funcs, call>>

(* The call is over. *)
Over == ~Calling /\ outcome # "None" /\ UNCHANGED vars

Step == Skip \/ ReadPastEnd \/ Exhausted \/ Refuse \/ Run

Next == Invoke \/ Step \/ Over

(* A call that has begun keeps the processor; the functions it runs return. *)
Spec == Init /\ [][Next]_vars
FairSpec == Spec /\ WF_vars(Step)

-----------------------------------------------------------------------------
(* Properties. *)

TypeOK ==
  /\ funcs \in Methods \cup {<<>>}
  /\ call.args \in Seq(Arguments) /\ Len(call.args) <= MaxArgs
  /\ call.object \in Instances \cup {Void}
  /\ {call.bare, call.limited} \subseteq BOOLEAN
  /\ index \in 0 .. Len(funcs) + 1
  /\ ran \in Seq(1 .. Len(funcs)) /\ Len(ran) <= 1
  /\ outcome \in InvokeErrors \cup {"None", "Success", "Undefined", "Aborted"}

(* The checks ask for the declared parameter types, the calls of value()    *)
(* get the arguments as what is passed: the former suffice for the latter,  *)
(* so no call aborts, whatever wrappers the arguments are.                  *)
NeverAborts == outcome # "Aborted"

(* A call runs one function at most, on exactly the arguments of the list,  *)
(* each as something its Variant may be used as, and on an object that is   *)
(* not const unless the function is.  Only what comes after the function    *)
(* can fail then: an error of any other kind means that nothing was run and *)
(* the call may be repeated.                                                *)
Usable(v, P) ==
  /\ v.kind # "VOID" /\ v.type.class = P.class
  /\ v.type.const => P.const
  /\ IF P.form \in {"value", "lref"} THEN v.type.form \in {"value", "lref"} ELSE v.type.form = P.form

Suits(f) ==
  /\ Len(f.params) = Len(call.args)
  /\ \A j \in 1 .. Len(f.params) : Usable(call.args[j], f.params[j])
  /\ f.static \/ Usable(call.object, ObjectType(f))

RunsWhatFits ==
  /\ \A n \in 1 .. Len(ran) : Suits(funcs[ran[n]])
  /\ ran # <<>> <=> outcome \in {"Success"} \cup ReflectFailures

(* Where choosing by the parameters of the function alone is enough: if all *)
(* functions of a method take as many arguments as are passed and each can  *)
(* use the object, a call with an object runs the first function that fits  *)
(* and fails if there is none.                                              *)
OneArity  == \A i \in 1 .. Len(funcs) : Len(funcs[i].params) = Len(call.args)
AnyObject == \A i \in 1 .. Len(funcs) : funcs[i].static \/ Gets(call.object, ObjectType(funcs[i]))

FindsWhatFits ==
  outcome # "None" /\ OneArity /\ AnyObject /\ ~call.bare /\ ~call.limited =>
    LET fitting == {i \in 1 .. Len(funcs) : ArgsFit(funcs[i])} IN
    IF fitting = {} THEN outcome = "NoCompatibleFunctionFound"
    ELSE /\ outcome = "Success"
         /\ ran[1] \in fitting /\ \A i \in fitting : ran[1] <= i

(* To a program the loop is one step: the first function that is not        *)
(* passed over decides, it is run or refused, and a call all of whose       *)
(* functions can be passed over, and only such a call, finds none.          *)
SurelyRuns(f) ==
  /\ Len(f.params) = Len(call.args) /\ ArgsFit(f)
  /\ f.static \/ Gets(call.object, ObjectType(f))
  /\ ~call.limited

Passable(f) == MayNotFit(f) /\ ~(call.bare /\ f.static)

Those(P(_)) == {i \in 1 .. Len(funcs) : P(funcs[i])}
TooShort(f) == Len(f.params) > Len(call.args)

Promise == INSTANCE FirstFit WITH
  asked <- Calling,
  offer <- [functions |-> 1 .. Len(funcs), suit |-> Those(Suits), sure |-> Those(SurelyRuns),
            passable |-> Those(Passable), short |-> Those(TooShort)],
  answer <- outcome,
  LateErrors <- ReflectFailures,
  Refusals <- {"IncorrectNumberOfArguments", "ObjectIsVoid", "ObjectIsInvalid", "ArgumentIsInvalid"}

AnswersByFirstFit == Promise!Spec

(* Every call of Invoke returns or is undefined. *)
InvokeReturns == Calling ~> ~Calling
=============================================================================
