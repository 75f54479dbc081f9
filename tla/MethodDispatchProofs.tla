------------------------ MODULE MethodDispatchProofs ------------------------
(***************************************************************************)
(* Proofs about MethodDispatch, for methods of any number of functions,    *)
(* any parameters, arguments and objects.                                  *)
(***************************************************************************)
EXTENDS MethodDispatch, SequenceTheorems, TLAPS

-----------------------------------------------------------------------------
(* Types. *)

(* What a Variant can be got as is something it may be used as. *)
LEMMA GotIsUsable ==
  ASSUME NEW v, NEW P, Gets(v, P)
  PROVE  Usable(v, P)
<1>1. /\ v.kind # "VOID" /\ HasMatcher(v.kind, P)
      /\ v.type = Compared(v.kind, P)
  BY DEF Gets, CanGetAs
<1>2. /\ v.type.class = P.class
      /\ v.type.const => v.kind \in ConstKinds
      /\ v.type.form = IF v.kind \in ValueKinds THEN "value"
                       ELSE IF v.kind \in LRefKinds THEN "lref" ELSE P.form
  <2>1. Compared(v.kind, P).const = (v.kind \in ConstKinds)
    BY Zenon DEF Compared
  <2>2. v.type.const => v.kind \in ConstKinds
    BY <1>1, <2>1, Zenon
  <2> QED
    BY <1>1, <2>2 DEF Compared
<1>3. v.type.const => P.const
  BY <1>1, <1>2 DEF HasMatcher
<1>4. IF P.form \in {"value", "lref"} THEN v.type.form \in {"value", "lref"} ELSE v.type.form = P.form
  BY <1>1, <1>2 DEF HasMatcher, ValueKinds, LRefKinds, RRefKinds, PtrKinds
<1> QED
  BY <1>1, <1>2, <1>3, <1>4 DEF Usable

(* The matcher that accepts a parameter type accepts what the argument is  *)
(* then got as: for a value that is an lvalue reference.                   *)
LEMMA PassedIsGot ==
  ASSUME NEW v, NEW P, Gets(v, P)
  PROVE  Gets(v, Passed(P))
<1>1. /\ v.kind # "VOID" /\ HasMatcher(v.kind, P)
      /\ v.type = Compared(v.kind, P)
  BY DEF Gets, CanGetAs
<1>2. /\ Passed(P).class = P.class /\ Passed(P).const = P.const
      /\ Passed(P).form = IF P.form = "value" THEN "lref" ELSE P.form
  BY DEF Passed
<1>3. HasMatcher(v.kind, Passed(P))
  BY <1>1, <1>2 DEF HasMatcher
<1>4. Compared(v.kind, Passed(P)) = Compared(v.kind, P)
  BY <1>1, <1>2 DEF Compared, HasMatcher, ValueKinds, LRefKinds, RRefKinds, PtrKinds
<1> QED
  BY <1>1, <1>3, <1>4 DEF Gets, CanGetAs

-----------------------------------------------------------------------------
(* The inductive invariant. *)

(* Nothing has been run before the call is over. *)
NotRunYet == outcome = "None" => ran = <<>>
InCall    == Calling => outcome = "None" /\ funcs \in Methods

(* The loop has gone past functions that may be passed over, and no others. *)
PassedOver == Calling => \A i \in 1 .. Len(funcs) : i < index => Passable(funcs[i])

(* Calls in which fitting is decided by the types alone. *)
Clear == OneArity /\ AnyObject /\ ~call.bare /\ ~call.limited

IInv == TypeOK /\ NotRunYet /\ InCall /\ PassedOver /\ NeverAborts /\ RunsWhatFits /\ FindsWhatFits

LEMMA FuncsAreFunctions ==
  ASSUME IInv
  PROVE  /\ funcs \in Seq(Functions) /\ Len(funcs) \in Nat
         /\ \A i \in 1 .. Len(funcs) : funcs[i] \in Functions /\ Len(funcs[i].params) \in Nat
         /\ call.args \in Seq(Arguments) /\ Len(call.args) \in Nat
<1>1. funcs \in Seq(Functions)
  BY MethodsAssumption, EmptySeq DEF IInv, TypeOK
<1>2. \A i \in 1 .. Len(funcs) : funcs[i] \in Functions
  BY <1>1, ElementOfSeq
<1>3. \A f \in Functions : Len(f.params) \in Nat
  BY LenProperties DEF Functions
<1> QED
  BY <1>1, <1>2, <1>3, LenProperties DEF IInv, TypeOK

LEMMA IInvInit == Init => IInv
<1> SUFFICES ASSUME Init PROVE IInv
  OBVIOUS
<1>1. TypeOK
  BY MaxArgsAssumption, EmptySeq DEF Init, TypeOK
<1> QED
  BY <1>1 DEF Init, IInv, NotRunYet, InCall, PassedOver, Calling, NeverAborts, RunsWhatFits,
              FindsWhatFits, InvokeErrors, ReflectFailures

(* A call begins. *)
LEMMA InvokeKeeps ==
  ASSUME IInv, Invoke
  PROVE  IInv'
<1>1. PICK args \in BoundedSeq(Arguments, MaxArgs), object \in Instances \cup {Void},
           bare \in BOOLEAN, limited \in BOOLEAN :
             call' = [args |-> args, object |-> object, bare |-> bare, limited |-> limited]
  BY DEF Invoke
<1>2. /\ call'.args = args /\ call'.object = object
      /\ call'.bare = bare /\ call'.limited = limited
  BY <1>1
<1>3. args \in Seq(Arguments) /\ Len(args) <= MaxArgs
  BY MaxArgsAssumption DEF BoundedSeq, SeqOf
<1>4. /\ funcs' \in Methods /\ index' = 1 /\ outcome' = "None" /\ ran' = <<>>
  BY DEF Invoke, IInv, NotRunYet
<1>5. Len(funcs') \in Nat
  BY <1>4, MethodsAssumption, LenProperties
<1>6. TypeOK'
  <2>1. ran' \in Seq(1 .. Len(funcs')) /\ Len(ran') <= 1
    BY <1>4, EmptySeq
  <2>2. index' \in 0 .. Len(funcs') + 1
    BY <1>4, <1>5
  <2>3. call'.args \in Seq(Arguments) /\ Len(call'.args) <= MaxArgs
    BY <1>2, <1>3
  <2>4. call'.object \in Instances \cup {Void} /\ {call'.bare, call'.limited} \subseteq BOOLEAN
    BY <1>2
  <2> QED
    BY <1>4, <2>1, <2>2, <2>3, <2>4 DEF TypeOK, Void
<1>7. PassedOver'
  BY <1>4 DEF PassedOver
<1>8. NeverAborts' /\ RunsWhatFits' /\ FindsWhatFits' /\ NotRunYet' /\ InCall'
  BY <1>4 DEF NeverAborts, RunsWhatFits, FindsWhatFits, NotRunYet, InCall, ReflectFailures
<1> QED
  BY <1>6, <1>7, <1>8 DEF IInv

(* Steps of the loop that run nothing. *)
LEMMA ReturnKeeps ==
  ASSUME IInv, Calling, UNCHANGED <<funcs, call, ran>>, NEW o \in InvokeErrors \cup {"Undefined"},
         Return(o), o \notin ReflectFailures,
         Clear => /\ o = "NoCompatibleFunctionFound"
                  /\ \A i \in 1 .. Len(funcs) : ~ArgsFit(funcs[i])
  PROVE  IInv'
<1>1. index' = 0 /\ outcome' = o /\ o # "Success" /\ o # "Aborted" /\ o # "None"
  BY DEF Return, InvokeErrors, ReflectFailures
<1>2. ran = <<>>
  BY DEF IInv, InCall, NotRunYet
<1>3. TypeOK'
  <2>1. index' \in 0 .. Len(funcs') + 1
    BY <1>1, FuncsAreFunctions
  <2> QED
    BY <1>1, <2>1 DEF IInv, TypeOK, Void
<1>4. RunsWhatFits'
  BY <1>1, <1>2 DEF RunsWhatFits, ReflectFailures
<1>5. FindsWhatFits'
  <2>1. call' = call /\ funcs' = funcs
    OBVIOUS
  <2> SUFFICES ASSUME Clear'
               PROVE  {i \in 1 .. Len(funcs) : ArgsFit(funcs[i])} = {} /\ outcome' = "NoCompatibleFunctionFound"
    BY <2>1 DEF FindsWhatFits, Clear, ArgsFit, Given, Fits
  <2>2. Clear
    BY <2>1 DEF Clear, OneArity, AnyObject
  <2> QED
    BY <1>1, <2>2
<1> QED
  BY <1>1, <1>2, <1>3, <1>4, <1>5 DEF IInv, NeverAborts, NotRunYet, InCall, Calling, PassedOver

(* In a clear call a function may not fit only if it does not. *)
LEMMA ClearCalls ==
  ASSUME IInv, Clear, NEW i \in 1 .. Len(funcs)
  PROVE  /\ MayNotFit(funcs[i]) <=> ~ArgsFit(funcs[i])
         /\ ~ReadsPastEnd(funcs[i])
<1>1. Len(funcs[i].params) = Len(call.args) /\ ~call.limited
  BY DEF Clear, OneArity
<1> QED
  BY <1>1, FuncsAreFunctions DEF MayNotFit, ReadsPastEnd, ArgsFit

LEMMA ClearPassed ==
  ASSUME IInv, Clear, NEW i \in 1 .. Len(funcs), Passable(funcs[i])
  PROVE  ~ArgsFit(funcs[i])
BY ClearCalls DEF Passable

LEMMA SkipKeeps ==
  ASSUME IInv, Skip
  PROVE  IInv'
<1>1. /\ index \in 1 .. Len(funcs) /\ Calling /\ MayNotFit(funcs[index])
      /\ index' = index + 1 /\ UNCHANGED <<funcs, call, ran, outcome>>
  BY FuncsAreFunctions DEF Skip, AtFunction, Calling, Func, IInv, TypeOK
<1>2. TypeOK'
  <2>1. index' \in 0 .. Len(funcs') + 1
    BY <1>1, FuncsAreFunctions
  <2> QED
    BY <1>1, <2>1 DEF IInv, TypeOK, Void
<1>3. PassedOver'
  <2> SUFFICES ASSUME NEW i \in 1 .. Len(funcs), i < index + 1 PROVE Passable(funcs[i])
    BY <1>1 DEF PassedOver, Passable, MayNotFit, ReadsPastEnd, ArgsFit, Given, Fits
  <2>1. Passable(funcs[index])
    BY <1>1, Zenon DEF Skip, Unchecked, Func, Passable
  <2>2. i < index => Passable(funcs[i])
    BY <1>1 DEF IInv, PassedOver
  <2> QED
    BY <1>1, <2>1, <2>2
<1>4. RunsWhatFits'
  BY <1>1 DEF IInv, RunsWhatFits, Suits
<1>5. FindsWhatFits'
  BY <1>1 DEF IInv, InCall, FindsWhatFits
<1> QED
  BY <1>1, <1>2, <1>3, <1>4, <1>5 DEF IInv, NeverAborts, NotRunYet, InCall, Calling

LEMMA ReadPastEndKeeps ==
  ASSUME IInv, ReadPastEnd
  PROVE  IInv'
<1>1. index \in 1 .. Len(funcs) /\ Calling /\ ReadsPastEnd(funcs[index])
  BY FuncsAreFunctions DEF ReadPastEnd, AtFunction, Calling, Func, IInv, TypeOK
<1>2. ~Clear
  BY <1>1, ClearCalls
<1> QED
  BY <1>1, <1>2, ReturnKeeps DEF ReadPastEnd, ReflectFailures

LEMMA ExhaustedKeeps ==
  ASSUME IInv, Exhausted
  PROVE  IInv'
<1>1. Calling /\ index > Len(funcs) /\ Return("NoCompatibleFunctionFound")
  BY DEF Exhausted
<1>2. \A i \in 1 .. Len(funcs) : Passable(funcs[i])
  BY <1>1, FuncsAreFunctions DEF IInv, TypeOK, PassedOver
<1>3. Clear => \A i \in 1 .. Len(funcs) : ~ArgsFit(funcs[i])
  BY <1>2, ClearPassed
<1> QED
  BY <1>1, <1>3, ReturnKeeps DEF Exhausted, InvokeErrors, ReflectFailures

(* A chosen function of a clear call is not refused. *)
LEMMA RefuseKeeps ==
  ASSUME IInv, Refuse
  PROVE  IInv'
<1>1. PICK e \in InvokeErrors : RefusedWith(e) /\ Return(e)
  BY DEF Refuse
<1>2. index \in 1 .. Len(funcs) /\ Calling
  BY FuncsAreFunctions DEF Refuse, Chosen, AtFunction, Calling, IInv, TypeOK
<1>3. e \notin ReflectFailures
  BY <1>1 DEF RefusedWith, ReflectFailures
<1>4. ~Clear
  <2> SUFFICES ASSUME Clear PROVE FALSE
    OBVIOUS
  <2>1. ~CountDiffers
    BY <1>2 DEF Clear, OneArity, CountDiffers, Func
  <2>2. ObjectFits
    BY <1>2 DEF Clear, AnyObject, ObjectFits, Func
  <2>3. ~ObjectMissing
    <3>1. ~Gets(Void, ObjectType(Func))
      BY DEF Gets, Void
    <3> QED
      BY <2>2, <3>1 DEF ObjectMissing, ObjectFits
  <2>4. ArgsFit(Func) /\ ~Unchecked /\ ~call.limited
    BY DEF Refuse, Chosen, Unchecked, Clear
  <2> QED
    BY <1>1, <2>1, <2>2, <2>3, <2>4 DEF RefusedWith, ArgsRefused, ObjectRefused
<1> QED
  BY <1>1, <1>2, <1>3, <1>4, ReturnKeeps DEF Refuse

(* What is accepted is usable, and its arguments can be got. *)
LEMMA AcceptedFits ==
  ASSUME IInv, Chosen, Accepted
  PROVE  /\ index \in 1 .. Len(funcs)
         /\ Len(Func.params) = Len(call.args) /\ ArgsFit(Func)
         /\ \A j \in 1 .. Len(Func.params) : Usable(call.args[j], Func.params[j])
         /\ Func.static \/ Usable(call.object, ObjectType(Func))
         /\ ValuesGot
<1>1. index \in 1 .. Len(funcs)
  BY FuncsAreFunctions DEF Chosen, AtFunction, Calling, IInv, TypeOK
<1>2. Len(Func.params) = Len(call.args) /\ Len(call.args) \in Nat
  BY FuncsAreFunctions DEF Accepted, CountDiffers
<1>3. ArgsFit(Func) /\ \A j \in Given(Func) : Gets(call.args[j], Func.params[j])
  BY DEF Accepted, ArgsFit, Fits
<1>4. 1 .. Len(Func.params) = Given(Func)
  BY <1>2 DEF Given
<1>5. Func.static \/ Usable(call.object, ObjectType(Func))
  BY GotIsUsable DEF Accepted, ObjectFits
<1>6. ValuesGot
  BY <1>3, PassedIsGot DEF ValuesGot
<1> QED
  BY <1>1, <1>2, <1>3, <1>4, <1>5, <1>6, GotIsUsable

LEMMA RunKeeps ==
  ASSUME IInv, Run
  PROVE  IInv'
<1>1. /\ index \in 1 .. Len(funcs)
      /\ Len(Func.params) = Len(call.args) /\ ArgsFit(Func)
      /\ \A j \in 1 .. Len(Func.params) : Usable(call.args[j], Func.params[j])
      /\ Func.static \/ Usable(call.object, ObjectType(Func))
      /\ ValuesGot /\ Calling
  BY AcceptedFits DEF Run, Chosen, AtFunction
<1>2. ran = <<>>
  BY <1>1 DEF IInv, InCall, NotRunYet
<1>3. ran' = <<index>> /\ UNCHANGED <<funcs, call>>
  BY <1>1, <1>2 DEF Run
<1>4. index' = 0 /\ outcome' \in {"Success"} \cup ReflectFailures
  BY <1>1 DEF Run, Return
<1>5. /\ Len(ran') = 1 /\ ran'[1] = index /\ ran' # <<>>
      /\ ran' \in Seq(1 .. Len(funcs))
  BY <1>1, <1>3
<1>6. TypeOK'
  <2>1. index' \in 0 .. Len(funcs') + 1
    BY <1>3, <1>4, FuncsAreFunctions
  <2>2. outcome' \in InvokeErrors \cup {"None", "Success", "Undefined", "Aborted"}
    BY <1>4 DEF InvokeErrors
  <2>3. ran' \in Seq(1 .. Len(funcs')) /\ Len(ran') <= 1
    BY <1>3, <1>5
  <2> QED
    BY <1>3, <2>1, <2>2, <2>3 DEF IInv, TypeOK, Void
<1>7. RunsWhatFits'
  <2>1. \A n \in 1 .. Len(ran') : funcs'[ran'[n]] = Func
    BY <1>3, <1>5 DEF Func
  <2>2. call' = call
    BY <1>3
  <2> QED
    BY <1>1, <1>4, <1>5, <2>1, <2>2 DEF RunsWhatFits, Suits, ObjectType
<1>8. FindsWhatFits'
  <2> SUFFICES ASSUME Clear'
               PROVE  LET fitting == {i \in 1 .. Len(funcs) : ArgsFit(funcs[i])} IN
                      IF fitting = {} THEN outcome' = "NoCompatibleFunctionFound"
                      ELSE /\ outcome' = "Success"
                           /\ ran'[1] \in fitting /\ \A i \in fitting : ran'[1] <= i
    BY <1>3 DEF FindsWhatFits, Clear, ArgsFit, Given, Fits
  <2>1. Clear
    BY <1>3 DEF Clear, OneArity, AnyObject
  <2>2. \A i \in 1 .. Len(funcs) : i < index => ~ArgsFit(funcs[i])
    BY <1>1, <2>1, ClearPassed DEF IInv, PassedOver
  <2>3. outcome' = "Success"
    BY <1>1, <2>1 DEF Run, Return, Clear
  <2>4. \A i \in 1 .. Len(funcs) : ArgsFit(funcs[i]) => index <= i
    BY <1>1, <2>2
  <2> QED
    BY <1>1, <1>5, <2>3, <2>4 DEF Func
<1>9. NeverAborts' /\ NotRunYet' /\ InCall' /\ PassedOver'
  BY <1>4 DEF NeverAborts, NotRunYet, InCall, PassedOver, Calling, ReflectFailures
<1> QED
  BY <1>6, <1>7, <1>8, <1>9 DEF IInv

LEMMA Inductive == Spec => []IInv
<1>1. IInv /\ UNCHANGED vars => IInv'
  <2> SUFFICES ASSUME IInv, UNCHANGED vars PROVE IInv'
    OBVIOUS
  <2>1. UNCHANGED <<funcs, call, index, ran, outcome>>
    BY DEF vars
  <2>2. TypeOK' /\ NotRunYet' /\ InCall' /\ NeverAborts'
    BY <2>1 DEF IInv, TypeOK, Void, NotRunYet, InCall, Calling, NeverAborts
  <2>3. PassedOver'
    BY <2>1 DEF IInv, PassedOver, Calling, Passable, MayNotFit, ReadsPastEnd, ArgsFit, Given, Fits
  <2>4. RunsWhatFits'
    BY <2>1 DEF IInv, RunsWhatFits, Suits
  <2>5. FindsWhatFits'
    BY <2>1 DEF IInv, FindsWhatFits, OneArity, AnyObject, ArgsFit, Given, Fits
  <2> QED
    BY <2>2, <2>3, <2>4, <2>5 DEF IInv
<1>2. IInv /\ [Next]_vars => IInv'
  <2> SUFFICES ASSUME IInv, [Next]_vars PROVE IInv'
    OBVIOUS
  <2>1. CASE Invoke
    BY <2>1, InvokeKeeps
  <2>2. CASE Skip
    BY <2>2, SkipKeeps
  <2>3. CASE ReadPastEnd
    BY <2>3, ReadPastEndKeeps
  <2>4. CASE Exhausted
    BY <2>4, ExhaustedKeeps
  <2>5. CASE Refuse
    BY <2>5, RefuseKeeps
  <2>6. CASE Run
    BY <2>6, RunKeeps
  <2>7. CASE Over \/ UNCHANGED vars
    BY <1>1, <2>7 DEF Over
  <2> QED
    BY <2>1, <2>2, <2>3, <2>4, <2>5, <2>6, <2>7 DEF Next, Step
<1> QED
  BY IInvInit, <1>2, PTL DEF Spec

-----------------------------------------------------------------------------
(* The refinement: to a program a call is one step of FirstFit. *)

Offer ==
  [functions |-> 1 .. Len(funcs), suit |-> Those(Suits), sure |-> Those(SurelyRuns),
   passable |-> Those(Passable), short |-> Those(TooShort)]

OfferVars == <<Calling, Offer, ran, outcome>>

(* While a call runs its offer stays. *)
LEMMA OfferStays ==
  ASSUME UNCHANGED <<funcs, call>>
  PROVE  Offer' = Offer
<1>1. Those(Suits)' = Those(Suits)
  BY DEF Those, Suits
<1>2. Those(SurelyRuns)' = Those(SurelyRuns)
  BY DEF Those, SurelyRuns, ArgsFit, Given, Fits
<1>3. Those(Passable)' = Those(Passable)
  BY DEF Those, Passable, MayNotFit, ReadsPastEnd, ArgsFit, Given, Fits
<1>4. Those(TooShort)' = Those(TooShort)
  BY DEF Those, TooShort
<1> QED
  BY <1>1, <1>2, <1>3, <1>4 DEF Offer

(* What surely runs suits the call and is not passed over. *)
LEMMA OffersAreSound ==
  ASSUME IInv
  PROVE  /\ Offer.suit \subseteq Offer.functions
         /\ Offer.sure \subseteq Offer.suit \ Offer.passable
<1>1. Offer.suit \subseteq Offer.functions
  BY DEF Offer, Those
<1>2. ASSUME NEW i \in 1 .. Len(funcs), SurelyRuns(funcs[i])
      PROVE  Suits(funcs[i]) /\ ~Passable(funcs[i])
  <2> DEFINE f == funcs[i]
  <2>1. /\ Len(f.params) = Len(call.args) /\ ArgsFit(f) /\ ~call.limited
        /\ f.static \/ Gets(call.object, ObjectType(f))
    BY <1>2 DEF SurelyRuns
  <2>2. \A j \in 1 .. Len(f.params) : Gets(call.args[j], f.params[j])
    BY <2>1, FuncsAreFunctions DEF ArgsFit, Given, Fits
  <2>3. Suits(f)
    BY <2>1, <2>2, GotIsUsable DEF Suits
  <2>4. ~MayNotFit(f)
    BY <2>1 DEF MayNotFit
  <2> QED
    BY <2>3, <2>4 DEF Passable
<1> QED
  BY <1>1, <1>2 DEF Offer, Those

(* The function the loop is at decides if it is not passed over. *)
LEMMA AtFunctionDecides ==
  ASSUME IInv, AtFunction
  PROVE  Promise!Decides(index) /\ index \in 1 .. Len(funcs)
<1>1. index \in 1 .. Len(funcs)
  BY FuncsAreFunctions DEF AtFunction, Calling, IInv, TypeOK
<1> QED
  BY <1>1 DEF Promise!Decides, Those, AtFunction, IInv, PassedOver

LEMMA ReturnAnswers ==
  ASSUME Calling, NEW o, Return(o), UNCHANGED <<funcs, call>>
  PROVE  Promise!Answer(o)
<1>1. Calling' = FALSE /\ outcome' = o
  BY DEF Return, Calling
<1> QED
  BY <1>1, OfferStays DEF Promise!Answer, Offer

LEMMA InvokeAsks ==
  ASSUME IInv, IInv', Invoke
  PROVE  Promise!Ask
<1>1. ~Calling /\ outcome = "None" /\ Calling' /\ UNCHANGED <<ran, outcome>>
  BY DEF Invoke, Calling
<1>2. (Offer.suit \subseteq Offer.functions /\ Offer.sure \subseteq Offer.suit \ Offer.passable)'
  BY OffersAreSound, PTL
<1> QED
  BY <1>1, <1>2 DEF Promise!Ask, Offer

LEMMA RefuseRefuses ==
  ASSUME IInv, Refuse
  PROVE  Promise!Refuse(index)
<1>1. PICK e \in InvokeErrors : RefusedWith(e) /\ Return(e)
  BY DEF Refuse
<1>2. AtFunction /\ Calling /\ UNCHANGED <<funcs, call, ran>>
  BY DEF Refuse, Chosen, AtFunction
<1>3. e \in {"IncorrectNumberOfArguments", "ObjectIsVoid", "ObjectIsInvalid", "ArgumentIsInvalid"}
  BY <1>1 DEF RefusedWith
<1>4. ~SurelyRuns(Func)
  <2> SUFFICES ASSUME SurelyRuns(Func) PROVE FALSE
    OBVIOUS
  <2>1. ~CountDiffers /\ ArgsFit(Func) /\ ~call.limited /\ ObjectFits
    BY DEF SurelyRuns, CountDiffers, ObjectFits
  <2>2. ~ObjectMissing
    <3>1. ~Gets(Void, ObjectType(Func))
      BY DEF Gets, Void
    <3> QED
      BY <2>1, <3>1 DEF ObjectMissing, ObjectFits
  <2>3. ~MayNotFit(Func)
    BY <2>1 DEF MayNotFit
  <2> QED
    BY <1>1, <2>1, <2>2, <2>3 DEF RefusedWith, ArgsRefused, ObjectRefused
<1>5. index \notin Those(SurelyRuns)
  BY <1>4 DEF Those, Func
<1> QED
  BY <1>1, <1>2, <1>3, <1>5, AtFunctionDecides, ReturnAnswers DEF Promise!Refuse

LEMMA RunRuns ==
  ASSUME IInv, Run
  PROVE  Promise!Run(index)
<1>1. AtFunction /\ Calling /\ UNCHANGED <<funcs, call>>
  BY DEF Run, Chosen, AtFunction
<1>2. index \in Those(Suits)
  BY AcceptedFits DEF Run, Those, Suits, Func
<1>3. ran' = <<index>>
  BY <1>1, AcceptedFits DEF Run, IInv, InCall, NotRunYet
<1>4. CASE Return("Success")
  BY <1>1, <1>2, <1>3, <1>4, AtFunctionDecides, ReturnAnswers DEF Promise!Run
<1>5. CASE call.limited /\ \E e \in ReflectFailures : Return(e)
  <2>1. index \notin Those(SurelyRuns)
    BY <1>5 DEF Those, SurelyRuns
  <2>2. \E e \in ReflectFailures : Promise!Answer(e)
    BY <1>1, <1>5, ReturnAnswers
  <2> QED
    BY <1>1, <1>2, <1>3, <2>1, <2>2, AtFunctionDecides DEF Promise!Run
<1> QED
  BY <1>4, <1>5, AcceptedFits DEF Run

LEMMA PromiseStep == IInv /\ IInv' /\ [Next]_vars => [Promise!Next]_OfferVars
<1> SUFFICES ASSUME IInv, IInv', [Next]_vars
             PROVE  Promise!Next \/ UNCHANGED OfferVars
  OBVIOUS
<1>1. CASE Invoke
  BY <1>1, InvokeAsks DEF Promise!Next
<1>2. CASE Skip
  <2>1. /\ UNCHANGED <<funcs, call, ran, outcome>>
        /\ Calling /\ Calling'
    BY <1>2, FuncsAreFunctions DEF Skip, AtFunction, Calling, IInv, TypeOK
  <2> QED
    BY <2>1, OfferStays DEF OfferVars
<1>3. CASE ReadPastEnd
  <2>1. AtFunction /\ Calling /\ UNCHANGED <<funcs, call, ran>> /\ Return("Undefined")
    BY <1>3 DEF ReadPastEnd, AtFunction
  <2>2. TooShort(funcs[index])
    BY <1>3 DEF ReadPastEnd, ReadsPastEnd, TooShort, Func
  <2>3. Promise!ReadPastEnd(index) /\ index \in 1 .. Len(funcs)
    BY <2>1, <2>2, AtFunctionDecides, ReturnAnswers DEF Promise!ReadPastEnd, Those
  <2> QED
    BY <2>3 DEF Promise!Next
<1>4. CASE Exhausted
  <2>1. /\ Calling /\ UNCHANGED <<funcs, call, ran>> /\ Return("NoCompatibleFunctionFound")
        /\ index > Len(funcs)
    BY <1>4 DEF Exhausted
  <2>2. \A i \in 1 .. Len(funcs) : Passable(funcs[i])
    BY <2>1, FuncsAreFunctions DEF IInv, TypeOK, PassedOver
  <2>3. Promise!NoneFits
    BY <2>1, <2>2, ReturnAnswers DEF Promise!NoneFits, Those
  <2> QED
    BY <2>3 DEF Promise!Next
<1>5. CASE Refuse
  <2>1. Promise!Refuse(index) /\ index \in 1 .. Len(funcs)
    BY <1>5, RefuseRefuses, AtFunctionDecides DEF Refuse, Chosen
  <2> QED
    BY <2>1 DEF Promise!Next
<1>6. CASE Run
  <2>1. Promise!Run(index) /\ index \in 1 .. Len(funcs)
    BY <1>6, RunRuns, AtFunctionDecides DEF Run, Chosen
  <2> QED
    BY <2>1 DEF Promise!Next
<1>7. CASE Over \/ UNCHANGED vars
  <2>1. UNCHANGED <<funcs, call, index, ran, outcome>>
    BY <1>7 DEF Over, vars
  <2> QED
    BY <2>1, OfferStays DEF OfferVars, Calling
<1> QED
  BY <1>1, <1>2, <1>3, <1>4, <1>5, <1>6, <1>7 DEF Next, Step

LEMMA PromiseInit == Init => Promise!Init
<1> SUFFICES ASSUME Init PROVE Promise!Init
  OBVIOUS
<1>1. ~Calling /\ ran = <<>> /\ outcome = "None" /\ Len(funcs) = 0
  BY DEF Init, Calling
<1>2. 1 .. Len(funcs) = {}
  BY <1>1
<1> QED
  BY <1>1, <1>2 DEF Promise!Init, Promise!NoOffer, Those

-----------------------------------------------------------------------------
(* The end of a call. *)

(* What is left of the loop, the function it is at and the end included. *)
StepsLeft == IF Calling THEN Len(funcs) + 2 - index ELSE 0

(* Every step of a call leaves less of it. *)
CallWindsDown == [][Step => StepsLeft' < StepsLeft]_vars

(* In a call the checks leave no case out: the functions are exhausted, or *)
(* the one the loop is at is passed over, reads past the list, is accepted *)
(* or is refused with some error.                                          *)
CallGoesOn ==
  Calling =>
    \/ index > Len(funcs)
    \/ AtFunction /\ ~Unchecked /\ (MayNotFit(Func) \/ ReadsPastEnd(Func))
    \/ Chosen /\ (Accepted \/ \E e \in InvokeErrors : RefusedWith(e))

LEMMA StepsAreNumbers == IInv => StepsLeft \in Nat
BY FuncsAreFunctions DEF StepsLeft, IInv, TypeOK

LEMMA StepWindsDown ==
  ASSUME IInv, Step
  PROVE  StepsLeft' < StepsLeft
<1>1. Calling /\ index \in 1 .. Len(funcs) + 1 /\ Len(funcs) \in Nat
  BY FuncsAreFunctions DEF Step, Skip, ReadPastEnd, Exhausted, Refuse, Run, Chosen, AtFunction,
                           Calling, IInv, TypeOK
<1>2. StepsLeft >= 1 /\ StepsLeft = Len(funcs) + 2 - index
  BY <1>1 DEF StepsLeft
<1>3. CASE Skip
  BY <1>1, <1>2, <1>3 DEF Skip, StepsLeft, Calling
<1>4. CASE ReadPastEnd \/ Exhausted \/ Refuse \/ Run
  <2>1. index' = 0
    BY <1>4 DEF ReadPastEnd, Exhausted, Refuse, Run, Return
  <2> QED
    BY <1>1, <1>2, <2>1 DEF StepsLeft, Calling
<1> QED
  BY <1>3, <1>4 DEF Step

LEMMA ChecksAreComplete == IInv => CallGoesOn
<1> SUFFICES ASSUME IInv, Calling, index <= Len(funcs),
                    ~(AtFunction /\ ~Unchecked /\ (MayNotFit(Func) \/ ReadsPastEnd(Func)))
             PROVE  Chosen /\ (Accepted \/ \E e \in InvokeErrors : RefusedWith(e))
  BY FuncsAreFunctions DEF CallGoesOn, IInv, TypeOK
<1>1. AtFunction
  BY DEF AtFunction
<1>2. Chosen /\ (~Unchecked => ArgsFit(Func))
  BY <1>1 DEF Chosen, MayNotFit
<1>3. CASE CountDiffers
  BY <1>2, <1>3 DEF RefusedWith, InvokeErrors
<1>4. CASE ~CountDiffers /\ ObjectMissing
  BY <1>2, <1>4 DEF RefusedWith, InvokeErrors
<1>5. CASE ~CountDiffers /\ ~ObjectMissing /\ ~ArgsFit(Func)
  <2>1. ~ReadsPastEnd(Func)
    <3>1. index \in 1 .. Len(funcs)
      BY <1>1, FuncsAreFunctions DEF AtFunction, Calling, IInv, TypeOK
    <3> QED
      BY <1>5, <3>1, FuncsAreFunctions DEF CountDiffers, ReadsPastEnd, Func
  <2>2. ArgsRefused
    BY <1>2, <1>5, <2>1 DEF ArgsRefused, MayNotFit
  <2> QED
    BY <1>2, <1>5, <2>2 DEF RefusedWith, InvokeErrors
<1>6. CASE ~CountDiffers /\ ~ObjectMissing /\ ArgsFit(Func) /\ ~ObjectFits
  BY <1>2, <1>6 DEF RefusedWith, ObjectRefused, InvokeErrors
<1>7. CASE ~CountDiffers /\ ~ObjectMissing /\ ArgsFit(Func) /\ ObjectFits
  BY <1>2, <1>7 DEF Accepted
<1> QED
  BY <1>3, <1>4, <1>5, <1>6, <1>7

-----------------------------------------------------------------------------
(* The theorems. *)

(* Methods, calls and outcomes keep their types; a call runs one function  *)
(* at most.                                                                *)
THEOREM TypeCorrect == Spec => []TypeOK
<1>1. IInv => TypeOK
  BY DEF IInv
<1> QED
  BY <1>1, Inductive, PTL

(* The checks of CheckArgs suffice for the value() of the calls of Get. *)
THEOREM NoCallAborts == Spec => []NeverAborts
<1>1. IInv => NeverAborts
  BY DEF IInv
<1> QED
  BY <1>1, Inductive, PTL

(* A function runs on exactly the arguments given, each usable as its      *)
(* parameter, and an error other than of a registration means nothing ran. *)
THEOREM OnlyWhatFitsRuns == Spec => []RunsWhatFits
<1>1. IInv => RunsWhatFits
  BY DEF IInv
<1> QED
  BY <1>1, Inductive, PTL

(* Among functions of the given number of arguments, the first that fits   *)
(* runs, whatever comes before it.                                         *)
THEOREM FirstFitRuns == Spec => []FindsWhatFits
<1>1. IInv => FindsWhatFits
  BY DEF IInv
<1> QED
  BY <1>1, Inductive, PTL

(* The loop of Invoke implements first fit: whatever the functions of a    *)
(* method, the first that is not passed over runs or is refused, and the   *)
(* call ends with it; only when all are passed over does it find none.     *)
THEOREM CallsAreFirstFit == Spec => AnswersByFirstFit
<1>1. Init => Promise!Init
  BY PromiseInit
<1>2. IInv /\ IInv' /\ [Next]_vars => [Promise!Next]_(Promise!vars)
  BY PromiseStep DEF Promise!vars, OfferVars, Offer
<1> QED
  BY <1>1, <1>2, Inductive, PTL DEF Spec, AnswersByFirstFit, Promise!Spec

(* A call of n functions takes n + 1 steps at most, and in none of its     *)
(* states do the checks of CheckArgs and Invoke leave it without a way on. *)
THEOREM CallsWindDown == Spec => [](StepsLeft \in Nat /\ CallGoesOn) /\ CallWindsDown
<1>1. IInv => StepsLeft \in Nat /\ CallGoesOn
  BY StepsAreNumbers, ChecksAreComplete
<1>2. IInv /\ [Next]_vars => [Step => StepsLeft' < StepsLeft]_vars
  BY StepWindsDown
<1> QED
  BY <1>1, <1>2, Inductive, PTL DEF Spec, CallWindsDown
=============================================================================
