-------------------------- MODULE ArgumentInfoProofs --------------------------
(***************************************************************************)
(* Proofs about ArgumentInfo, for any functions, signatures, parameters,   *)
(* names and failures.                                                     *)
(***************************************************************************)
EXTENDS ArgumentInfo, SequenceTheorems, TLAPS

Lists == {"types", "info"}
Calls == [pc : {"types", "info", "collect", "have"}, func : Functions, list : Lists, next : Nat]
Infos == [name : STRING, type : Types]
Notes == [sig : Signatures, list : Lists, ok : BOOLEAN]

-----------------------------------------------------------------------------
(* The inductive invariant. *)

States ==
  /\ typeArgs \in [Signatures -> Seq(Types)]
  /\ infoArgs \in [Signatures -> Seq(Infos)]
  /\ registered \subseteq Types
  /\ call \in Calls \cup {Idle}
  /\ outcome \in {"None", "Success", "ReflectError", "bad_alloc", "Undefined"}
  /\ told \subseteq Notes

(* The list of types has the first parameter types. *)
TypesAgree(s) ==
  /\ Len(typeArgs[s]) <= Len(Params[s])
  /\ \A i \in 1 .. Len(typeArgs[s]) : typeArgs[s][i] = Params[s][i]

(* The list with names, once filled, has the types and somebody's names. *)
InfosAgree(s) ==
  infoArgs[s] # <<>> =>
    /\ Len(infoArgs[s]) = Len(typeArgs[s])
    /\ \A i \in 1 .. Len(infoArgs[s]) : infoArgs[s][i].type = typeArgs[s][i]
    /\ \E f \in Functions :
         /\ Signature[f] = s /\ Len(infoArgs[s]) <= Len(Names[f])
         /\ \A i \in 1 .. Len(infoArgs[s]) : infoArgs[s][i].name = Names[f][i]

(* A list that has been handed out is not one that will be filled. *)
HeldFilled(s) ==
  /\ Held(s, "types") => typeArgs[s] # <<>> \/ Params[s] = <<>>
  /\ Held(s, "info") => infoArgs[s] # <<>> \/ Params[s] = <<>>

(* A list of types is short while it is being filled and after a failure.  *)
Collecting(s) == At("collect") /\ s = Sig
ShortTold(s) ==
  typeArgs[s] # <<>> /\ Len(typeArgs[s]) # Len(Params[s]) => Refused(s) \/ Collecting(s)

SignatureOK(s) == TypesAgree(s) /\ InfosAgree(s) /\ HeldFilled(s) /\ ShortTold(s)

(* What a call has found out and the lists it is about to fill. *)
CallOK ==
  call # Idle =>
    /\ call.next \in 1 .. Len(Params[Sig]) + 1
    /\ At("info") => call.list = "info"
    /\ At("info") \/ At("types") => call.next = 1
    /\ call.list = "info" /\ ~At("info") => infoArgs[Sig] = <<>>
    /\ At("have") => typeArgs[Sig] # <<>> \/ Params[Sig] = <<>>
    /\ At("collect") => /\ Params[Sig] # <<>> /\ infoArgs[Sig] = <<>>
                        /\ call.next = Len(typeArgs[Sig]) + 1
                        /\ ~Held(Sig, "types")

IInv == States /\ CallOK /\ \A s \in Signatures : SignatureOK(s)

-----------------------------------------------------------------------------
(* Calls. *)

LEMMA CallFacts ==
  ASSUME IInv, call # Idle
  PROVE  /\ call \in Calls /\ call.func \in Functions /\ Sig \in Signatures
         /\ Params[Sig] \in Seq(Types) /\ Len(Params[Sig]) \in Nat
         /\ typeArgs[Sig] \in Seq(Types) /\ Len(typeArgs[Sig]) \in Nat
         /\ Names[call.func] \in Seq(STRING) /\ Len(Names[call.func]) \in Nat
<1>1. call \in Calls
  BY DEF IInv, States
<1>2. call.func \in Functions
  BY <1>1 DEF Calls
<1>3. Sig \in Signatures
  BY <1>2, SignatureAssumption DEF Sig
<1> QED
  BY <1>1, <1>2, <1>3, ParamsAssumption, NamesAssumption, LenProperties DEF IInv, States

LEMMA Busy == ASSUME NEW pc, pc # "idle", At(pc) PROVE call # Idle
  BY DEF At, Idle

(* The list of types of a signature is empty exactly if it has no length. *)
LEMMA Lengths ==
  ASSUME IInv, NEW s \in Signatures
  PROVE  /\ Len(typeArgs[s]) \in Nat /\ (Len(typeArgs[s]) = 0 <=> typeArgs[s] = <<>>)
         /\ Len(infoArgs[s]) \in Nat /\ (Len(infoArgs[s]) = 0 <=> infoArgs[s] = <<>>)
         /\ Len(Params[s]) \in Nat /\ (Len(Params[s]) = 0 <=> Params[s] = <<>>)
<1>1. typeArgs[s] \in Seq(Types) /\ infoArgs[s] \in Seq(Infos) /\ Params[s] \in Seq(Types)
  BY ParamsAssumption DEF IInv, States
<1> QED
  BY <1>1, LenProperties, EmptySeq

LEMMA IInvInit == Init => IInv
<1> SUFFICES ASSUME Init PROVE IInv
  OBVIOUS
<1>1. States
  BY EmptySeq DEF Init, States, Notes
<1>2. ASSUME NEW s \in Signatures PROVE SignatureOK(s)
  <2>1. typeArgs[s] = <<>> /\ infoArgs[s] = <<>> /\ told = {} /\ Len(<<>>) = 0
    BY EmptySeq DEF Init
  <2>2. Len(Params[s]) \in Nat
    BY ParamsAssumption, LenProperties
  <2> QED
    BY <2>1, <2>2 DEF SignatureOK, TypesAgree, InfosAgree, HeldFilled, ShortTold, Held
<1>3. CallOK
  BY DEF Init, CallOK
<1> QED
  BY <1>1, <1>2, <1>3 DEF IInv

(* A step within a call that leaves the lists alone. *)
LEMMA GotoKeeps ==
  ASSUME IInv, call # Idle, NEW pc \in {"types", "info", "collect", "have"}, Goto(pc),
         UNCHANGED <<typeArgs, infoArgs, registered, outcome, told>>,
         ~At("collect") \/ Len(typeArgs[Sig]) = Len(Params[Sig]),
         CallOK'
  PROVE  IInv'
<1>1. /\ call' \in Calls /\ call'.pc = pc /\ call'.func = call.func
  BY CallFacts DEF Goto, Calls
<1>2. States'
  BY <1>1 DEF IInv, States
<1>3. ASSUME NEW s \in Signatures PROVE SignatureOK(s)'
  <2>1. SignatureOK(s)
    BY DEF IInv
  <2>2. Refused(s)' <=> Refused(s)
    BY DEF Refused
  <2>3. ShortTold(s)'
    BY <1>1, <2>1, <2>2 DEF SignatureOK, ShortTold, Collecting, Sig, At
  <2> QED
    BY <2>1, <2>3 DEF SignatureOK, TypesAgree, InfosAgree, HeldFilled, Held
<1> QED
  BY <1>2, <1>3 DEF IInv

(* A call that returns without touching the lists. *)
LEMMA ReturnKeeps ==
  ASSUME IInv, call # Idle, UNCHANGED <<typeArgs, infoArgs, registered>>,
         NEW o \in {"Success", "ReflectError", "bad_alloc", "Undefined"}, Return(o),
         At("collect") => o = "ReflectError",
         o = "Success" => /\ call.list = "types" => typeArgs[Sig] # <<>> \/ Params[Sig] = <<>>
                          /\ call.list = "info" => infoArgs[Sig] # <<>> \/ Params[Sig] = <<>>
  PROVE  IInv'
<1> DEFINE note == Told(o = "Success")
<1>1. /\ note \in Notes /\ note.sig = Sig /\ note.list = call.list /\ note.ok = (o = "Success")
  BY CallFacts DEF Told, Notes, Calls
<1>2. call' = Idle /\ outcome' = o /\ told' = told \cup {note}
  BY DEF Return
<1> HIDE DEF note
<1>3. States'
  BY <1>1, <1>2 DEF IInv, States
<1>4. CallOK'
  BY <1>2 DEF CallOK, Idle
<1>5. ASSUME NEW s \in Signatures PROVE SignatureOK(s)'
  <2>1. SignatureOK(s)
    BY DEF IInv
  <2>2. ASSUME NEW list \in Lists, Held(s, list)', ~Held(s, list)
        PROVE  s = Sig /\ list = call.list /\ o = "Success"
    <3>1. note = [sig |-> s, list |-> list, ok |-> TRUE]
      BY <1>2, <2>2 DEF Held
    <3> QED
      BY <1>1, <3>1
  <2>3. HeldFilled(s)'
    BY <2>1, <2>2 DEF SignatureOK, HeldFilled, Lists
  <2>4. Refused(s) => Refused(s)'
    BY <1>2 DEF Refused
  <2>5. Collecting(s) => Refused(s)'
    <3> SUFFICES ASSUME Collecting(s) PROVE Refused(s)'
      OBVIOUS
    <3>1. o = "ReflectError" /\ s = Sig /\ call.list \in Lists
      BY CallFacts DEF Collecting, Calls
    <3>2. note = [sig |-> s, list |-> call.list, ok |-> FALSE]
      BY <3>1 DEF note, Told
    <3> QED
      BY <1>2, <3>1, <3>2 DEF Refused, Lists
  <2>6. ShortTold(s)'
    BY <2>1, <2>4, <2>5 DEF SignatureOK, ShortTold
  <2> QED
    BY <2>1, <2>3, <2>6 DEF SignatureOK, TypesAgree, InfosAgree
<1> QED
  BY <1>3, <1>4, <1>5 DEF IInv

-----------------------------------------------------------------------------
(* The steps. *)

LEMMA AskKeeps ==
  ASSUME IInv, NEW f \in Functions, NEW list \in Lists, Ask(f, list)
  PROVE  IInv'
<1>1. call' = [pc |-> list, func |-> f, list |-> list, next |-> 1] /\ call.pc = "idle"
  BY DEF Ask, At
<1>2. call' \in Calls /\ outcome' = "None" /\ UNCHANGED <<typeArgs, infoArgs, registered, told>>
  BY <1>1 DEF Ask, Calls, Lists
<1>3. States'
  BY <1>2 DEF IInv, States
<1>4. CallOK'
  <2>1. Len(Params[Signature[f]]) \in Nat
    BY SignatureAssumption, ParamsAssumption, LenProperties
  <2> QED
    BY <1>1, <1>2, <2>1 DEF CallOK, At, Sig, Lists
<1>5. ASSUME NEW s \in Signatures PROVE SignatureOK(s)'
  <2>1. SignatureOK(s) /\ ~Collecting(s)
    BY <1>1 DEF IInv, Collecting, At
  <2>2. Refused(s)' <=> Refused(s)
    BY <1>2 DEF Refused
  <2> QED
    BY <1>2, <2>1, <2>2 DEF SignatureOK, TypesAgree, InfosAgree, HeldFilled, ShortTold, Held
<1> QED
  BY <1>3, <1>4, <1>5 DEF IInv

LEMMA LookAtInfoKeeps ==
  ASSUME IInv, LookAtInfo
  PROVE  IInv'
<1>1. call # Idle /\ At("info") /\ call.list = "info"
  BY Busy DEF LookAtInfo, IInv, CallOK
<1>2. CASE infoArgs[Sig] # <<>> /\ Return("Success")
  BY <1>1, <1>2, ReturnKeeps DEF LookAtInfo, At
<1>3. CASE infoArgs[Sig] = <<>> /\ Goto("types") /\ UNCHANGED <<outcome, told>>
  <2>1. call'.pc = "types" /\ call'.func = call.func /\ call'.next = call.next /\ call'.list = "info"
    BY <1>1, <1>3, CallFacts DEF Goto, Calls
  <2>2. CallOK'
    BY <1>1, <1>3, <2>1 DEF IInv, CallOK, At, Sig, LookAtInfo
  <2> QED
    BY <1>1, <1>3, <2>2, GotoKeeps DEF LookAtInfo, At
<1> QED
  BY <1>2, <1>3 DEF LookAtInfo

LEMMA LookAtTypesKeeps ==
  ASSUME IInv, LookAtTypes
  PROVE  IInv'
<1>1. call # Idle /\ At("types") /\ UNCHANGED <<typeArgs, infoArgs, registered>>
  BY Busy DEF LookAtTypes
<1>2. CallOK /\ SignatureOK(Sig)
  BY <1>1, CallFacts DEF IInv
<1>3. ASSUME NEW pc \in {"collect", "have"}, Goto(pc)
      PROVE  /\ call'.pc = pc /\ call'.func = call.func
             /\ call'.next = call.next /\ call'.list = call.list
  BY <1>1, <1>3, CallFacts DEF Goto, Calls
<1>4. CASE /\ typeArgs[Sig] # <<>> \/ Params[Sig] = <<>>
           /\ HaveTypes
  <2>1. CallOK'
    BY <1>1, <1>2, <1>3, <1>4 DEF HaveTypes, CallOK, At, Sig
  <2> QED
    BY <1>1, <1>4, <2>1, GotoKeeps DEF HaveTypes, At
<1>5. CASE /\ typeArgs[Sig] = <<>> /\ Params[Sig] # <<>>
           /\ Goto("collect") /\ UNCHANGED <<outcome, told>>
  <2>1. infoArgs[Sig] = <<>> /\ Len(typeArgs[Sig]) = 0
    BY <1>1, <1>2, <1>5, CallFacts, Lengths DEF SignatureOK, InfosAgree
  <2>2. ~Held(Sig, "types")
    BY <1>2, <1>5 DEF SignatureOK, HeldFilled
  <2>3. call.next = 1
    BY <1>1, <1>2 DEF CallOK
  <2>4. /\ call'.pc = "collect" /\ Sig' = Sig /\ call'.next = 1
        /\ UNCHANGED <<typeArgs, infoArgs, told>>
    BY <1>1, <1>3, <1>5, <2>3 DEF Sig
  <2>5. ~Held(Sig, "types")'
    BY <2>2, <2>4 DEF Held
  <2>6. CallOK'
    BY <1>5, <2>1, <2>4, <2>5, <1>1, CallFacts DEF CallOK, At
  <2> QED
    BY <1>1, <1>5, <2>6, GotoKeeps DEF At
<1>6. CASE Return("bad_alloc")
  BY <1>1, <1>6, ReturnKeeps DEF At
<1> QED
  BY <1>4, <1>5, <1>6 DEF LookAtTypes

LEMMA CollectEndKeeps ==
  ASSUME IInv, At("collect"), call.next > Len(Params[Sig]), HaveTypes,
         UNCHANGED <<typeArgs, infoArgs, registered>>
  PROVE  IInv'
<1>1. call # Idle
  BY Busy
<1>2. CallOK /\ SignatureOK(Sig)
  BY <1>1, CallFacts DEF IInv
<1>3. Len(typeArgs[Sig]) = Len(Params[Sig]) /\ typeArgs[Sig] # <<>>
  BY <1>1, <1>2, CallFacts, Lengths DEF CallOK, SignatureOK, TypesAgree
<1>4. /\ call'.pc = "have" /\ call'.func = call.func
      /\ call'.next = call.next /\ call'.list = call.list
  BY <1>1, CallFacts DEF HaveTypes, Goto, Calls
<1>5. CallOK'
  BY <1>1, <1>2, <1>3, <1>4 DEF CallOK, At, Sig
<1> QED
  BY <1>1, <1>3, <1>5, GotoKeeps DEF HaveTypes

(* One more type: the list is not one that anybody holds. *)
LEMMA CollectOneKeeps ==
  ASSUME IInv, At("collect"), call.next <= Len(Params[Sig]), Register(Params[Sig][call.next]),
         typeArgs' = [typeArgs EXCEPT ![Sig] = Append(@, Params[Sig][call.next])],
         call' = [call EXCEPT !.next = @ + 1],
         UNCHANGED <<infoArgs, outcome, told>>
  PROVE  IInv'
<1> DEFINE P == Params[Sig][call.next]
<1>1. call # Idle
  BY Busy
<1>2. CallOK /\ SignatureOK(Sig)
  BY <1>1, CallFacts DEF IInv
<1>3. /\ call.next = Len(typeArgs[Sig]) + 1 /\ call.next \in 1 .. Len(Params[Sig])
      /\ infoArgs[Sig] = <<>> /\ ~Held(Sig, "types") /\ Params[Sig] # <<>>
  BY <1>1, <1>2 DEF CallOK
<1>4. P \in Types
  BY <1>1, <1>3, CallFacts, ElementOfSeq
<1>5. /\ call' \in Calls /\ call'.pc = "collect" /\ call'.func = call.func
      /\ call'.list = call.list /\ call'.next = call.next + 1
  BY <1>1, CallFacts DEF Calls, At
<1>6. Sig' = Sig
  BY <1>5 DEF Sig
<1> HIDE DEF P
<1>7. typeArgs \in [Signatures -> Seq(Types)] /\ Sig \in Signatures /\ typeArgs[Sig] \in Seq(Types)
  BY <1>1, CallFacts DEF IInv, States
<1>8. /\ Append(typeArgs[Sig], P) \in Seq(Types)
      /\ Len(Append(typeArgs[Sig], P)) = Len(typeArgs[Sig]) + 1
      /\ \A i \in 1 .. Len(typeArgs[Sig]) : Append(typeArgs[Sig], P)[i] = typeArgs[Sig][i]
      /\ Append(typeArgs[Sig], P)[Len(typeArgs[Sig]) + 1] = P
  BY <1>4, <1>7, AppendProperties
<1>9. /\ typeArgs' \in [Signatures -> Seq(Types)]
      /\ typeArgs'[Sig] = Append(typeArgs[Sig], P)
      /\ \A s \in Signatures \ {Sig} : typeArgs'[s] = typeArgs[s]
  BY <1>7, <1>8 DEF P
<1>10. States'
  BY <1>4, <1>5, <1>9 DEF IInv, States, Register, P
<1>11. CallOK'
  <2>1. ~Held(Sig, "types")'
    BY <1>3, <1>6 DEF Held
  <2>2. call'.next \in 1 .. Len(Params[Sig]) + 1 /\ call'.next = Len(typeArgs'[Sig]) + 1
    BY <1>1, <1>3, <1>5, <1>8, <1>9, CallFacts
  <2> QED
    BY <1>3, <1>5, <1>6, <2>1, <2>2 DEF CallOK, At
<1>12. ASSUME NEW s \in Signatures PROVE SignatureOK(s)'
  <2>1. SignatureOK(s)
    BY DEF IInv
  <2>2. Refused(s)' <=> Refused(s)
    BY DEF Refused
  <2>3. CASE s = Sig
    <3>1. \A i \in 1 .. Len(typeArgs'[Sig]) : typeArgs'[Sig][i] = Params[Sig][i]
      <4> SUFFICES ASSUME NEW i \in 1 .. Len(typeArgs'[Sig]) PROVE typeArgs'[Sig][i] = Params[Sig][i]
        OBVIOUS
      <4>1. i \in 1 .. Len(typeArgs[Sig]) \/ i = Len(typeArgs[Sig]) + 1
        BY <1>8, <1>9, <1>1, CallFacts
      <4>2. CASE i \in 1 .. Len(typeArgs[Sig])
        BY <1>2, <1>8, <1>9, <4>2 DEF SignatureOK, TypesAgree
      <4>3. CASE i = Len(typeArgs[Sig]) + 1
        BY <1>3, <1>8, <1>9, <4>3 DEF P
      <4> QED
        BY <4>1, <4>2, <4>3
    <3>2. TypesAgree(s)'
      BY <1>1, <1>3, <1>8, <1>9, <2>3, <3>1, CallFacts DEF TypesAgree
    <3>3. InfosAgree(s)'
      BY <1>3, <2>3 DEF InfosAgree
    <3>4. HeldFilled(s)'
      <4>1. ~Held(s, "types")' /\ (Held(s, "info")' <=> Held(s, "info"))
        BY <1>3, <2>3 DEF Held
      <4> QED
        BY <2>1, <4>1 DEF SignatureOK, HeldFilled
    <3>5. ShortTold(s)'
      BY <1>5, <1>6, <2>3 DEF ShortTold, Collecting, At
    <3> QED
      BY <3>2, <3>3, <3>4, <3>5 DEF SignatureOK
  <2>4. CASE s # Sig
    <3>1. typeArgs'[s] = typeArgs[s] /\ ~Collecting(s) /\ ~Collecting(s)'
      BY <1>6, <1>9, <2>4 DEF Collecting
    <3> QED
      BY <2>1, <2>2, <3>1 DEF SignatureOK, TypesAgree, InfosAgree, HeldFilled, ShortTold, Held
  <2> QED
    BY <2>3, <2>4
<1> QED
  BY <1>10, <1>11, <1>12 DEF IInv

LEMMA CollectKeeps ==
  ASSUME IInv, Collect
  PROVE  IInv'
<1>1. CASE call.next > Len(Params[Sig])
  <2>1. call.next \in Nat /\ Len(Params[Sig]) \in Nat
    BY Busy, CallFacts DEF Collect, Calls
  <2> QED
    BY <1>1, <2>1, CollectEndKeeps DEF Collect
<1>2. CASE call.next <= Len(Params[Sig])
  <2>1. call.next \in Nat /\ Len(Params[Sig]) \in Nat
    BY Busy, CallFacts DEF Collect, Calls
  <2> QED
    BY <1>2, <2>1, CollectOneKeeps DEF Collect
<1> QED
  BY <1>1, <1>2 DEF Collect

LEMMA CollectFailsKeeps ==
  ASSUME IInv, CollectFails
  PROVE  IInv'
<1>1. call # Idle
  BY Busy DEF CollectFails
<1> QED
  BY <1>1, ReturnKeeps DEF CollectFails

LEMMA FinishTypesKeeps ==
  ASSUME IInv, FinishTypes
  PROVE  IInv'
<1>1. call # Idle /\ CallOK
  BY Busy DEF FinishTypes, IInv
<1>2. typeArgs[Sig] # <<>> \/ Params[Sig] = <<>>
  BY <1>1 DEF FinishTypes, CallOK
<1> QED
  BY <1>1, <1>2, ReturnKeeps DEF FinishTypes, At

(* The list with names gets the types as they are and this function's names. *)
LEMMA FilledFacts ==
  ASSUME IInv, call # Idle, EnoughNames
  PROVE  LET new == Filled(typeArgs[Sig], Names[call.func]) IN
         /\ new \in Seq(Infos) /\ Len(new) = Len(typeArgs[Sig])
         /\ \A i \in 1 .. Len(new) :
              new[i].type = typeArgs[Sig][i] /\ new[i].name = Names[call.func][i]
<1> DEFINE n == Len(typeArgs[Sig])
           e(i) == [name |-> Names[call.func][i], type |-> typeArgs[Sig][i]]
           new == [i \in 1 .. n |-> e(i)]
<1>1. n \in Nat /\ n <= Len(Names[call.func]) /\ Len(Names[call.func]) \in Nat
  BY CallFacts DEF EnoughNames
<1>2. ASSUME NEW i \in 1 .. n PROVE e(i) \in Infos
  <2>1. typeArgs[Sig][i] \in Types
    BY CallFacts, ElementOfSeq
  <2>2. i \in 1 .. Len(Names[call.func])
    BY <1>1
  <2>3. Names[call.func][i] \in STRING
    BY <2>2, CallFacts, ElementOfSeq
  <2> QED
    BY <2>1, <2>3 DEF Infos
<1>3. \A i \in 1 .. n : new[i].type = typeArgs[Sig][i] /\ new[i].name = Names[call.func][i]
  OBVIOUS
<1>4. Filled(typeArgs[Sig], Names[call.func]) = new
  BY DEF Filled
<1> HIDE DEF n, e
<1>5. new \in Seq(Infos)
  BY <1>1, <1>2, IsASeq
<1>6. Len(new) = n
  BY <1>1, <1>5, LenProperties
<1> QED
  BY <1>3, <1>4, <1>5, <1>6 DEF n

LEMMA FillsKeeps ==
  ASSUME IInv, At("have"), call.list = "info", EnoughNames, Return("Success"),
         infoArgs' = [infoArgs EXCEPT ![Sig] = Filled(typeArgs[Sig], Names[call.func])],
         UNCHANGED <<typeArgs, registered>>
  PROVE  IInv'
<1> DEFINE new == Filled(typeArgs[Sig], Names[call.func])
           note == Told(TRUE)
<1>1. call # Idle
  BY Busy
<1>2. CallOK /\ SignatureOK(Sig)
  BY <1>1, CallFacts DEF IInv
<1>3. infoArgs[Sig] = <<>> /\ (typeArgs[Sig] # <<>> \/ Params[Sig] = <<>>)
  BY <1>1, <1>2 DEF CallOK, At
<1>4. /\ new \in Seq(Infos) /\ Len(new) = Len(typeArgs[Sig])
      /\ \A i \in 1 .. Len(new) :
           new[i].type = typeArgs[Sig][i] /\ new[i].name = Names[call.func][i]
  BY <1>1, FilledFacts
<1>5. note \in Notes /\ note = [sig |-> Sig, list |-> "info", ok |-> TRUE]
  BY <1>1, CallFacts DEF Told, Notes, Lists
<1>6. call' = Idle /\ outcome' = "Success" /\ told' = told \cup {note}
  BY DEF Return
<1>7. infoArgs \in [Signatures -> Seq(Infos)] /\ Sig \in Signatures /\ Len(Names[call.func]) \in Nat
  BY <1>1, CallFacts DEF IInv, States
<1> HIDE DEF new, note
<1>8. /\ infoArgs' \in [Signatures -> Seq(Infos)] /\ infoArgs'[Sig] = new
      /\ \A s \in Signatures \ {Sig} : infoArgs'[s] = infoArgs[s]
  BY <1>4, <1>7 DEF new
<1>9. States'
  BY <1>5, <1>6, <1>8 DEF IInv, States
<1>10. CallOK'
  BY <1>6 DEF CallOK, Idle
<1>11. ASSUME NEW s \in Signatures PROVE SignatureOK(s)'
  <2>1. SignatureOK(s)
    BY DEF IInv
  <2>2. TypesAgree(s)'
    BY <2>1 DEF SignatureOK, TypesAgree
  <2>3. InfosAgree(s)'
    <3>1. CASE s # Sig
      BY <1>8, <2>1, <3>1 DEF SignatureOK, InfosAgree
    <3>2. CASE s = Sig
      <4>1. call.func \in Functions /\ Signature[call.func] = s /\ Len(new) <= Len(Names[call.func])
        BY <1>1, <1>4, <3>2, CallFacts DEF EnoughNames, Sig
      <4> QED
        BY <1>4, <1>8, <3>2, <4>1 DEF InfosAgree
    <3> QED
      BY <3>1, <3>2
  <2>4. HeldFilled(s)'
    <3>1. Held(s, "types")' => Held(s, "types")
      BY <1>5, <1>6 DEF Held
    <3>2. Held(s, "info")' => Held(s, "info") \/ s = Sig
      BY <1>5, <1>6 DEF Held
    <3>3. new # <<>> \/ Params[Sig] = <<>>
      BY <1>1, <1>3, <1>4, CallFacts, Lengths, EmptySeq
    <3>4. infoArgs'[Sig] # <<>> \/ Params[Sig] = <<>>
      BY <1>8, <3>3
    <3>5. infoArgs'[s] # <<>> \/ Params[s] = <<>> \/ ~Held(s, "info")'
      <4>1. CASE s = Sig
        BY <3>4, <4>1
      <4>2. CASE s # Sig
        BY <1>8, <2>1, <3>2, <4>2 DEF SignatureOK, HeldFilled
      <4> QED
        BY <4>1, <4>2
    <3> QED
      BY <2>1, <3>1, <3>5 DEF SignatureOK, HeldFilled
  <2>5. ShortTold(s)'
    <3>1. Refused(s) => Refused(s)'
      BY <1>6 DEF Refused
    <3>2. ~Collecting(s)
      BY DEF Collecting, At
    <3> QED
      BY <2>1, <3>1, <3>2 DEF SignatureOK, ShortTold
  <2> QED
    BY <2>2, <2>3, <2>4, <2>5 DEF SignatureOK
<1> QED
  BY <1>9, <1>10, <1>11 DEF IInv

LEMMA FillInfoKeeps ==
  ASSUME IInv, FillInfo
  PROVE  IInv'
<1>1. call # Idle /\ At("have") /\ call.list = "info"
  BY Busy DEF FillInfo
<1>2. CASE Return("Undefined") /\ UNCHANGED infoArgs
  BY <1>1, <1>2, ReturnKeeps DEF FillInfo, At
<1>3. CASE Return("bad_alloc") /\ UNCHANGED infoArgs
  BY <1>1, <1>3, ReturnKeeps DEF FillInfo, At
<1>4. CASE /\ EnoughNames /\ Return("Success")
           /\ infoArgs' = [infoArgs EXCEPT ![Sig] = Filled(typeArgs[Sig], Names[call.func])]
  BY <1>1, <1>4, FillsKeeps DEF FillInfo
<1> QED
  BY <1>2, <1>3, <1>4 DEF FillInfo

LEMMA StepKeeps ==
  ASSUME IInv, [Next]_vars
  PROVE  IInv'
<1>1. ASSUME UNCHANGED vars PROVE IInv'
  <2>1. States' /\ CallOK'
    BY <1>1 DEF IInv, States, CallOK, vars, At, Sig, Held
  <2>2. ASSUME NEW s \in Signatures PROVE SignatureOK(s)'
    BY <1>1 DEF IInv, SignatureOK, TypesAgree, InfosAgree, HeldFilled, ShortTold,
                Collecting, Held, Refused, vars, At, Sig
  <2> QED
    BY <2>1, <2>2 DEF IInv
<1>2. CASE \E f \in Functions, list \in Lists : Ask(f, list)
  BY <1>2, AskKeeps
<1>3. CASE Stopped
  BY <1>1, <1>3 DEF Stopped
<1> QED
  BY <1>1, <1>2, <1>3, LookAtInfoKeeps, LookAtTypesKeeps, CollectKeeps, CollectFailsKeeps,
     FinishTypesKeeps, FillInfoKeeps DEF Next, Lists

(* The inductive invariant holds in every reachable state. *)
THEOREM Inductive == Spec => []IInv
<1> QED
  BY IInvInit, StepKeeps, PTL DEF Spec

-----------------------------------------------------------------------------
(* The properties. *)

(* Every reachable state is of the types that TypeOK says. *)
THEOREM TypeCorrect == Spec => []TypeOK
<1>1. ASSUME IInv PROVE TypeOK
  <2>1. ASSUME NEW s \in Signatures, NEW i \in 1 .. Len(infoArgs[s])
        PROVE  infoArgs[s][i].type \in Types
    <3>1. infoArgs[s][i] \in Infos
      BY <1>1, ElementOfSeq DEF IInv, States
    <3> QED
      BY <3>1 DEF Infos
  <2>2. call # Idle => call.func \in Functions /\ call.next \in 1 .. Len(Params[Sig]) + 1
    BY <1>1, CallFacts DEF IInv, CallOK
  <2>3. told \subseteq [sig : Signatures, list : {"types", "info"}, ok : BOOLEAN]
    BY <1>1 DEF IInv, States, Notes, Lists
  <2> QED
    BY <1>1, <2>1, <2>2, <2>3 DEF IInv, States, TypeOK
<1> QED
  BY <1>1, Inductive, PTL

(* What agrees element by element is a prefix. *)
LEMMA PrefixOf ==
  ASSUME NEW S, NEW s \in Seq(S), NEW t \in Seq(S), Len(s) <= Len(t),
         \A i \in 1 .. Len(s) : s[i] = t[i]
  PROVE  IsPrefix(s, t)
<1> DEFINE n == Len(s)
<1>1. n \in Nat /\ Len(t) \in Nat /\ n <= Len(t)
  BY LenProperties
<1>2. ASSUME NEW i \in 1 .. n PROVE s[i] \in S /\ t[i] \in S
  BY <1>1, <1>2, ElementOfSeq
<1>3. /\ SubSeq(s, 1, n) \in Seq(S) /\ Len(SubSeq(s, 1, n)) = IF 1 <= n THEN n - 1 + 1 ELSE 0
      /\ \A i \in 1 .. n - 1 + 1 : SubSeq(s, 1, n)[i] = s[1 + i - 1]
  BY <1>1, <1>2, SubSeqProperties
<1>4. /\ SubSeq(t, 1, n) \in Seq(S) /\ Len(SubSeq(t, 1, n)) = IF 1 <= n THEN n - 1 + 1 ELSE 0
      /\ \A i \in 1 .. n - 1 + 1 : SubSeq(t, 1, n)[i] = t[1 + i - 1]
  BY <1>1, <1>2, SubSeqProperties
<1>5. Len(SubSeq(s, 1, n)) = n /\ Len(SubSeq(t, 1, n)) = n
  BY <1>1, <1>3, <1>4
<1>6. ASSUME NEW i \in 1 .. n PROVE SubSeq(s, 1, n)[i] = SubSeq(t, 1, n)[i]
  BY <1>1, <1>3, <1>4, <1>6
<1> HIDE DEF n
<1>7. SubSeq(s, 1, n) = SubSeq(t, 1, n)
  BY <1>3, <1>4, <1>5, <1>6, SeqEqual
<1> QED
  BY <1>1, <1>7 DEF n, IsPrefix

(* The types in a list with names are those of the list of types. *)
LEMMA SameTypes ==
  ASSUME IInv, NEW s \in Signatures, infoArgs[s] # <<>>
  PROVE  TypesOf(infoArgs[s]) = typeArgs[s]
<1> DEFINE n == Len(infoArgs[s])
<1>1. /\ n = Len(typeArgs[s]) /\ n \in Nat
      /\ \A i \in 1 .. n : infoArgs[s][i].type = typeArgs[s][i]
  BY Lengths DEF IInv, SignatureOK, InfosAgree
<1>2. typeArgs[s] \in [1 .. n -> Types]
  BY <1>1, LenProperties DEF IInv, States
<1> HIDE DEF n
<1>3. [i \in 1 .. n |-> infoArgs[s][i].type] = typeArgs[s]
  BY <1>1, <1>2
<1> QED
  BY <1>3 DEF TypesOf, n

(* Whatever fails in between, both lists have the first parameter types in *)
(* order, and the names are those of one function of the signature.        *)
THEOREM ListsStayAgreed == Spec => []ListsAgree
<1>1. ASSUME IInv, NEW s \in Signatures
      PROVE  /\ IsPrefix(typeArgs[s], Params[s])
             /\ infoArgs[s] # <<>> =>
                  /\ TypesOf(infoArgs[s]) = typeArgs[s]
                  /\ \E f \in Functions : Signature[f] = s /\ IsPrefix(NamesOf(infoArgs[s]), Names[f])
  <2>1. SignatureOK(s) /\ typeArgs[s] \in Seq(Types) /\ Params[s] \in Seq(Types)
    BY <1>1, ParamsAssumption DEF IInv, States
  <2>2. IsPrefix(typeArgs[s], Params[s])
    BY <2>1, PrefixOf DEF SignatureOK, TypesAgree
  <2>3. ASSUME infoArgs[s] # <<>>
        PROVE  \E f \in Functions : Signature[f] = s /\ IsPrefix(NamesOf(infoArgs[s]), Names[f])
    <3> DEFINE n == Len(infoArgs[s])
               e(i) == infoArgs[s][i].name
               names == [i \in 1 .. n |-> e(i)]
    <3>1. PICK f \in Functions :
            /\ Signature[f] = s /\ n <= Len(Names[f])
            /\ \A i \in 1 .. n : infoArgs[s][i].name = Names[f][i]
      BY <2>1, <2>3 DEF SignatureOK, InfosAgree
    <3>2. n \in Nat /\ Names[f] \in Seq(STRING)
      BY <1>1, Lengths, NamesAssumption
    <3>3. \A i \in 1 .. n : e(i) \in STRING
      <4> SUFFICES ASSUME NEW i \in 1 .. n PROVE e(i) \in STRING
        OBVIOUS
      <4>1. infoArgs[s][i] \in Infos
        BY <1>1, ElementOfSeq DEF IInv, States
      <4> QED
        BY <4>1 DEF Infos
    <3>4. \A i \in 1 .. n : names[i] = Names[f][i]
      BY <3>1
    <3>5. NamesOf(infoArgs[s]) = names
      BY DEF NamesOf
    <3> HIDE DEF n, e
    <3>6. names \in Seq(STRING)
      BY <3>2, <3>3, IsASeq
    <3>7. Len(names) = n
      BY <3>2, <3>6, LenProperties
    <3> HIDE DEF names
    <3>8. IsPrefix(names, Names[f])
      BY <3>1, <3>2, <3>4, <3>6, <3>7, PrefixOf
    <3> QED
      BY <3>1, <3>5, <3>8
  <2> QED
    BY <1>1, <2>2, <2>3, SameTypes
<1>2. IInv => ListsAgree
  BY <1>1 DEF ListsAgree
<1> QED
  BY <1>2, Inductive, PTL

(* Only who comes after a refused call is given a list that lacks          *)
(* parameters.                                                             *)
THEOREM ShortListsWereRefused == Spec => []ShortOnlyAfterFailure
<1>1. ASSUME IInv, NEW s \in Signatures, ~Refused(s)
      PROVE  /\ Held(s, "types") => typeArgs[s] = Params[s]
             /\ Held(s, "info") => TypesOf(infoArgs[s]) = Params[s]
  <2>1. SignatureOK(s) /\ typeArgs[s] \in Seq(Types) /\ Params[s] \in Seq(Types)
    BY <1>1, ParamsAssumption DEF IInv, States
  <2>2. ASSUME Collecting(s) PROVE ~Held(s, "types") /\ infoArgs[s] = <<>> /\ Params[s] # <<>>
    BY <1>1, <2>2, Busy DEF IInv, CallOK, Collecting
  <2>3. ASSUME ~Collecting(s), typeArgs[s] # <<>> PROVE typeArgs[s] = Params[s]
    <3>1. Len(typeArgs[s]) = Len(Params[s])
      BY <1>1, <2>1, <2>3 DEF SignatureOK, ShortTold
    <3> QED
      BY <2>1, <3>1, SeqEqual DEF SignatureOK, TypesAgree
  <2>4. ASSUME Params[s] = <<>> PROVE typeArgs[s] = Params[s]
    BY <1>1, <2>1, <2>4, Lengths DEF SignatureOK, TypesAgree
  <2>5. ASSUME Held(s, "types") PROVE typeArgs[s] = Params[s]
    BY <2>1, <2>2, <2>3, <2>4, <2>5 DEF SignatureOK, HeldFilled
  <2>6. ASSUME Held(s, "info") PROVE TypesOf(infoArgs[s]) = Params[s]
    <3>1. CASE infoArgs[s] # <<>>
      <4>1. ~Collecting(s)
        BY <2>2, <3>1
      <4>2. Len(infoArgs[s]) = Len(typeArgs[s]) /\ typeArgs[s] # <<>>
        BY <1>1, <2>1, <3>1, Lengths DEF SignatureOK, InfosAgree
      <4> QED
        BY <1>1, <2>3, <3>1, <4>1, <4>2, SameTypes
    <3>2. CASE infoArgs[s] = <<>>
      <4>1. Params[s] = <<>>
        BY <2>1, <2>6, <3>2 DEF SignatureOK, HeldFilled
      <4>2. Len(<<>>) = 0
        BY EmptySeq
      <4>3. TypesOf(<<>>) = <<>>
        BY <4>2 DEF TypesOf
      <4> QED
        BY <3>2, <4>1, <4>3
    <3> QED
      BY <3>1, <3>2
  <2> QED
    BY <2>5, <2>6
<1>2. IInv => ShortOnlyAfterFailure
  BY <1>1 DEF ShortOnlyAfterFailure
<1> QED
  BY <1>2, Inductive, PTL

(* A list that a caller was given a reference to never changes again.      *)
THEOREM HandedOutNeverChanges == Spec => HandedOutStays
<1> DEFINE Stays == \A s \in Signatures :
             /\ Held(s, "types") => typeArgs'[s] = typeArgs[s]
             /\ Held(s, "info") => infoArgs'[s] = infoArgs[s]
<1>1. ASSUME IInv, Next, NEW s \in Signatures, Held(s, "types")
      PROVE  typeArgs'[s] = typeArgs[s]
  <2>1. CASE UNCHANGED typeArgs
    BY <2>1
  <2>2. CASE Collect
    <3>1. call # Idle /\ ~Held(Sig, "types")
      BY <1>1, <2>2, Busy DEF Collect, IInv, CallOK
    <3>2. s # Sig
      BY <1>1, <3>1
    <3> QED
      BY <1>1, <2>2, <3>2 DEF Collect, IInv, States
  <2> QED
    BY <1>1, <2>1, <2>2 DEF Next, Ask, LookAtInfo, LookAtTypes, CollectFails, FinishTypes,
                            FillInfo, Stopped, vars
<1>2. ASSUME IInv, Next, NEW s \in Signatures, Held(s, "info")
      PROVE  infoArgs'[s] = infoArgs[s]
  <2>1. CASE UNCHANGED infoArgs
    BY <2>1
  <2>2. CASE /\ At("have") /\ call.list = "info"
             /\ infoArgs' = [infoArgs EXCEPT ![Sig] = Filled(typeArgs[Sig], Names[call.func])]
    <3>1. call # Idle /\ infoArgs[Sig] = <<>>
      BY <1>2, <2>2, Busy DEF IInv, CallOK, At
    <3>2. CASE s = Sig
      <4>1. SignatureOK(s) /\ Params[s] = <<>>
        BY <1>2, <3>1, <3>2 DEF IInv, SignatureOK, HeldFilled
      <4>2. Len(typeArgs[s]) = 0
        BY <1>2, <4>1, Lengths DEF SignatureOK, TypesAgree
      <4>3. Filled(typeArgs[s], Names[call.func]) = <<>>
        BY <4>2 DEF Filled
      <4> QED
        BY <1>2, <2>2, <3>1, <3>2, <4>3 DEF IInv, States
    <3>3. CASE s # Sig
      BY <1>2, <2>2, <3>3 DEF IInv, States
    <3> QED
      BY <3>2, <3>3
  <2> QED
    BY <1>2, <2>1, <2>2 DEF Next, Ask, LookAtInfo, LookAtTypes, Collect, CollectFails,
                            FinishTypes, FillInfo, Stopped, vars
<1>3. IInv /\ [Next]_vars => [Stays]_vars
  BY <1>1, <1>2
<1> QED
  BY <1>3, Inductive, PTL DEF Spec, HandedOutStays

(* Names are read past their end only for a function declared with fewer   *)
(* names than parameters, and before its signature has a list with names.  *)
THEOREM NamesReadOnlyInRange == Spec => NamesReadInRange
<1> DEFINE InRange == outcome' = "Undefined" /\ outcome # "Undefined" =>
             /\ Len(Names[call.func]) < Len(Params[Sig])
             /\ ~Held(Sig, "info")
<1>1. ASSUME IInv, Next, outcome' = "Undefined", outcome # "Undefined"
      PROVE  /\ Len(Names[call.func]) < Len(Params[Sig])
             /\ ~Held(Sig, "info")
  <2>1. FillInfo /\ ~EnoughNames
    BY <1>1 DEF Next, Ask, LookAtInfo, LookAtTypes, HaveTypes, Collect, CollectFails,
                FinishTypes, FillInfo, Stopped, vars, Return
  <2>2. call # Idle /\ CallOK
    BY <1>1, <2>1, Busy DEF FillInfo, IInv
  <2>3. SignatureOK(Sig) /\ infoArgs[Sig] = <<>>
    BY <1>1, <2>1, <2>2, CallFacts DEF FillInfo, IInv, CallOK, At
  <2>4. Len(Names[call.func]) < Len(typeArgs[Sig]) /\ Len(typeArgs[Sig]) <= Len(Params[Sig])
    BY <1>1, <2>1, <2>2, <2>3, CallFacts DEF EnoughNames, SignatureOK, TypesAgree
  <2>5. Len(Names[call.func]) < Len(Params[Sig]) /\ Len(Params[Sig]) # 0
    BY <1>1, <2>2, <2>4, CallFacts
  <2> QED
    BY <1>1, <2>2, <2>3, <2>5, CallFacts, Lengths DEF SignatureOK, HeldFilled
<1>2. IInv /\ [Next]_vars => [InRange]_vars
  BY <1>1
<1> QED
  BY <1>2, Inductive, PTL DEF Spec, NamesReadInRange
=============================================================================
