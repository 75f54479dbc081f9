---------------------------- MODULE ArgumentInfo ----------------------------
(***************************************************************************)
(* The argument information of refl-cpp: two static lists per signature,   *)
(* filled when first asked for.  FunctionTraits keeps the types of the     *)
(* parameters, MethodFuncWrapper the parameters with their names.  Several *)
(* functions can have one signature, and share both lists.                 *)
(*                                                                         *)
(* Operators with an underscore in their name are faulty variants of the   *)
(* operator of that name, used to see that the properties notice the fault.*)
(***************************************************************************)
EXTENDS Naturals, Sequences, SequencesExt

CONSTANTS
  Functions,   (* the functions of the program                             *)
  Signatures,  (* their types, each with lists of its own                  *)
  Signature,   (* Signature[f]: the type of f                              *)
  Types,       (* the parameter types                                      *)
  Params,      (* Params[s]: the parameter types of a signature            *)
  Names        (* Names[f]: the parameter names given for f                *)

ASSUME SignatureAssumption == Signature \in [Functions -> Signatures]
ASSUME ParamsAssumption    == Params \in [Signatures -> Seq(Types)]
ASSUME NamesAssumption     == Names \in [Functions -> Seq(STRING)]

VARIABLES
  typeArgs,    (* FunctionTraits: the static list of each signature        *)
  infoArgs,    (* MethodFuncWrapper: the static list of each signature     *)
  registered,  (* the parameter types that have an id                      *)
  call,        (* the function asked, for which list, how far it got, and  *)
               (* the parameter it has reached                             *)
  outcome,     (* what the last call ended with                            *)
  told         (* what callers know: the lists they were given references  *)
               (* to and the lists they were refused                       *)

vars == <<typeArgs, infoArgs, registered, call, outcome, told>>

-----------------------------------------------------------------------------
Idle == [pc |-> "idle"]
At(pc) == call.pc = pc
Sig    == Signature[call.func]
Goto(pc) == call' = [call EXCEPT !.pc = pc]

Init ==
  /\ typeArgs = [s \in Signatures |-> <<>>]
  /\ infoArgs = [s \in Signatures |-> <<>>]
  /\ registered \in SUBSET Types
  /\ call = Idle
  /\ outcome = "None"
  /\ told = {}

Told(ok) == [sig |-> Sig, list |-> call.list, ok |-> ok]
Return(o) == call' = Idle /\ outcome' = o /\ told' = told \cup {Told(o = "Success")}

Ask_FromZero(f, list) ==
  /\ At("idle") /\ outcome # "Undefined"
  /\ call' = [pc |-> list, func |-> f, list |-> list, next |-> 0]
  /\ outcome' = "None"
  /\ UNCHANGED <<typeArgs, infoArgs, registered, told>>

(* GetArgTypes() or GetArgs() of a function. *)
Ask(f, list) ==
  /\ At("idle") /\ outcome # "Undefined"
  /\ call' = [pc |-> list, func |-> f, list |-> list, next |-> 1]
  /\ outcome' = "None"
  /\ UNCHANGED <<typeArgs, infoArgs, registered, told>>

(* MethodFuncWrapper::GetArgs: a list that is not empty is the answer. *)
LookAtInfo ==
  /\ At("info")
  /\ \/ infoArgs[Sig] # <<>> /\ Return("Success")
     \/ infoArgs[Sig] = <<>> /\ Goto("types") /\ UNCHANGED <<outcome, told>>
  /\ UNCHANGED <<typeArgs, infoArgs, registered>>

(* FunctionTraits::GetArgs: likewise; else memory is reserved, which may   *)
(* throw, and the types are registered one after the other.                *)
HaveTypes == Goto("have") /\ UNCHANGED <<outcome, told>>

LookAtTypes_Always ==
  /\ At("types")
  /\ Goto("collect") /\ UNCHANGED <<outcome, told>>
  /\ UNCHANGED <<typeArgs, infoArgs, registered>>

LookAtTypes ==
  /\ At("types")
  /\ \/ /\ typeArgs[Sig] # <<>> \/ Params[Sig] = <<>>
        /\ HaveTypes
     \/ /\ typeArgs[Sig] = <<>> /\ Params[Sig] # <<>>
        /\ \/ Goto("collect") /\ UNCHANGED <<outcome, told>>
           \/ Return("bad_alloc")
  /\ UNCHANGED <<typeArgs, infoArgs, registered>>

Register(P) == registered' = registered \cup {P}

Collect ==
  /\ At("collect")
  /\ \/ /\ call.next > Len(Params[Sig])
        /\ HaveTypes
        /\ UNCHANGED <<typeArgs, registered>>
     \/ /\ call.next <= Len(Params[Sig])
        /\ Register(Params[Sig][call.next])
        /\ typeArgs' = [typeArgs EXCEPT ![Sig] = Append(@, Params[Sig][call.next])]
        /\ call' = [call EXCEPT !.next = @ + 1]
        /\ UNCHANGED <<outcome, told>>
  /\ UNCHANGED infoArgs

(* ReflectID of the next type fails, which it can while the type has no id. *)
CollectFails_GoesOn ==
  /\ At("collect") /\ call.next <= Len(Params[Sig])
  /\ Params[Sig][call.next] \notin registered
  /\ call' = [call EXCEPT !.next = @ + 1]
  /\ UNCHANGED <<typeArgs, infoArgs, registered, outcome, told>>

CollectFails ==
  /\ At("collect") /\ call.next <= Len(Params[Sig])
  /\ Params[Sig][call.next] \notin registered
  /\ Return("ReflectError")
  /\ UNCHANGED <<typeArgs, infoArgs, registered>>

(* With the types, GetArgTypes() is done; GetArgs() fills its list with as  *)
(* many names of this function, which may have fewer: reading past the end  *)
(* is undefined.  Memory is reserved before and the list empty until then.  *)
Filled(types, names) ==
  [i \in 1 .. Len(types) |-> [name |-> names[i], type |-> types[i]]]

FinishTypes ==
  /\ At("have") /\ call.list = "types"
  /\ Return("Success")
  /\ UNCHANGED <<typeArgs, infoArgs, registered>>

EnoughNames_Fewer == Len(typeArgs[Sig]) < Len(Names[call.func])
EnoughNames       == Len(typeArgs[Sig]) <= Len(Names[call.func])

FillInfo ==
  /\ At("have") /\ call.list = "info"
  /\ \/ /\ EnoughNames
        /\ infoArgs' = [infoArgs EXCEPT ![Sig] = Filled(typeArgs[Sig], Names[call.func])]
        /\ Return("Success")
     \/ /\ ~EnoughNames
        /\ Return("Undefined")
        /\ UNCHANGED infoArgs
     \/ /\ typeArgs[Sig] # <<>>
        /\ Return("bad_alloc")
        /\ UNCHANGED infoArgs
  /\ UNCHANGED <<typeArgs, registered>>

(* After undefined behaviour nothing more is said of the program. *)
Stopped == outcome = "Undefined" /\ UNCHANGED vars

Next ==
  \/ \E f \in Functions, list \in {"types", "info"} : Ask(f, list)
  \/ LookAtInfo \/ LookAtTypes \/ Collect \/ CollectFails \/ FinishTypes \/ FillInfo
  \/ Stopped

Spec == Init /\ [][Next]_vars

-----------------------------------------------------------------------------
(* Properties. *)

TypeOK ==
  /\ typeArgs \in [Signatures -> Seq(Types)]
  /\ \A s \in Signatures : \A i \in 1 .. Len(infoArgs[s]) : infoArgs[s][i].type \in Types
  /\ registered \subseteq Types
  /\ call = Idle \/ (call.func \in Functions /\ call.next \in 1 .. Len(Params[Sig]) + 1)
  /\ outcome \in {"None", "Success", "ReflectError", "bad_alloc", "Undefined"}
  /\ told \subseteq [sig : Signatures, list : {"types", "info"}, ok : BOOLEAN]

(* Both operations return references to the static lists: a list that some *)
(* caller was given never changes, whatever is asked, retried or fails      *)
(* later, and whether it is complete or not.                                *)
Held(s, list) == [sig |-> s, list |-> list, ok |-> TRUE] \in told

HandedOutStays ==
  [][\A s \in Signatures :
       /\ Held(s, "types") => typeArgs'[s] = typeArgs[s]
       /\ Held(s, "info") => infoArgs'[s] = infoArgs[s]]_vars

(* The names are read past their end only for a function that was declared *)
(* with fewer names than parameters; and not even then once the names of   *)
(* another function of its signature are in the list.                      *)
NamesReadInRange ==
  [][outcome' = "Undefined" /\ outcome # "Undefined" =>
       /\ Len(Names[call.func]) < Len(Params[Sig])
       /\ ~Held(Sig, "info")]_vars

(* Whatever failed in between, the list of types has the first parameter   *)
(* types in order and nothing else, and the list with names is the list of *)
(* types as it is for good, with the names of one function of the          *)
(* signature (not always of the one asked).                                *)
TypesOf(infos) == [i \in 1 .. Len(infos) |-> infos[i].type]
NamesOf(infos) == [i \in 1 .. Len(infos) |-> infos[i].name]

ListsAgree ==
  \A s \in Signatures :
    /\ IsPrefix(typeArgs[s], Params[s])
    /\ infoArgs[s] # <<>> =>
         /\ TypesOf(infoArgs[s]) = typeArgs[s]
         /\ \E f \in Functions : Signature[f] = s /\ IsPrefix(NamesOf(infoArgs[s]), Names[f])

(* A caller is given a list that lacks parameters only if an earlier call   *)
(* for the signature has been refused: somebody was told once.              *)
Refused(s) == \E list \in {"types", "info"} : [sig |-> s, list |-> list, ok |-> FALSE] \in told

ShortOnlyAfterFailure ==
  \A s \in Signatures : ~Refused(s) =>
    /\ Held(s, "types") => typeArgs[s] = Params[s]
    /\ Held(s, "info") => TypesOf(infoArgs[s]) = Params[s]
=============================================================================
