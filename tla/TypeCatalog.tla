---------------------------- MODULE TypeCatalog ----------------------------
(***************************************************************************)
(* What the type registry of refl-cpp promises to the code that calls      *)
(* ReflectID<T>(), without saying how ids are chosen or how the data of a  *)
(* type is built: a call is answered with the id of its own type or with   *)
(* one of the three errors; ids may be issued while a call is in progress  *)
(* (for the types its data mentions), an id is issued to one type only and *)
(* is never taken back.                                                    *)
(***************************************************************************)
EXTENDS Naturals

CONSTANTS
  Types,      (* the reflected types of the program                        *)
  TypeIDs,    (* the values of TypeID; 0 is TypeID::Invalid()              *)
  NoCaller    (* "no call in progress", not a type                         *)

VARIABLES
  ids,      (* ids[t] is the id issued to t, 0 when there is none          *)
  caller,   (* the type the outermost call in progress asks for            *)
  reply     (* what the last finished call returned                        *)

vars == <<ids, caller, reply>>

ReflectErrors == {"MaxLimitReached", "CreationFailed", "OutOfMemory"}
Success(id)   == [error |-> "None", id |-> id]
Failure(e)    == [error |-> e, id |-> 0]
Replies       == {Success(id) : id \in TypeIDs} \cup {Failure(e) : e \in ReflectErrors}

Issued == {ids[t] : t \in Types} \ {0}

Init ==
  /\ ids = [t \in Types |-> 0]
  /\ caller = NoCaller
  /\ reply = Success(0)

(* A type without an id gets one that no type has. *)
Issue(t) ==
  /\ ids[t] = 0
  /\ \E id \in TypeIDs \ (Issued \cup {0}) : ids' = [ids EXCEPT ![t] = id]

(* The type already has an id: the call is answered at once. *)
Lookup(t) ==
  /\ caller = NoCaller
  /\ ids[t] # 0
  /\ reply' = Success(ids[t])
  /\ UNCHANGED <<ids, caller>>

(* The type has no id yet: the call is in progress. *)
Ask(t) ==
  /\ caller = NoCaller
  /\ ids[t] = 0
  /\ caller' = t
  /\ UNCHANGED <<ids, reply>>

(* A type the data of the caller mentions is registered on the way. *)
IssueOnTheWay(t) ==
  /\ caller \notin {NoCaller, t}
  /\ Issue(t)
  /\ UNCHANGED <<caller, reply>>

Grant ==
  /\ caller # NoCaller
  /\ Issue(caller)
  /\ reply' = Success(ids'[caller])
  /\ caller' = NoCaller

Refuse ==
  /\ caller # NoCaller
  /\ \E e \in ReflectErrors : reply' = Failure(e)
  /\ caller' = NoCaller
  /\ UNCHANGED ids

Next ==
  \/ \E t \in Types : Lookup(t) \/ Ask(t) \/ IssueOnTheWay(t)
  \/ Grant
  \/ Refuse

Spec == Init /\ [][Next]_vars
=============================================================================
