----------------------------- MODULE FieldAccess -----------------------------
(***************************************************************************)
(* Field of refl-cpp: GetValue, GetRef and SetValue of the reflected       *)
(* fields of one class, on instances that Variants hold or refer to.       *)
(*                                                                         *)
(* Storage is a set of roots: the objects of the program, the values that  *)
(* wrappers own, and the static fields.  A root holds a struct, whose      *)
(* parts are its fields, or one plain value, its part Whole.  A Variant    *)
(* designates a root or a part of one.  Whether it can be got as a type is *)
(* VariantTypes; that this does not depend on what else was reflected, and *)
(* what copies of a Variant share, is checked in VariantAccess.            *)
(*                                                                         *)
(* Operators with an underscore in their name are faulty variants of the   *)
(* operator of that name, used to see that the properties notice the fault.*)
(***************************************************************************)
EXTENDS VariantTypes

CONSTANTS
  Struct,       (* the reflected class                                     *)
  Fields,       (* its fields                                              *)
  Statics,      (* its static fields, each a root                          *)
  ConstFields,  (* those declared const                                    *)
  FieldClass,   (* FieldClass[f]: the class of a field                     *)
  Assignable,   (* the classes with a copy assignment                      *)
  Exprs,        (* the types the program itself names in Create<T>         *)
  Roots,        (* storage for objects and owned values                    *)
  Handles,      (* Variant objects                                         *)
  Values,       (* contents of a part                                      *)
  Whole,        (* the one part of a plain value; also "all of the root"   *)
  Null          (* no root, no part, no type                               *)

Parts   == Fields \cup {Whole}
Storage == Roots \cup Statics

ASSUME StructAssumption == Struct \in Classes /\ Whole \notin Fields \cup Statics
ASSUME FieldsAssumption ==
  /\ ConstFields \subseteq Fields \cup Statics
  /\ FieldClass \in [Fields \cup Statics -> Copyable \ {Struct}]
ASSUME ExprsAssumption == Exprs \subseteq AllTypes
ASSUME StorageAssumption ==
  /\ Roots \cap Statics = {}
  /\ Null \notin Storage \cup Parts \cup AllTypes
  /\ Values # {}

VARIABLES
  store,     (* the roots: lifetime, class, constness and contents         *)
  variant,   (* the Variant objects                                        *)
  error      (* the outcome of the last operation on a Field               *)

vars == <<store, variant, error>>

-----------------------------------------------------------------------------
(* State. *)

Initial == CHOOSE v \in Values : TRUE

Root(state, class, const, parts) ==
  [state |-> state, class |-> class, const |-> const, parts |-> parts]
Untouched   == [p \in Parts |-> Initial]
Nothing(state) == Root(state, Struct, FALSE, Untouched)

NoVariant   == [kind |-> "none", type |-> Null, root |-> Null, part |-> Null]
VoidVariant == [kind |-> "VOID", type |-> Null, root |-> Null, part |-> Null]

Free     == {r \in Roots : store[r].state = "free"}
Objects  == {r \in Roots : store[r].state = "object"}
Alive(r) == store[r].state \in {"object", "owned"}
Owns(v)  == v.kind \in ValueKinds

PartClass(r, p) == IF p = Whole THEN store[r].class ELSE FieldClass[p]
PartConst(r, p) == store[r].const \/ p \in ConstFields

(* A Variant can be passed unless what it designates is gone (to use such  *)
(* a Variant is undefined and left out).                                   *)
Passable ==
  {v \in {variant[h] : h \in Handles} \cup {VoidVariant} :
     v # NoVariant /\ (v.root # Null => Alive(v.root))}

TypeOf(class, const, form) == [class |-> class, const |-> const, form |-> form]

(* Variant::Get<R>: the error it returns. *)
GetError(v, R) ==
  IF v.kind = "VOID" THEN "IsVoid"
  ELSE IF CanGetAs(v.kind, v.type, R) THEN "None" ELSE "CanNotGet"

Init ==
  /\ store = [r \in Storage |->
       IF r \in Statics
       THEN Root("object", FieldClass[r], r \in ConstFields, Untouched)
       ELSE Nothing("free")]
  /\ variant = [h \in Handles |-> NoVariant]
  /\ error = "None"

-----------------------------------------------------------------------------
(* The program's own objects, and what it does with Variants. *)

Declare(r, class, const) ==
  /\ r \in Free
  /\ store' = [store EXCEPT ![r] = Root("object", class, const, Untouched)]
  /\ error' = "None"
  /\ UNCHANGED variant

EndOfLife(r) ==
  /\ r \in Objects
  /\ store' = [store EXCEPT ![r] = Nothing("dead")]
  /\ error' = "None"
  /\ UNCHANGED variant

(* Variant::Create<T> of a part: values are copied to a root of their own. *)
Copied(r, p) == IF p = Whole THEN store[r].parts ELSE [Untouched EXCEPT ![Whole] = store[r].parts[p]]

Wrap(h, T, r, p) ==
  variant' = [variant EXCEPT ![h] = [kind |-> WrapperKind(T), type |-> T, root |-> r, part |-> p]]

MakeVariant(h, T, r, p) ==
  \/ /\ WrapperKind(T) \in ValueKinds
     /\ \E own \in Free :
          /\ store' = [store EXCEPT ![own] = Root("owned", T.class, T.const, Copied(r, p))]
          /\ Wrap(h, T, own, Whole)
  \/ /\ WrapperKind(T) \notin ValueKinds
     /\ Wrap(h, T, r, p)
     /\ UNCHANGED store

Create(h, T, r) ==
  /\ variant[h] = NoVariant
  /\ r \in Objects
  /\ T.class = store[r].class
  /\ store[r].const => T.const \/ (T.form = "value" /\ T.class \in Copyable)
  /\ MakeVariant(h, T, r, Whole)
  /\ error' = "None"

DestroyVariant(h) ==
  /\ variant[h] # NoVariant
  /\ variant' = [variant EXCEPT ![h] = NoVariant]
  /\ store' = IF Owns(variant[h])
              THEN [store EXCEPT ![variant[h].root] = Nothing("dead")]
              ELSE store
  /\ error' = "None"

(* The program writes through the reference that Get<T&>() of a Variant of *)
(* a plain value hands out.                                                *)
Assign(h, value) ==
  /\ variant[h] \in Passable
  /\ \E class \in Classes \ {Struct} : GetError(variant[h], TypeOf(class, FALSE, "lref")) = "None"
  /\ store' = [store EXCEPT ![variant[h].root].parts[variant[h].part] = value]
  /\ error' = "None"
  /\ UNCHANGED variant

-----------------------------------------------------------------------------
(* Field. *)

(* FieldGetError of a VariantGetError and of a ReflectError.               *)
FieldGetErrors == {"VariantIsVoid", "InstanceIsVoid", "CanNotGet",
                   "ReflectMaxLimitReached", "ReflectCreationFailed", "OutOfMemory"}
ReflectFailures == {"ReflectMaxLimitReached", "ReflectCreationFailed", "OutOfMemory"}

(* FieldSetError of a VariantGetError. *)
FieldSetErrors == {"IsConst", "IsNotCopyAssignable", "InstanceIsVoid",
                   "NewValueIsVoid", "CanNotGetNewValue"}
SetError_Unconverted(e) == e
SetError(e) == IF e = "IsVoid" THEN "NewValueIsVoid" ELSE "CanNotGetNewValue"

Fail(e) == error' = e /\ UNCHANGED <<store, variant>>

(* The instance as the class's ClassType&, and the place of f in it.       *)
Instance_OrConst(i) ==
  IF GetError(i, TypeOf(Struct, FALSE, "lref")) = "None"
  THEN "None" ELSE GetError(i, TypeOf(Struct, TRUE, "lref"))
Instance(i)      == GetError(i, TypeOf(Struct, FALSE, "lref"))
FieldRoot(f, i)  == IF f \in Statics THEN f ELSE i.root
FieldPart(f)     == IF f \in Statics THEN Whole ELSE f

(* What GetValue and GetRef have in common: the checks of the instance and *)
(* Variant::Create<T>, whose registration of T may fail.                   *)
Read(f, i, to, T) ==
  /\ variant[to] = NoVariant
  /\ \/ /\ f \in Fields /\ i.kind = "VOID"
        /\ Fail("InstanceIsVoid")
     \/ /\ f \in Fields /\ i.kind # "VOID" /\ Instance(i) # "None"
        /\ Fail("CanNotGet")
     \/ /\ f \in Fields => Instance(i) = "None"
        /\ \E e \in ReflectFailures : Fail(e)
     \/ /\ f \in Fields => Instance(i) = "None"
        /\ MakeVariant(to, T, FieldRoot(f, i), FieldPart(f))
        /\ error' = "None"

GetValue(f, i, to) == Read(f, i, to, TypeOf(FieldClass[f], FALSE, "value"))

GetRef_Mutable(f, i, to) == Read(f, i, to, TypeOf(FieldClass[f], FALSE, "lref"))

GetRef(f, i, to) == Read(f, i, to, TypeOf(FieldClass[f], f \in ConstFields, "lref"))

(* SetValue checks constness and assignability, then the instance, then    *)
(* the new value.  The result made for a void instance is not returned, so *)
(* the error of Get is reported, as an error of the new value.             *)
SetValue(f, v, i) ==
  LET new == GetError(v, TypeOf(FieldClass[f], TRUE, "lref"))
      settable == f \notin ConstFields /\ FieldClass[f] \in Assignable
      found == f \in Fields => Instance(i) = "None"
  IN
  \/ /\ f \in ConstFields
     /\ Fail("IsConst")
  \/ /\ f \notin ConstFields /\ FieldClass[f] \notin Assignable
     /\ Fail("IsNotCopyAssignable")
  \/ /\ settable /\ ~found
     /\ Fail(SetError(Instance(i)))
  \/ /\ settable /\ found /\ new # "None"
     /\ Fail(SetError(new))
  \/ /\ settable /\ found /\ new = "None"
     /\ store' = [store EXCEPT ![FieldRoot(f, i)].parts[FieldPart(f)] = store[v.root].parts[v.part]]
     /\ error' = "None"
     /\ UNCHANGED variant

Next ==
  \/ \E r \in Roots :
       \/ \E class \in {T.class : T \in Exprs}, const \in BOOLEAN : Declare(r, class, const)
       \/ EndOfLife(r)
       \/ \E h \in Handles, T \in Exprs : Create(h, T, r)
  \/ \E h \in Handles :
       \/ DestroyVariant(h)
       \/ \E value \in Values : Assign(h, value)
  \/ \E f \in Fields \cup Statics, i \in Passable :
       \/ \E to \in Handles : GetValue(f, i, to) \/ GetRef(f, i, to)
       \/ \E v \in Passable : SetValue(f, v, i)

Spec == Init /\ [][Next]_vars

-----------------------------------------------------------------------------
(* Properties. *)

TypeOK ==
  /\ store \in [Storage -> [state : {"free", "object", "owned", "dead"}, class : Classes,
                            const : BOOLEAN, parts : [Parts -> Values]]]
  /\ variant \in [Handles -> [kind : Kinds \cup {"none"}, type : AllTypes \cup {Null},
                              root : Storage \cup {Null}, part : Parts \cup {Null}]]
  /\ error \in FieldGetErrors \cup FieldSetErrors \cup {"None"}

(* The parts of live storage a step changes. *)
Changed(r, p) ==
  Alive(r) /\ Alive(r)' /\ store'[r].parts[p] # store[r].parts[p]

(* A field declared const, a field of a const object and a const value     *)
(* keep their value, whichever way of SetValue, GetRef, and Variants made  *)
(* from Variants leads to them.                                            *)
ConstKept == [][\A r \in Storage, p \in Parts : Changed(r, p) => ~PartConst(r, p)]_vars

(* Apart from static fields, storage is only changed through a Variant     *)
(* that refers to it and is not const: what GetValue returned stays as it  *)
(* was when the field changes, setting a field of an instance passed by    *)
(* value leaves the original alone, and a const T& instance is not         *)
(* written to even if the object is not const.                             *)
Grants(v, r, p) == v.root = r /\ ~v.type.const /\ v.part \in {p, Whole}

Confined ==
  [][\A r \in Roots, p \in Parts :
       Changed(r, p) => \E h \in Handles : Grants(variant[h], r, p)]_vars

(* field_wrapper.hpp:152-154 and FieldSetError::InstanceIsVoid: setting a  *)
(* field of a void instance is reported as such.                           *)
VoidInstanceReported ==
  [][\A f \in Fields \ ConstFields, v \in Passable :
       /\ FieldClass[f] \in Assignable
       /\ GetError(v, TypeOf(FieldClass[f], TRUE, "lref")) = "None"
       /\ SetValue(f, v, VoidVariant)
       => error' = "InstanceIsVoid"]_vars
=============================================================================
