-------------------------- MODULE FieldAccessProofs --------------------------
(***************************************************************************)
(* Proofs about FieldAccess, for every class, field, program type and      *)
(* number of objects and Variants: const is kept whichever way a field is  *)
(* reached, and storage changes only through Variants that grant it.       *)
(***************************************************************************)
EXTENDS FieldAccess, TLAPS

-----------------------------------------------------------------------------
(* The inductive invariant: what a Variant designates has, while it lives, *)
(* the class of the Variant's type, and is not const unless that type is.  *)

RootStates == {"free", "object", "owned", "dead"}
RootValues == [state : RootStates, class : Classes, const : BOOLEAN, parts : [Parts -> Values]]
Variants   == [kind : Kinds \cup {"none"}, type : AllTypes \cup {Null},
               root : Storage \cup {Null}, part : Parts \cup {Null}]
Errors     == FieldGetErrors \cup FieldSetErrors \cup {"None"}

Made(v) ==
  /\ v.type \in AllTypes /\ v.kind = WrapperKind(v.type)
  /\ v.root \in Storage /\ v.part \in Parts
  /\ v.kind \in ValueKinds => v.root \in Roots
  /\ store[v.root].state # "free"
  /\ Alive(v.root) => /\ PartClass(v.root, v.part) = v.type.class
                      /\ PartConst(v.root, v.part) => v.type.const

VariantsOK == \A h \in Handles : variant[h] = NoVariant \/ Made(variant[h])

StaticsOK ==
  \A f \in Statics : /\ store[f].state = "object"
                     /\ store[f].class = FieldClass[f]
                     /\ store[f].const = (f \in ConstFields)

IInv == TypeOK /\ VariantsOK /\ StaticsOK

LEMMA TypeOKParts ==
  TypeOK <=> /\ store \in [Storage -> RootValues]
             /\ variant \in [Handles -> Variants]
             /\ error \in Errors
  BY DEF TypeOK, RootValues, RootStates, Variants, Errors

-----------------------------------------------------------------------------
(* Types and wrapper kinds. *)

LEMMA KindOfType ==
  ASSUME NEW T \in AllTypes
  PROVE  /\ WrapperKind(T) \in Kinds \ {"VOID"}
         /\ WrapperKind(T) \in ConstKinds <=> T.const
         /\ WrapperKind(T) \in ValueKinds <=> T.form = "value" /\ T.class \in Copyable
<1>1. T.const \in BOOLEAN /\ T.form \in Forms /\ T.class \in Classes
  BY DEF AllTypes
<1> QED
  BY <1>1 DEF WrapperKind, Adopted, Forms, ConstKinds, Kinds, ValueKinds, LRefKinds, RRefKinds, PtrKinds

LEMMA MadeType ==
  ASSUME NEW class \in Classes, NEW const \in BOOLEAN, NEW form \in Forms
  PROVE  /\ TypeOf(class, const, form) \in AllTypes
         /\ TypeOf(class, const, form).class = class
         /\ TypeOf(class, const, form).const = const
         /\ TypeOf(class, const, form).form = form
  BY DEF TypeOf, AllTypes

LEMMA FieldClasses ==
  ASSUME NEW f \in Fields \cup Statics
  PROVE  FieldClass[f] \in Classes /\ FieldClass[f] \in Copyable /\ FieldClass[f] # Struct
  BY FieldsAssumption, TraitsAssumption

LEMMA FreshRoots ==
  /\ Initial \in Values /\ Untouched \in [Parts -> Values]
  /\ \A s \in RootStates : Nothing(s) \in RootValues /\ Nothing(s).state = s
  /\ NoVariant \in Variants /\ NoVariant.root = Null
<1>1. Initial \in Values
  BY StorageAssumption DEF Initial
<1>2. Untouched \in [Parts -> Values]
  BY <1>1 DEF Untouched
<1>3. NoVariant \in Variants /\ NoVariant.root = Null
  BY DEF NoVariant, Variants
<1> QED
  BY <1>1, <1>2, <1>3, StructAssumption DEF Nothing, Root, RootValues

(* What a Variant can be got as non-const is not const itself. *)
LEMMA GrantedLRef ==
  ASSUME NEW v, v.kind = WrapperKind(v.type), v.type \in AllTypes,
         NEW class \in Classes, GetError(v, TypeOf(class, FALSE, "lref")) = "None"
  PROVE  v.type.class = class /\ ~v.type.const
<1> DEFINE R == TypeOf(class, FALSE, "lref")
<1>1. R \in AllTypes /\ R.class = class /\ ~R.const
  BY MadeType DEF Forms
<1>2. CanGetAs(v.kind, v.type, R)
  BY DEF GetError
<1> HIDE DEF R
<1>3. v.type.class = class /\ v.kind \notin ConstKinds
  BY <1>1, <1>2 DEF CanGetAs, HasMatcher, Compared
<1> QED
  BY <1>3, KindOfType

(* A Variant that can be got at all designates live storage. *)
LEMMA PassableMade ==
  ASSUME IInv, NEW v \in Passable, v.kind # "VOID"
  PROVE  /\ Made(v) /\ Alive(v.root)
         /\ \E h \in Handles : v = variant[h]
<1>1. v # VoidVariant
  BY DEF VoidVariant
<1>2. PICK h \in Handles : v = variant[h]
  BY <1>1 DEF Passable
<1>3. Made(v) /\ v # NoVariant
  BY <1>2 DEF IInv, VariantsOK, Passable
<1>4. v.root # Null
  BY <1>3, StorageAssumption DEF Made
<1> QED
  BY <1>2, <1>3, <1>4 DEF Passable

LEMMA IInvInit == Init => IInv
<1> SUFFICES ASSUME Init PROVE IInv
  OBVIOUS
<1>1. \A f \in Statics : Root("object", FieldClass[f], f \in ConstFields, Untouched) \in RootValues
  BY FieldClasses, FreshRoots DEF Root, RootValues, RootStates
<1>2. store \in [Storage -> RootValues]
  BY <1>1, FreshRoots DEF Init, Storage, RootStates
<1>3. TypeOK
  BY <1>2, FreshRoots, TypeOKParts DEF Init, Errors
<1>4. VariantsOK
  BY DEF Init, VariantsOK
<1>5. StaticsOK
  BY DEF Init, StaticsOK, Storage, Root
<1> QED
  BY <1>3, <1>4, <1>5 DEF IInv

-----------------------------------------------------------------------------
(* Changes of storage: a root begins, ends, or has a part written. *)

(* A step that leaves the Variants alone and changes one root. *)
LEMMA RootMayChange ==
  ASSUME IInv, NEW r \in Storage, NEW new \in RootValues,
         store' = [store EXCEPT ![r] = new], UNCHANGED variant, error' \in Errors,
         \/ r \in Roots /\ store[r].state = "free" /\ new.state # "free"
         \/ r \in Roots /\ new.state = "dead"
         \/ new.state = store[r].state /\ new.class = store[r].class /\ new.const = store[r].const
  PROVE  IInv'
<1>1. store \in [Storage -> RootValues]
  BY TypeOKParts DEF IInv
<1>2. /\ store' \in [Storage -> RootValues] /\ store'[r] = new
      /\ \A s \in Storage \ {r} : store'[s] = store[s]
  BY <1>1
<1>3. TypeOK'
  <2>1. variant \in [Handles -> Variants]
    BY TypeOKParts DEF IInv
  <2> QED
    BY <1>2, <2>1 DEF TypeOK, RootValues, RootStates, Variants, Errors
<1>4. VariantsOK'
  <2> SUFFICES ASSUME NEW h \in Handles, Made(variant[h]) PROVE Made(variant[h])'
    BY DEF IInv, VariantsOK
  <2>1. CASE variant[h].root # r
    BY <1>2, <2>1 DEF Made, Alive, PartClass, PartConst
  <2>2. CASE variant[h].root = r
    BY <1>2, <2>2 DEF Made, Alive, PartClass, PartConst
  <2> QED
    BY <2>1, <2>2
<1>5. StaticsOK'
  BY <1>2, StorageAssumption DEF IInv, StaticsOK, Storage
<1> QED
  BY <1>3, <1>4, <1>5 DEF IInv

LEMMA DeclareKeeps ==
  ASSUME IInv, NEW r \in Roots, NEW class \in Classes, NEW const \in BOOLEAN,
         Declare(r, class, const)
  PROVE  IInv'
<1> DEFINE new == Root("object", class, const, Untouched)
<1>1. new \in RootValues /\ new.state = "object"
  BY FreshRoots DEF Root, RootValues, RootStates
<1>2. store' = [store EXCEPT ![r] = new] /\ store[r].state = "free" /\ UNCHANGED variant
  BY DEF Declare, Free
<1>3. error' \in Errors /\ r \in Storage
  BY DEF Declare, Errors, Storage
<1> HIDE DEF new
<1> QED
  BY <1>1, <1>2, <1>3, RootMayChange

LEMMA EndOfLifeKeeps ==
  ASSUME IInv, NEW r \in Roots, EndOfLife(r)
  PROVE  IInv'
<1>1. Nothing("dead") \in RootValues /\ Nothing("dead").state = "dead"
  BY FreshRoots DEF RootStates
<1>2. store' = [store EXCEPT ![r] = Nothing("dead")] /\ UNCHANGED variant
  BY DEF EndOfLife
<1>3. error' \in Errors /\ r \in Storage
  BY DEF EndOfLife, Errors, Storage
<1> QED
  BY <1>1, <1>2, <1>3, RootMayChange

(* Writing one part of a root. *)
LEMMA WriteKeeps ==
  ASSUME IInv, NEW r \in Storage, NEW p \in Parts, NEW value \in Values,
         store' = [store EXCEPT ![r].parts[p] = value], UNCHANGED variant, error' \in Errors
  PROVE  IInv'
<1>1. store[r] \in RootValues
  BY TypeOKParts DEF IInv
<1> DEFINE new == [store[r] EXCEPT !.parts = [store[r].parts EXCEPT ![p] = value]]
<1>2. /\ new \in RootValues /\ new.state = store[r].state
      /\ new.class = store[r].class /\ new.const = store[r].const
  BY <1>1 DEF RootValues
<1>3. store' = [store EXCEPT ![r] = new]
  OBVIOUS
<1> HIDE DEF new
<1> QED
  BY <1>2, <1>3, RootMayChange

LEMMA DestroyKeeps ==
  ASSUME IInv, NEW h \in Handles, DestroyVariant(h)
  PROVE  IInv'
<1>1. /\ store \in [Storage -> RootValues] /\ variant \in [Handles -> Variants]
      /\ Made(variant[h])
  BY TypeOKParts DEF IInv, VariantsOK, DestroyVariant
<1>2. /\ variant' \in [Handles -> Variants] /\ variant'[h] = NoVariant
      /\ \A g \in Handles \ {h} : variant'[g] = variant[g]
  BY <1>1, FreshRoots DEF DestroyVariant
<1>3. /\ store' \in [Storage -> RootValues]
      /\ \A r \in Storage : store'[r] = store[r] \/ (store'[r].state = "dead" /\ r \in Roots)
  <2>1. Nothing("dead") \in RootValues /\ Nothing("dead").state = "dead"
    BY FreshRoots DEF RootStates
  <2>2. CASE Owns(variant[h])
    <3>1. variant[h].root \in Roots /\ variant[h].root \in Storage
      BY <1>1, <2>2 DEF Made, Owns
    <3>2. store' = [store EXCEPT ![variant[h].root] = Nothing("dead")]
      BY <2>2 DEF DestroyVariant
    <3> QED
      BY <1>1, <2>1, <3>1, <3>2
  <2>3. CASE ~Owns(variant[h])
    BY <1>1, <2>3 DEF DestroyVariant
  <2> QED
    BY <2>2, <2>3
<1>4. TypeOK'
  BY <1>2, <1>3 DEF DestroyVariant, TypeOK, RootValues, RootStates, Variants, Errors
<1>5. VariantsOK'
  <2>1. ASSUME NEW g \in Handles \ {h}, Made(variant[g]) PROVE Made(variant[g])'
    BY <1>2, <1>3, <2>1 DEF Made, Alive, PartClass, PartConst
  <2> QED
    BY <1>2, <2>1 DEF IInv, VariantsOK, NoVariant
<1>6. StaticsOK'
  BY <1>3, StorageAssumption DEF IInv, StaticsOK, Storage
<1> QED
  BY <1>4, <1>5, <1>6 DEF IInv

-----------------------------------------------------------------------------
(* Variants of a part: of a copy in a root of its own, or of the part.     *)

LEMMA CopiedValues ==
  ASSUME IInv, NEW r \in Storage, NEW p \in Parts
  PROVE  Copied(r, p) \in [Parts -> Values]
<1>1. store[r].parts \in [Parts -> Values]
  BY TypeOKParts DEF IInv, RootValues
<1> QED
  BY <1>1, FreshRoots DEF Copied

LEMMA MakeVariantKeeps ==
  ASSUME IInv, NEW h \in Handles, NEW T \in AllTypes, NEW r \in Storage, NEW p \in Parts,
         MakeVariant(h, T, r, p), store[r].state # "free", error' \in Errors,
         WrapperKind(T) \notin ValueKinds =>
           PartClass(r, p) = T.class /\ (PartConst(r, p) => T.const)
  PROVE  IInv'
<1>1. store \in [Storage -> RootValues] /\ variant \in [Handles -> Variants]
  BY TypeOKParts DEF IInv
<1>2. WrapperKind(T) \in Kinds \ {"VOID"} /\ T.class \in Classes /\ T.const \in BOOLEAN
  BY KindOfType DEF AllTypes
<1>3. Whole \in Parts /\ Whole \notin ConstFields
  BY StructAssumption, FieldsAssumption DEF Parts
<1>4. PICK root \in Storage, part \in Parts :
        /\ variant' = [variant EXCEPT ![h] =
             [kind |-> WrapperKind(T), type |-> T, root |-> root, part |-> part]]
        /\ \/ /\ WrapperKind(T) \in ValueKinds
              /\ root \in Roots /\ store[root].state = "free" /\ part = Whole
              /\ store' = [store EXCEPT ![root] = Root("owned", T.class, T.const, Copied(r, p))]
           \/ /\ WrapperKind(T) \notin ValueKinds
              /\ root = r /\ part = p /\ store' = store
  <2>1. CASE WrapperKind(T) \in ValueKinds
    <3>1. PICK own \in Free :
            /\ store' = [store EXCEPT ![own] = Root("owned", T.class, T.const, Copied(r, p))]
            /\ Wrap(h, T, own, Whole)
      BY <2>1 DEF MakeVariant
    <3> QED
      BY <1>3, <2>1, <3>1 DEF Free, Wrap, Storage
  <2>2. CASE WrapperKind(T) \notin ValueKinds
    BY <2>2 DEF MakeVariant, Wrap
  <2> QED
    BY <2>1, <2>2
<1> DEFINE new == [kind |-> WrapperKind(T), type |-> T, root |-> root, part |-> part]
           copy == Root("owned", T.class, T.const, Copied(r, p))
<1>5. /\ new \in Variants /\ new.kind = WrapperKind(T) /\ new.type = T
      /\ new.root = root /\ new.part = part
  BY <1>2 DEF Variants
<1>6. /\ copy \in RootValues /\ copy.state = "owned"
      /\ copy.class = T.class /\ copy.const = T.const
  BY <1>2, CopiedValues DEF Root, RootValues, RootStates
<1>7. /\ variant' = [variant EXCEPT ![h] = new]
      /\ WrapperKind(T) \in ValueKinds =>
           /\ root \in Roots /\ store[root].state = "free" /\ part = Whole
           /\ store' = [store EXCEPT ![root] = copy]
      /\ WrapperKind(T) \notin ValueKinds => root = r /\ part = p /\ store' = store
  BY <1>4
<1> HIDE DEF new, copy
<1>8. /\ variant' \in [Handles -> Variants] /\ variant'[h] = new
      /\ \A g \in Handles \ {h} : variant'[g] = variant[g]
  BY <1>1, <1>5, <1>7
<1>9. /\ store' \in [Storage -> RootValues]
      /\ \A s \in Storage : store[s].state # "free" => store'[s] = store[s]
      /\ WrapperKind(T) \in ValueKinds => store'[root] = copy
  BY <1>1, <1>6, <1>7
<1>10. TypeOK'
  BY <1>8, <1>9 DEF TypeOK, RootValues, RootStates, Variants, Errors
<1>11. VariantsOK'
  <2>1. ASSUME NEW g \in Handles \ {h}, Made(variant[g]) PROVE Made(variant[g])'
    BY <1>8, <1>9, <2>1 DEF Made, Alive, PartClass, PartConst
  <2>2. Made(variant[h])'
    <3>1. variant'[h].type = T /\ variant'[h].kind = WrapperKind(T)
          /\ variant'[h].root = root /\ variant'[h].part = part
      BY <1>5, <1>8
    <3>2. CASE WrapperKind(T) \in ValueKinds
      <4>1. store'[root] = copy /\ part = Whole /\ root \in Roots
        BY <1>7, <1>9, <3>2
      <4> QED
        BY <1>3, <1>6, <3>1, <4>1 DEF Made, Alive, PartClass, PartConst
    <3>3. CASE WrapperKind(T) \notin ValueKinds
      <4>1. store' = store /\ root = r /\ part = p
        BY <1>7, <3>3
      <4> QED
        BY <3>1, <3>3, <4>1 DEF Made, Alive, PartClass, PartConst
    <3> QED
      BY <3>2, <3>3
  <2> QED
    BY <1>8, <2>1, <2>2 DEF IInv, VariantsOK, NoVariant
<1>12. StaticsOK'
  BY <1>9 DEF IInv, StaticsOK, Storage
<1> QED
  BY <1>10, <1>11, <1>12 DEF IInv

LEMMA CreateKeeps ==
  ASSUME IInv, NEW h \in Handles, NEW T \in Exprs, NEW r \in Roots, Create(h, T, r)
  PROVE  IInv'
<1>1. T \in AllTypes /\ r \in Storage /\ Whole \in Parts /\ Whole \notin ConstFields
  BY ExprsAssumption, StructAssumption, FieldsAssumption DEF Storage, Parts
<1>2. store[r].state # "free" /\ MakeVariant(h, T, r, Whole) /\ error' \in Errors
  BY DEF Create, Objects, Errors
<1>3. WrapperKind(T) \notin ValueKinds =>
        PartClass(r, Whole) = T.class /\ (PartConst(r, Whole) => T.const)
  BY <1>1, KindOfType DEF Create, PartClass, PartConst
<1> QED
  BY <1>1, <1>2, <1>3, MakeVariantKeeps

-----------------------------------------------------------------------------
(* Writing through a Variant and through a field.                          *)

(* What the program may write to through a Variant of a plain value. *)
LEMMA AssignWhere ==
  ASSUME IInv, NEW h \in Handles, NEW value \in Values, Assign(h, value)
  PROVE  /\ Made(variant[h]) /\ Alive(variant[h].root)
         /\ ~variant[h].type.const /\ variant[h].type.class # Struct
<1>1. PICK class \in Classes \ {Struct} : GetError(variant[h], TypeOf(class, FALSE, "lref")) = "None"
  BY DEF Assign
<1>2. variant[h] \in Passable /\ variant[h].kind # "VOID"
  BY <1>1 DEF Assign, GetError
<1>3. Made(variant[h]) /\ Alive(variant[h].root)
  BY <1>2, PassableMade
<1> QED
  BY <1>1, <1>3, GrantedLRef DEF Made

LEMMA AssignKeeps ==
  ASSUME IInv, NEW h \in Handles, NEW value \in Values, Assign(h, value)
  PROVE  IInv'
<1>1. variant[h].root \in Storage /\ variant[h].part \in Parts
  BY AssignWhere DEF Made
<1>2. /\ store' = [store EXCEPT ![variant[h].root].parts[variant[h].part] = value]
      /\ UNCHANGED variant /\ error' \in Errors
  BY DEF Assign, Errors
<1> QED
  BY <1>1, <1>2, WriteKeeps

(* The instance that a field that is not static is found in. *)
LEMMA InstanceWhere ==
  ASSUME IInv, NEW i \in Passable, Instance(i) = "None"
  PROVE  /\ Made(i) /\ Alive(i.root) /\ ~i.type.const /\ ~store[i.root].const
         /\ i.part = Whole
         /\ \E h \in Handles : i = variant[h]
<1>1. i.kind # "VOID" /\ Struct \in Classes
  BY StructAssumption DEF Instance, GetError
<1>2. Made(i) /\ Alive(i.root) /\ \E h \in Handles : i = variant[h]
  BY <1>1, PassableMade
<1>3. i.type.class = Struct /\ ~i.type.const
  BY <1>1, <1>2, GrantedLRef DEF Made, Instance
<1>4. ~store[i.root].const
  BY <1>2, <1>3 DEF Made, PartConst
<1>5. i.part = Whole
  <2>1. PartClass(i.root, i.part) = Struct /\ i.part \in Parts
    BY <1>2, <1>3 DEF Made
  <2> QED
    BY <2>1, FieldClasses DEF PartClass, Parts
<1> QED
  BY <1>2, <1>3, <1>4, <1>5

(* The place of a field is alive and as const as the field. *)
LEMMA FieldWhere ==
  ASSUME IInv, NEW f \in Fields \cup Statics, NEW i \in Passable,
         f \in Fields => Instance(i) = "None"
  PROVE  /\ FieldRoot(f, i) \in Storage /\ FieldPart(f) \in Parts
         /\ Alive(FieldRoot(f, i))
         /\ PartClass(FieldRoot(f, i), FieldPart(f)) = FieldClass[f]
         /\ PartConst(FieldRoot(f, i), FieldPart(f)) <=> f \in ConstFields
<1>1. CASE f \in Statics
  <2>1. FieldRoot(f, i) = f /\ FieldPart(f) = Whole /\ f \in Storage /\ Whole \in Parts
    BY <1>1 DEF FieldRoot, FieldPart, Storage, Parts
  <2>2. /\ store[f].state = "object" /\ store[f].class = FieldClass[f]
        /\ store[f].const = (f \in ConstFields)
    BY <1>1 DEF IInv, StaticsOK
  <2>3. Whole \notin ConstFields
    BY StructAssumption, FieldsAssumption
  <2> QED
    BY <2>1, <2>2, <2>3 DEF Alive, PartClass, PartConst
<1>2. CASE f \notin Statics
  <2>1. FieldRoot(f, i) = i.root /\ FieldPart(f) = f /\ f \in Fields /\ f \in Parts /\ f # Whole
    BY <1>2, StructAssumption DEF FieldRoot, FieldPart, Parts
  <2>2. Made(i) /\ Alive(i.root) /\ ~store[i.root].const
    BY <2>1, InstanceWhere
  <2> QED
    BY <2>1, <2>2 DEF Made, PartClass, PartConst
<1> QED
  BY <1>1, <1>2

LEMMA ReadKeeps ==
  ASSUME IInv, NEW f \in Fields \cup Statics, NEW i \in Passable, NEW to \in Handles,
         NEW T \in AllTypes, T.class = FieldClass[f],
         T.form = "value" \/ (f \in ConstFields => T.const),
         Read(f, i, to, T)
  PROVE  IInv'
<1>1. CASE UNCHANGED <<store, variant>> /\ error' \in Errors
  <2>1. TypeOK'
    BY <1>1 DEF IInv, TypeOK, Errors
  <2> QED
    BY <1>1, <2>1 DEF IInv, VariantsOK, StaticsOK, Made, Alive, PartClass, PartConst
<1>2. CASE /\ f \in Fields => Instance(i) = "None"
           /\ MakeVariant(to, T, FieldRoot(f, i), FieldPart(f))
           /\ error' = "None"
  <2>1. error' \in Errors
    BY <1>2 DEF Errors
  <2>2. /\ FieldRoot(f, i) \in Storage /\ FieldPart(f) \in Parts
        /\ store[FieldRoot(f, i)].state # "free"
    BY <1>2, FieldWhere DEF Alive
  <2>3. WrapperKind(T) \notin ValueKinds =>
          /\ PartClass(FieldRoot(f, i), FieldPart(f)) = T.class
          /\ PartConst(FieldRoot(f, i), FieldPart(f)) => T.const
    BY <1>2, FieldWhere, FieldClasses, KindOfType
  <2> QED
    BY <1>2, <2>1, <2>2, <2>3, MakeVariantKeeps
<1> QED
  BY <1>1, <1>2 DEF Read, Fail, Errors, FieldGetErrors, ReflectFailures

(* The step of SetValue that writes, and what it writes where. *)
Sets(f, v, i) ==
  /\ f \notin ConstFields
  /\ f \in Fields => Instance(i) = "None"
  /\ GetError(v, TypeOf(FieldClass[f], TRUE, "lref")) = "None"
  /\ store' = [store EXCEPT ![FieldRoot(f, i)].parts[FieldPart(f)] = store[v.root].parts[v.part]]
  /\ error' = "None"
  /\ UNCHANGED variant

LEMMA SetValueSets ==
  ASSUME NEW f \in Fields \cup Statics, NEW v \in Passable, NEW i \in Passable, SetValue(f, v, i)
  PROVE  Sets(f, v, i) \/ (UNCHANGED <<store, variant>> /\ error' \in Errors)
  BY DEF SetValue, Sets, Fail, SetError, Errors, FieldSetErrors

LEMMA SetValueKeeps ==
  ASSUME IInv, NEW f \in Fields \cup Statics, NEW v \in Passable, NEW i \in Passable,
         SetValue(f, v, i)
  PROVE  IInv'
<1>1. CASE UNCHANGED <<store, variant>> /\ error' \in Errors
  <2>1. TypeOK'
    BY <1>1 DEF IInv, TypeOK, Errors
  <2> QED
    BY <1>1, <2>1 DEF IInv, VariantsOK, StaticsOK, Made, Alive, PartClass, PartConst
<1>2. CASE Sets(f, v, i)
  <2>1. v.kind # "VOID"
    BY <1>2 DEF Sets, GetError
  <2>2. v.root \in Storage /\ v.part \in Parts
    BY <2>1, PassableMade DEF Made
  <2>3. store[v.root].parts[v.part] \in Values
    BY <2>2, TypeOKParts DEF IInv, RootValues
  <2>4. FieldRoot(f, i) \in Storage /\ FieldPart(f) \in Parts
    BY <1>2, FieldWhere DEF Sets
  <2>5. error' \in Errors /\ UNCHANGED variant
    BY <1>2 DEF Sets, Errors
  <2> QED
    BY <1>2, <2>3, <2>4, <2>5, WriteKeeps DEF Sets
<1> QED
  BY <1>1, <1>2, SetValueSets

(* The type a field is read as. *)
LEMMA ReadTypes ==
  ASSUME NEW f \in Fields \cup Statics, NEW i \in Passable, NEW to \in Handles,
         GetValue(f, i, to) \/ GetRef(f, i, to)
  PROVE  \E T \in AllTypes : /\ T.class = FieldClass[f]
                             /\ T.form = "value" \/ (f \in ConstFields => T.const)
                             /\ Read(f, i, to, T)
<1>1. FieldClass[f] \in Classes
  BY FieldClasses
<1>2. CASE GetValue(f, i, to)
  <2> DEFINE T == TypeOf(FieldClass[f], FALSE, "value")
  <2>1. T \in AllTypes /\ T.class = FieldClass[f] /\ T.form = "value"
    BY <1>1, MadeType DEF Forms
  <2>2. Read(f, i, to, T)
    BY <1>2 DEF GetValue
  <2> QED
    BY <2>1, <2>2
<1>3. CASE GetRef(f, i, to)
  <2> DEFINE T == TypeOf(FieldClass[f], f \in ConstFields, "lref")
  <2>1. T \in AllTypes /\ T.class = FieldClass[f] /\ T.const = (f \in ConstFields)
    <3>1. (f \in ConstFields) \in BOOLEAN /\ "lref" \in Forms
      BY DEF Forms
    <3> QED
      BY <1>1, <3>1, Zenon DEF TypeOf, AllTypes
  <2>2. Read(f, i, to, T)
    BY <1>3 DEF GetRef
  <2> QED
    BY <2>1, <2>2
<1> QED
  BY <1>2, <1>3

LEMMA Inductive == Spec => []IInv
<1>1. IInv /\ [Next]_vars => IInv'
  <2> SUFFICES ASSUME IInv, [Next]_vars PROVE IInv'
    OBVIOUS
  <2>1. CASE UNCHANGED vars
    BY <2>1 DEF vars, IInv, TypeOK, VariantsOK, StaticsOK, Made, Alive, PartClass, PartConst
  <2>2. ASSUME NEW r \in Roots, NEW class \in {T.class : T \in Exprs}, NEW const \in BOOLEAN,
               Declare(r, class, const)
        PROVE  IInv'
    <3>1. class \in Classes
      BY ExprsAssumption DEF AllTypes
    <3> QED
      BY <2>2, <3>1, DeclareKeeps
  <2>3. ASSUME NEW r \in Roots, EndOfLife(r) PROVE IInv'
    BY <2>3, EndOfLifeKeeps
  <2>4. ASSUME NEW r \in Roots, NEW h \in Handles, NEW T \in Exprs, Create(h, T, r) PROVE IInv'
    BY <2>4, CreateKeeps
  <2>5. ASSUME NEW h \in Handles, DestroyVariant(h) PROVE IInv'
    BY <2>5, DestroyKeeps
  <2>6. ASSUME NEW h \in Handles, NEW value \in Values, Assign(h, value) PROVE IInv'
    BY <2>6, AssignKeeps
  <2>7. ASSUME NEW f \in Fields \cup Statics, NEW i \in Passable, NEW to \in Handles,
               GetValue(f, i, to) \/ GetRef(f, i, to)
        PROVE  IInv'
    BY <2>7, ReadTypes, ReadKeeps
  <2>8. ASSUME NEW f \in Fields \cup Statics, NEW i \in Passable, NEW v \in Passable,
               SetValue(f, v, i)
        PROVE  IInv'
    BY <2>8, SetValueKeeps
  <2> QED
    BY <2>1, <2>2, <2>3, <2>4, <2>5, <2>6, <2>7, <2>8 DEF Next
<1> QED
  BY IInvInit, <1>1, PTL DEF Spec

-----------------------------------------------------------------------------
(* The theorems. *)

(* Storage, Variants and errors keep their types. *)
THEOREM TypeCorrect == Spec => []TypeOK
<1>1. IInv => TypeOK
  BY DEF IInv
<1> QED
  BY <1>1, Inductive, PTL

(* Every step changes live storage by writing one part, and only where     *)
(* that part is not const: through a Variant of a plain value, or in the   *)
(* place of a field.                                                       *)
LEMMA Written ==
  ASSUME IInv, [Next]_vars, NEW r \in Storage, NEW p \in Parts, Changed(r, p)
  PROVE  \/ \E h \in Handles, value \in Values :
              Assign(h, value) /\ r = variant[h].root /\ p = variant[h].part
         \/ \E f \in Fields \cup Statics, v, i \in Passable :
              Sets(f, v, i) /\ r = FieldRoot(f, i) /\ p = FieldPart(f)
<1>1. store \in [Storage -> RootValues]
  BY TypeOKParts DEF IInv
<1>2. store'[r] # store[r] /\ Alive(r) /\ Alive(r)' /\ store'[r].parts[p] # store[r].parts[p]
  BY DEF Changed
<1>3. ASSUME NEW s \in Roots, NEW class, NEW const, Declare(s, class, const) PROVE FALSE
  <2>1. store' = [store EXCEPT ![s] = Root("object", class, const, Untouched)]
        /\ store[s].state = "free"
    BY <1>3 DEF Declare, Free
  <2> QED
    BY <1>1, <1>2, <2>1 DEF Alive, Storage
<1>4. ASSUME NEW s \in Roots, EndOfLife(s) PROVE FALSE
  <2>1. store' = [store EXCEPT ![s] = Nothing("dead")] /\ Nothing("dead").state = "dead"
    BY <1>4, FreshRoots DEF EndOfLife, RootStates
  <2> QED
    BY <1>1, <1>2, <2>1 DEF Alive, Storage
<1>5. ASSUME NEW h, NEW T, NEW s, NEW q, MakeVariant(h, T, s, q) PROVE FALSE
  <2>1. PICK own \in Roots : /\ store[own].state = "free"
                             /\ store' = [store EXCEPT ![own] =
                                  Root("owned", T.class, T.const, Copied(s, q))]
    BY <1>2, <1>5 DEF MakeVariant, Free
  <2> DEFINE new == Root("owned", T.class, T.const, Copied(s, q))
  <2>2. store' = [store EXCEPT ![own] = new]
    BY <2>1
  <2> HIDE DEF new
  <2> QED
    BY <1>1, <1>2, <2>1, <2>2 DEF Alive, Storage
<1>6. ASSUME NEW h \in Handles, DestroyVariant(h) PROVE FALSE
  <2>1. /\ store' = [store EXCEPT ![variant[h].root] = Nothing("dead")]
        /\ Nothing("dead").state = "dead"
    BY <1>2, <1>6, FreshRoots DEF DestroyVariant, RootStates
  <2> QED
    BY <1>1, <1>2, <2>1 DEF Alive
<1>7. ASSUME NEW h \in Handles, NEW value \in Values, Assign(h, value)
      PROVE  r = variant[h].root /\ p = variant[h].part
  <2>1. store' = [store EXCEPT ![variant[h].root].parts[variant[h].part] = value]
    BY <1>7 DEF Assign
  <2>2. store[r].parts \in [Parts -> Values]
    BY <1>1 DEF RootValues
  <2> QED
    BY <1>1, <1>2, <2>1, <2>2
<1>8. ASSUME NEW f \in Fields \cup Statics, NEW v \in Passable, NEW i \in Passable,
             SetValue(f, v, i)
      PROVE  Sets(f, v, i) /\ r = FieldRoot(f, i) /\ p = FieldPart(f)
  <2>1. Sets(f, v, i)
    BY <1>2, <1>8, SetValueSets
  <2> DEFINE value == store[v.root].parts[v.part]
  <2>2. store' = [store EXCEPT ![FieldRoot(f, i)].parts[FieldPart(f)] = value]
    BY <2>1 DEF Sets
  <2>3. store[r].parts \in [Parts -> Values]
    BY <1>1 DEF RootValues
  <2> HIDE DEF value
  <2> QED
    BY <1>1, <1>2, <2>1, <2>2, <2>3
<1>9. ASSUME NEW f \in Fields \cup Statics, NEW i \in Passable, NEW to \in Handles,
             GetValue(f, i, to) \/ GetRef(f, i, to)
      PROVE  FALSE
  BY <1>2, <1>5, <1>9 DEF GetValue, GetRef, Read, Fail
<1>10. ASSUME NEW s \in Roots, NEW h \in Handles, NEW T \in Exprs, Create(h, T, s) PROVE FALSE
  BY <1>5, <1>10 DEF Create
<1>11. CASE UNCHANGED vars
  BY <1>2, <1>11 DEF vars
<1> QED
  BY <1>3, <1>4, <1>6, <1>7, <1>8, <1>9, <1>10, <1>11 DEF Next

(* Const fields, fields of const objects and const values keep what they   *)
(* have, through any sequence of Variants, references and setters.         *)
THEOREM ConstIsKept == Spec => ConstKept
<1> DEFINE Kept == \A r \in Storage, p \in Parts : Changed(r, p) => ~PartConst(r, p)
<1>1. IInv /\ [Next]_vars => [Kept]_vars
  <2> SUFFICES ASSUME IInv, [Next]_vars, NEW r \in Storage, NEW p \in Parts, Changed(r, p)
               PROVE  ~PartConst(r, p)
    OBVIOUS
  <2>1. ASSUME NEW h \in Handles, NEW value \in Values, Assign(h, value),
               r = variant[h].root, p = variant[h].part
        PROVE  ~PartConst(r, p)
    BY <2>1, AssignWhere DEF Made
  <2>2. ASSUME NEW f \in Fields \cup Statics, NEW v \in Passable, NEW i \in Passable,
               Sets(f, v, i), r = FieldRoot(f, i), p = FieldPart(f)
        PROVE  ~PartConst(r, p)
    BY <2>2, FieldWhere DEF Sets
  <2> QED
    BY <2>1, <2>2, Written
<1> QED
  BY <1>1, Inductive, PTL DEF Spec, ConstKept

(* Storage that is not static is written only through a Variant that       *)
(* refers to it without const, as a whole or to just that part.            *)
THEOREM WritesAreConfined == Spec => Confined
<1> DEFINE Granted == \A r \in Roots, p \in Parts :
                        Changed(r, p) => \E h \in Handles : Grants(variant[h], r, p)
<1>1. IInv /\ [Next]_vars => [Granted]_vars
  <2> SUFFICES ASSUME IInv, [Next]_vars, NEW r \in Roots, NEW p \in Parts, Changed(r, p)
               PROVE  \E h \in Handles : Grants(variant[h], r, p)
    OBVIOUS
  <2>1. r \in Storage /\ r \notin Statics
    BY StorageAssumption DEF Storage
  <2>2. ASSUME NEW h \in Handles, NEW value \in Values, Assign(h, value),
               r = variant[h].root, p = variant[h].part
        PROVE  Grants(variant[h], r, p)
    BY <2>2, AssignWhere DEF Grants
  <2>3. ASSUME NEW f \in Fields \cup Statics, NEW v \in Passable, NEW i \in Passable,
               Sets(f, v, i), r = FieldRoot(f, i), p = FieldPart(f)
        PROVE  \E h \in Handles : Grants(variant[h], r, p)
    <3>1. f \in Fields /\ r = i.root
      BY <2>1, <2>3 DEF FieldRoot
    <3>2. Instance(i) = "None"
      BY <2>3, <3>1 DEF Sets
    <3> QED
      BY <3>1, <3>2, InstanceWhere DEF Grants
  <2> QED
    BY <2>1, <2>2, <2>3, Written
<1> QED
  BY <1>1, Inductive, PTL DEF Spec, Confined
=============================================================================
