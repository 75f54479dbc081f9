------------------------- MODULE VariantAccessProofs ------------------------
(***************************************************************************)
(* Theorems about VariantAccess: for every program, every number of        *)
(* Variants and cells, and any order of what is done with them.            *)
(***************************************************************************)
EXTENDS VariantAccess, TLAPS

-----------------------------------------------------------------------------
(* The matchers, which eight files implement, and the rule they follow.    *)

(* A wrapper made for T has a matcher for R that compares T's own id       *)
(* exactly if R is a type that a value held as T is meant to be got as.    *)
THEOREM MatchersImplementIntent ==
  ASSUME NEW T \in AllTypes, NEW R \in AllTypes
  PROVE  CanGetAs(WrapperKind(T), T, R) <=> Intended(T, R)
<1> DEFINE kind == WrapperKind(T)
<1>1. /\ T.class \in Classes /\ T.const \in BOOLEAN /\ T.form \in Forms
      /\ T = [class |-> T.class, const |-> T.const, form |-> T.form]
      /\ R.class \in Classes /\ R.const \in BOOLEAN /\ R.form \in Forms
  BY DEF AllTypes
<1>2. T = Compared(kind, R) <=>
        /\ T.class = R.class
        /\ T.const <=> kind \in ConstKinds
        /\ T.form = IF kind \in ValueKinds THEN "value"
                    ELSE IF kind \in LRefKinds THEN "lref" ELSE R.form
  <2> HIDE DEF kind
  <2>1. (kind \in ConstKinds) \in BOOLEAN
    OBVIOUS
  <2> QED
    BY <1>1, <2>1 DEF Compared
<1>3. kind \in ConstKinds <=> T.const
  BY <1>1 DEF WrapperKind, ConstKinds
<1>4. CASE T.form = "ptr"
  <2>1. kind \in PtrKinds /\ kind \notin ValueKinds \cup LRefKinds \cup RRefKinds
    BY <1>4 DEF WrapperKind, Adopted, PtrKinds, ValueKinds, LRefKinds, RRefKinds
  <2> QED
    BY <1>1, <1>2, <1>3, <1>4, <2>1 DEF CanGetAs, HasMatcher, Intended, SameForm, Adopted
<1>5. CASE T.form = "rref"
  <2>1. kind \in RRefKinds /\ kind \notin ValueKinds \cup LRefKinds \cup PtrKinds
    BY <1>5 DEF WrapperKind, Adopted, PtrKinds, ValueKinds, LRefKinds, RRefKinds
  <2> QED
    BY <1>1, <1>2, <1>3, <1>5, <2>1 DEF CanGetAs, HasMatcher, Intended, SameForm, Adopted
<1>6. CASE T.form = "lref" \/ Adopted(T)
  <2>1. kind \in LRefKinds /\ kind \notin ValueKinds \cup RRefKinds \cup PtrKinds
    BY <1>6 DEF WrapperKind, Adopted, PtrKinds, ValueKinds, LRefKinds, RRefKinds
  <2> QED
    BY <1>1, <1>2, <1>3, <1>6, <2>1 DEF CanGetAs, HasMatcher, Intended, SameForm, Adopted
<1>7. CASE T.form = "value" /\ ~Adopted(T)
  <2>1. kind \in ValueKinds /\ kind \notin LRefKinds \cup RRefKinds \cup PtrKinds
    BY <1>7 DEF WrapperKind, PtrKinds, ValueKinds, LRefKinds, RRefKinds
  <2> QED
    BY <1>1, <1>2, <1>3, <1>7, <2>1 DEF CanGetAs, HasMatcher, Intended, SameForm, Adopted
<1> QED
  BY <1>1, <1>4, <1>5, <1>6, <1>7 DEF Forms

-----------------------------------------------------------------------------
(* The inductive invariant: what a Variant and the last Get refer to.      *)

Contents == [state : {"free", "object", "owned", "dead"},
             class : Classes, const : BOOLEAN, value : Values]
Variants == [kind : Kinds \cup {"none"}, type : AllTypes \cup {Null},
             cell : Cells \cup {Null}, source : Cells \cup {Null}]

(* A wrapper was made for its type by MakeWrapper, and its type was        *)
(* reflected; it owns a cell, or refers to an object that once lived and   *)
(* is not const unless the wrapper is.                                     *)
Wrapped(v) ==
  /\ v.type \in registered /\ v.type \in AllTypes
  /\ v.kind = WrapperKind(v.type)
  /\ v.cell \in Cells /\ v.source \in Cells
  /\ Owns(v) =>
       /\ cell[v.cell].state = "owned"
       /\ cell[v.cell].class = v.type.class
       /\ cell[v.cell].const = v.type.const
  /\ ~Owns(v) =>
       /\ cell[v.cell].state \in {"object", "dead"}
       /\ Alive(v.cell) /\ cell[v.cell].const => v.type.const

VariantsOK ==
  \A h \in Handles : variant[h] \in {NoVariant, VoidVariant} \/ Wrapped(variant[h])

(* What Get handed out is const if the storage is. *)
GotOK ==
  got.cell # Null =>
    /\ got.type \in AllTypes
    /\ cell[got.cell].state # "free"
    /\ Alive(got.cell) /\ cell[got.cell].const => got.type.const

NotLeaked == \A c \in Cells : cell[c].state = "owned" =>
               \E h \in Handles : Owns(variant[h]) /\ variant[h].cell = c
OneWrapper == \A g, h \in Handles : Owns(variant[g]) /\ variant[g].cell = variant[h].cell =>
                variant[g] = variant[h]

IInv == TypeOK /\ VariantsOK /\ GotOK /\ NotLeaked /\ OneWrapper

(* Neither the absent nor the void Variant owns or refers to anything.     *)
LEMMA NoVariantOwnsNothing ==
  /\ NoVariant \in Variants /\ VoidVariant \in Variants
  /\ ~Owns(NoVariant) /\ ~Owns(VoidVariant)
  /\ NoVariant.cell = Null /\ VoidVariant.cell = Null
  /\ \A R : ~HasMatcher(VoidVariant.kind, R)
  BY DEF NoVariant, VoidVariant, Variants, Kinds, Owns, ValueKinds, LRefKinds, RRefKinds, PtrKinds,
         HasMatcher

LEMMA BlankContents ==
  ASSUME NEW s \in {"free", "object", "owned", "dead"}
  PROVE  Blank(s) \in Contents /\ Blank(s).state = s /\ Initial \in Values
<1>1. Initial \in Values /\ (CHOOSE k \in Classes : TRUE) \in Classes
  BY ContentsAssumption DEF Initial
<1> QED
  BY <1>1 DEF Blank, Contents

(* A wrapper adds const exactly if its type does, and has one of the kinds.*)
LEMMA KindOfType ==
  ASSUME NEW T \in AllTypes
  PROVE  /\ WrapperKind(T) \in Kinds \ {"VOID"}
         /\ WrapperKind(T) \in ConstKinds <=> T.const
         /\ WrapperKind(T) \in ValueKinds <=> T.form = "value" /\ T.class \in Copyable
<1>1. T.const \in BOOLEAN /\ T.form \in Forms /\ T.class \in Classes
  BY DEF AllTypes
<1> QED
  BY <1>1 DEF WrapperKind, Adopted, Forms, ConstKinds, Kinds, ValueKinds, LRefKinds, RRefKinds, PtrKinds

LEMMA TypeOKCells ==
  TypeOK <=> /\ cell \in [Cells -> Contents]
             /\ variant \in [Handles -> Variants]
             /\ registered \subseteq AllTypes
             /\ got \in [error : {"None", "IsVoid", "CanNotGet"}, type : AllTypes \cup {Null},
                         cell : Cells \cup {Null}, source : Cells \cup {Null}]
  BY DEF TypeOK, Contents, Variants

LEMMA IInvInit == Init => IInv
<1> SUFFICES ASSUME Init PROVE IInv
  OBVIOUS
<1>1. cell \in [Cells -> Contents] /\ \A c \in Cells : cell[c].state = "free"
  BY BlankContents DEF Init
<1>2. variant \in [Handles -> Variants] /\ \A h \in Handles : variant[h] = NoVariant
  BY NoVariantOwnsNothing DEF Init
<1>3. got.cell = Null /\ TypeOK
  BY <1>1, <1>2, TypeOKCells DEF Init, NotGot
<1> QED
  BY <1>1, <1>2, <1>3, NoVariantOwnsNothing DEF IInv, VariantsOK, GotOK, NotLeaked, OneWrapper

(* Steps that only end or change objects of the program: cells of other    *)
(* kinds stay, and what is alive stays as const as it was.                 *)
LEMMA CellsMayChange ==
  ASSUME IInv, cell' \in [Cells -> Contents], UNCHANGED <<variant, registered, got>>,
         NEW c \in Cells, \A d \in Cells \ {c} : cell'[d] = cell[d],
         \/ cell[c].state = "free" /\ cell'[c].state = "object"
         \/ cell[c].state = "object" /\ cell'[c].state = "dead"
         \/ /\ cell'[c].state = cell[c].state
            /\ cell'[c].class = cell[c].class /\ cell'[c].const = cell[c].const
  PROVE  IInv'
<1>1. TypeOK'
  <2>1. TypeOK
    BY DEF IInv
  <2> QED
    BY <2>1 DEF TypeOK, Contents
<1>2. VariantsOK'
  <2> SUFFICES ASSUME NEW h \in Handles, Wrapped(variant[h]) PROVE Wrapped(variant[h])'
    BY DEF IInv, VariantsOK, NoVariant, VoidVariant
  <2>1. CASE variant[h].cell # c
    BY <2>1 DEF Wrapped, Owns, Alive
  <2>2. CASE variant[h].cell = c
    BY <2>2 DEF Wrapped, Owns, Alive
  <2> QED
    BY <2>1, <2>2
<1>3. GotOK'
  <2>1. got.cell \in Cells \cup {Null}
    BY DEF IInv, TypeOK
  <2>2. CASE got.cell = c
    BY <2>2 DEF IInv, GotOK, Alive
  <2>3. CASE got.cell # c
    BY <2>1, <2>3 DEF IInv, GotOK, Alive
  <2> QED
    BY <2>2, <2>3
<1>4. NotLeaked'
  BY DEF IInv, NotLeaked, Owns
<1>5. OneWrapper'
  BY DEF IInv, OneWrapper, Owns
<1> QED
  BY <1>1, <1>2, <1>3, <1>4, <1>5 DEF IInv

-----------------------------------------------------------------------------
(* The steps. *)

LEMMA ObjectsKeep ==
  ASSUME IInv, NEW c \in Cells,
         \/ \E k \in Classes, const \in BOOLEAN : Declare(c, k, const)
         \/ EndOfLife(c)
         \/ \E v \in Values : SetObject(c, v)
  PROVE  IInv'
<1>1. cell \in [Cells -> Contents]
  BY TypeOKCells DEF IInv
<1>2. ASSUME NEW k \in Classes, NEW const \in BOOLEAN, Declare(c, k, const) PROVE IInv'
  <2> DEFINE object == [state |-> "object", class |-> k, const |-> const, value |-> Initial]
  <2>1. object \in Contents /\ object.state = "object"
    BY BlankContents DEF Contents
  <2>2. /\ cell' = [cell EXCEPT ![c] = object] /\ cell[c].state = "free"
        /\ UNCHANGED <<variant, registered, got>>
    BY <1>2 DEF Declare, Free
  <2> HIDE DEF object
  <2>3. /\ cell' \in [Cells -> Contents] /\ cell'[c] = object
        /\ \A d \in Cells \ {c} : cell'[d] = cell[d]
    BY <1>1, <2>1, <2>2
  <2> QED
    BY <2>1, <2>2, <2>3, CellsMayChange
<1>3. ASSUME EndOfLife(c) PROVE IInv'
  <2>1. /\ cell' = [cell EXCEPT ![c] = Blank("dead")] /\ cell[c].state = "object"
        /\ UNCHANGED <<variant, registered, got>>
    BY <1>3 DEF EndOfLife, Objects
  <2>2. Blank("dead") \in Contents /\ Blank("dead").state = "dead"
    BY BlankContents
  <2>3. /\ cell' \in [Cells -> Contents] /\ cell'[c] = Blank("dead")
        /\ \A d \in Cells \ {c} : cell'[d] = cell[d]
    BY <1>1, <2>1, <2>2
  <2> QED
    BY <2>1, <2>2, <2>3, CellsMayChange
<1>4. ASSUME NEW v \in Values, SetObject(c, v) PROVE IInv'
  <2>1. /\ cell' = [cell EXCEPT ![c].value = v]
        /\ UNCHANGED <<variant, registered, got>>
    BY <1>4 DEF SetObject
  <2>2. /\ cell' \in [Cells -> Contents]
        /\ cell'[c].state = cell[c].state
        /\ cell'[c].class = cell[c].class /\ cell'[c].const = cell[c].const
        /\ \A d \in Cells \ {c} : cell'[d] = cell[d]
    BY <1>1, <2>1 DEF Contents
  <2> QED
    BY <2>1, <2>2, CellsMayChange
<1> QED
  BY <1>2, <1>3, <1>4

LEMMA AssignKeeps ==
  ASSUME IInv, NEW v \in Values, Assign(v)
  PROVE  IInv'
<1> DEFINE c == got.cell
<1>1. cell \in [Cells -> Contents] /\ c \in Cells
  BY TypeOKCells DEF IInv, TypeOK, Assign
<1>2. /\ cell' = [cell EXCEPT ![c].value = v]
      /\ UNCHANGED <<variant, registered, got>>
  BY DEF Assign
<1> HIDE DEF c
<1>3. /\ cell' \in [Cells -> Contents]
      /\ cell'[c].state = cell[c].state
      /\ cell'[c].class = cell[c].class /\ cell'[c].const = cell[c].const
      /\ \A d \in Cells \ {c} : cell'[d] = cell[d]
  BY <1>1, <1>2 DEF Contents
<1> QED
  BY <1>1, <1>2, <1>3, CellsMayChange

(* A new Variant of a type, whatever wrapper MakeWrapper chooses. *)
LEMMA CreateKeeps ==
  ASSUME IInv, NEW h \in Handles, NEW T \in Exprs, NEW c \in Cells, Create(h, T, c)
  PROVE  IInv'
<1> DEFINE kind == WrapperKind(T)
<1>1. /\ cell \in [Cells -> Contents] /\ variant \in [Handles -> Variants]
      /\ variant[h] = NoVariant /\ cell[c].state = "object" /\ cell[c] \in Contents
      /\ T \in AllTypes /\ BindsTo(c, T)
      /\ registered' = registered \cup {T} /\ got' = got
  BY TypeOKCells, ExprsAssumption DEF IInv, Create, Unused, Objects
<1>2. /\ kind \in Kinds \ {"VOID"}
      /\ kind \in ConstKinds <=> T.const
      /\ kind \in ValueKinds <=> T.form = "value" /\ T.class \in Copyable
  BY <1>1, KindOfType
<1>3. T.class \in Classes /\ T.const \in BOOLEAN
  BY <1>1 DEF AllTypes
<1>4. PICK held \in Cells :
        /\ variant' = [variant EXCEPT ![h] = [kind |-> kind, type |-> T, cell |-> held, source |-> c]]
        /\ \/ /\ kind \in ValueKinds /\ cell[held].state = "free"
              /\ cell' = [cell EXCEPT ![held] =
                   [state |-> "owned", class |-> T.class, const |-> T.const, value |-> cell[c].value]]
           \/ kind \notin ValueKinds /\ held = c /\ cell' = cell
  BY DEF Create, MakeWrapper, Wrap, Free
<1> HIDE DEF kind
<1> DEFINE new == [kind |-> kind, type |-> T, cell |-> held, source |-> c]
<1>5. new \in Variants /\ new.cell = held /\ new.type = T /\ new.kind = kind /\ new.source = c
  BY <1>1, <1>2 DEF Variants
<1>6. variant' = [variant EXCEPT ![h] = new]
  BY <1>4
<1> HIDE DEF new
<1>7. /\ variant' \in [Handles -> Variants] /\ variant'[h] = new
      /\ \A g \in Handles \ {h} : variant'[g] = variant[g]
  BY <1>1, <1>5, <1>6
<1>8. /\ cell' \in [Cells -> Contents]
      /\ \A d \in Cells \ {held} : cell'[d] = cell[d]
      /\ kind \in ValueKinds =>
           /\ cell'[held].state = "owned" /\ cell[held].state = "free"
           /\ cell'[held].class = T.class /\ cell'[held].const = T.const
      /\ kind \notin ValueKinds => cell' = cell /\ held = c
  <2> DEFINE copy == [state |-> "owned", class |-> T.class, const |-> T.const, value |-> cell[c].value]
  <2>1. copy \in Contents /\ copy.state = "owned" /\ copy.class = T.class /\ copy.const = T.const
    BY <1>1, <1>3 DEF Contents
  <2>2. kind \in ValueKinds => cell' = [cell EXCEPT ![held] = copy] /\ cell[held].state = "free"
    BY <1>4
  <2>3. kind \notin ValueKinds => cell' = cell /\ held = c
    BY <1>4
  <2> HIDE DEF copy
  <2> QED
    BY <1>1, <2>1, <2>2, <2>3
<1>9. TypeOK'
  <2>1. registered' \subseteq AllTypes
    BY <1>1 DEF IInv, TypeOK
  <2>2. TypeOK
    BY DEF IInv
  <2> QED
    BY <1>1, <1>7, <1>8, <2>1, <2>2 DEF TypeOK, Contents, Variants
<1>10. \A g \in Handles : Wrapped(variant[g]) => variant[g].cell # held \/ kind \notin ValueKinds
  BY <1>8 DEF Wrapped, Owns
<1>11. VariantsOK'
  <2>1. ASSUME NEW g \in Handles \ {h}, Wrapped(variant[g]) PROVE Wrapped(variant[g])'
    BY <1>1, <1>7, <1>8, <1>10, <2>1 DEF Wrapped, Owns, Alive
  <2>2. Wrapped(new)'
    <3>1. CASE kind \in ValueKinds
      BY <1>1, <1>5, <1>8, <3>1 DEF Wrapped, Owns, kind
    <3>2. CASE kind \notin ValueKinds
      <4>1. cell[c].const => T.const
        BY <1>1, <1>2, <3>2 DEF BindsTo
      <4> QED
        BY <1>1, <1>5, <1>8, <3>2, <4>1 DEF Wrapped, Owns, kind
    <3> QED
      BY <3>1, <3>2
  <2>3. Wrapped(variant[h])'
    <3>1. variant'[h] = new /\ new' = new
      BY <1>7 DEF new, kind
    <3> QED
      BY <2>2, <3>1 DEF Wrapped, Owns, Alive
  <2> QED
    BY <1>7, <2>1, <2>3 DEF IInv, VariantsOK, NoVariant, VoidVariant
<1>12. GotOK'
  <2>1. got.cell \in Cells \cup {Null}
    BY DEF IInv, TypeOK
  <2> QED
    BY <1>1, <1>8, <2>1 DEF IInv, GotOK, Alive
<1>13. NotLeaked'
  <2> SUFFICES ASSUME NEW d \in Cells, cell'[d].state = "owned"
               PROVE  \E g \in Handles : Owns(variant'[g]) /\ variant'[g].cell = d
    BY DEF NotLeaked, Owns
  <2>1. CASE d = held /\ kind \in ValueKinds
    BY <1>5, <1>7, <2>1 DEF Owns
  <2>2. CASE d # held \/ kind \notin ValueKinds
    <3>1. PICK g \in Handles : Owns(variant[g]) /\ variant[g].cell = d
      BY <1>8, <2>2 DEF IInv, NotLeaked
    <3>2. g # h
      BY <1>1, <3>1, NoVariantOwnsNothing
    <3> QED
      BY <1>7, <3>1, <3>2
  <2> QED
    BY <2>1, <2>2
<1>14. OneWrapper'
  <2> SUFFICES ASSUME NEW f \in Handles, NEW g \in Handles,
                      Owns(variant'[f]), variant'[f].cell = variant'[g].cell
               PROVE  variant'[f] = variant'[g]
    BY DEF OneWrapper, Owns
  <2>1. CASE f = h /\ g = h
    BY <2>1
  <2>2. CASE f # h /\ g # h
    BY <1>7, <2>2 DEF IInv, OneWrapper
  <2>3. CASE f = h /\ g # h
    <3>1. kind \in ValueKinds /\ variant[g].cell = held
      BY <1>5, <1>7, <2>3 DEF Owns
    <3>2. ~Wrapped(variant[g])
      BY <1>10, <3>1
    <3>3. variant[g].cell = Null
      BY <3>2, NoVariantOwnsNothing DEF IInv, VariantsOK
    <3> QED
      BY <3>1, <3>3, NullAssumption
  <2>4. CASE f # h /\ g = h
    <3>1. Owns(variant[f]) /\ variant[f].cell = held
      BY <1>5, <1>7, <2>4
    <3>2. Wrapped(variant[f])
      BY <3>1, NoVariantOwnsNothing DEF IInv, VariantsOK
    <3>3. kind \notin ValueKinds /\ cell[held].state = "owned"
      BY <1>10, <3>1, <3>2 DEF Wrapped
    <3> QED
      BY <1>1, <1>8, <3>3
  <2> QED
    BY <2>1, <2>2, <2>3, <2>4
<1> QED
  BY <1>9, <1>11, <1>12, <1>13, <1>14 DEF IInv

LEMMA CreateVoidKeeps ==
  ASSUME IInv, NEW h \in Handles, CreateVoid(h)
  PROVE  IInv'
<1>1. /\ variant \in [Handles -> Variants] /\ variant[h] = NoVariant
      /\ variant' = [variant EXCEPT ![h] = VoidVariant]
      /\ UNCHANGED <<cell, registered, got>>
  BY TypeOKCells DEF IInv, CreateVoid, Unused
<1>2. /\ variant' \in [Handles -> Variants] /\ variant'[h] = VoidVariant
      /\ \A g \in Handles \ {h} : variant'[g] = variant[g]
  BY <1>1, NoVariantOwnsNothing
<1>3. TypeOK'
  BY <1>1, <1>2 DEF IInv, TypeOK, Variants
<1>4. VariantsOK' /\ GotOK'
  BY <1>1, <1>2 DEF IInv, VariantsOK, GotOK, Wrapped, Owns, Alive, NoVariant, VoidVariant
<1>5. NotLeaked'
  BY <1>1, <1>2, NoVariantOwnsNothing DEF IInv, NotLeaked, Owns
<1>6. OneWrapper'
  <2>1. ASSUME NEW g \in Handles, Owns(variant'[g]) PROVE g # h /\ variant'[g].cell \in Cells
    BY <1>2, <2>1, NoVariantOwnsNothing DEF IInv, VariantsOK, Wrapped
  <2> QED
    BY <1>2, <2>1, NoVariantOwnsNothing, NullAssumption DEF IInv, OneWrapper, Owns
<1> QED
  BY <1>3, <1>4, <1>5, <1>6 DEF IInv

LEMMA CopyKeeps ==
  ASSUME IInv, NEW h \in Handles, NEW to \in Handles, CopyVariant(h, to)
  PROVE  IInv'
<1>1. /\ variant \in [Handles -> Variants] /\ variant[to] = NoVariant /\ h # to
      /\ variant' = [variant EXCEPT ![to] = variant[h]]
      /\ UNCHANGED <<cell, registered, got>>
  BY TypeOKCells DEF IInv, CopyVariant, Unused
<1>2. /\ variant' \in [Handles -> Variants] /\ variant'[to] = variant[h]
      /\ \A g \in Handles \ {to} : variant'[g] = variant[g]
  BY <1>1
<1>3. TypeOK'
  BY <1>1, <1>2 DEF IInv, TypeOK, Variants
<1>4. VariantsOK' /\ GotOK'
  BY <1>1, <1>2 DEF IInv, VariantsOK, GotOK, Wrapped, Owns, Alive, NoVariant, VoidVariant
<1>5. NotLeaked'
  BY <1>1, <1>2, NoVariantOwnsNothing DEF IInv, NotLeaked, Owns
<1>6. OneWrapper'
  BY <1>1, <1>2 DEF IInv, OneWrapper, Owns
<1> QED
  BY <1>3, <1>4, <1>5, <1>6 DEF IInv

(* The last Variant that shares a wrapper ends the value; any other leaves *)
(* it as it is.                                                            *)
LEMMA DestroyKeeps ==
  ASSUME IInv, NEW h \in Handles, DestroyVariant(h)
  PROVE  IInv'
<1> DEFINE c == variant[h].cell
           last == Owns(variant[h]) /\ \A g \in Handles \ {h} : variant[g].cell # c
<1>1. /\ variant \in [Handles -> Variants] /\ cell \in [Cells -> Contents]
      /\ variant[h] # NoVariant
      /\ variant' = [variant EXCEPT ![h] = NoVariant]
      /\ cell' = IF last THEN [cell EXCEPT ![c] = Blank("dead")] ELSE cell
      /\ UNCHANGED <<registered, got>>
  BY TypeOKCells DEF IInv, DestroyVariant, Unused
<1>2. /\ variant' \in [Handles -> Variants] /\ variant'[h] = NoVariant
      /\ \A g \in Handles \ {h} : variant'[g] = variant[g]
  BY <1>1, NoVariantOwnsNothing
<1>3. last => c \in Cells /\ cell[c].state = "owned" /\ Wrapped(variant[h])
  BY NoVariantOwnsNothing DEF IInv, VariantsOK, Wrapped
<1>4. /\ cell' \in [Cells -> Contents]
      /\ \A d \in Cells : (d # c \/ ~last) => cell'[d] = cell[d]
      /\ last => cell'[c].state = "dead"
  BY <1>1, <1>3, BlankContents
<1> HIDE DEF last
<1>5. TypeOK'
  BY <1>1, <1>2, <1>4 DEF IInv, TypeOK, Variants, Contents
<1>6. VariantsOK'
  <2>1. ASSUME NEW g \in Handles \ {h}, Wrapped(variant[g]) PROVE Wrapped(variant[g])'
    <3>1. last => variant[g].cell # c
      BY DEF last
    <3>2. cell'[variant[g].cell] = cell[variant[g].cell]
      BY <1>4, <2>1, <3>1 DEF Wrapped
    <3> QED
      BY <1>1, <1>2, <2>1, <3>2 DEF Wrapped, Owns, Alive
  <2> QED
    BY <1>2, <2>1 DEF IInv, VariantsOK, NoVariant, VoidVariant
<1>7. GotOK'
  <2>1. got.cell \in Cells \cup {Null}
    BY DEF IInv, TypeOK
  <2> QED
    BY <1>1, <1>4, <2>1 DEF IInv, GotOK, Alive
<1>8. NotLeaked'
  <2> SUFFICES ASSUME NEW d \in Cells, cell'[d].state = "owned"
               PROVE  \E g \in Handles : Owns(variant'[g]) /\ variant'[g].cell = d
    BY DEF NotLeaked, Owns
  <2>1. cell[d].state = "owned" /\ (d # c \/ ~last)
    BY <1>4
  <2>2. PICK g \in Handles : Owns(variant[g]) /\ variant[g].cell = d
    BY <2>1 DEF IInv, NotLeaked
  <2>3. CASE g # h
    BY <1>2, <2>2, <2>3
  <2>4. CASE g = h
    <3>1. PICK f \in Handles \ {h} : variant[f].cell = c
      BY <2>1, <2>2, <2>4 DEF last
    <3>2. variant[f] = variant[h]
      BY <2>2, <2>4, <3>1 DEF IInv, OneWrapper
    <3> QED
      BY <1>2, <2>2, <2>4, <3>1, <3>2
  <2> QED
    BY <2>3, <2>4
<1>9. OneWrapper'
  <2>1. ASSUME NEW g \in Handles, Owns(variant'[g]) PROVE g # h /\ variant'[g].cell \in Cells
    BY <1>2, <2>1, NoVariantOwnsNothing DEF IInv, VariantsOK, Wrapped
  <2> QED
    BY <1>2, <2>1, NoVariantOwnsNothing, NullAssumption DEF IInv, OneWrapper, Owns
<1> QED
  BY <1>5, <1>6, <1>7, <1>8, <1>9 DEF IInv

(* Asking a Variant registers types, and changes nothing but what was got. *)
LEMMA AskKeeps ==
  ASSUME IInv, UNCHANGED <<cell, variant>>,
         registered \subseteq registered', registered' \subseteq AllTypes,
         \/ got' = got
         \/ \E e \in {"IsVoid", "CanNotGet"}, R \in AllTypes : got' = NotGot(e, R)
         \/ \E h \in Handles, R \in AllTypes :
              /\ Wrapped(variant[h]) /\ HasMatcher(variant[h].kind, R)
              /\ got' = [error |-> "None", type |-> R,
                         cell |-> variant[h].cell, source |-> variant[h].source]
  PROVE  IInv'
<1>1. CASE got' = got
  BY <1>1 DEF IInv, TypeOK, VariantsOK, Wrapped, Owns, Alive, NoVariant, VoidVariant, GotOK, NotLeaked, OneWrapper
<1>2. VariantsOK' /\ NotLeaked' /\ OneWrapper'
  BY DEF IInv, VariantsOK, Wrapped, Owns, Alive, NoVariant, VoidVariant, NotLeaked, OneWrapper
<1>3. ASSUME NEW e \in {"IsVoid", "CanNotGet"}, NEW R \in AllTypes, got' = NotGot(e, R) PROVE IInv'
  <2>1. TypeOK' /\ GotOK'
    BY <1>3 DEF IInv, TypeOK, NotGot, GotOK
  <2> QED
    BY <1>2, <2>1 DEF IInv
<1>4. ASSUME NEW h \in Handles, NEW R \in AllTypes,
             Wrapped(variant[h]), HasMatcher(variant[h].kind, R),
             got' = [error |-> "None", type |-> R,
                     cell |-> variant[h].cell, source |-> variant[h].source]
      PROVE  IInv'
  <2>1. TypeOK'
    BY <1>4 DEF IInv, TypeOK, Wrapped
  <2>2. variant[h].type \in AllTypes /\ (variant[h].kind \in ConstKinds <=> variant[h].type.const)
    BY <1>4, KindOfType DEF Wrapped
  <2>3. variant[h].type.const => R.const
    BY <1>4, <2>2 DEF HasMatcher
  <2>4. GotOK'
    BY <1>4, <2>3 DEF Wrapped, GotOK, Alive
  <2> QED
    BY <1>2, <2>1, <2>4 DEF IInv
<1> QED
  BY <1>1, <1>3, <1>4

(* The type a matcher compares with is a type of the program or near one.  *)
LEMMA ComparedIsAType ==
  ASSUME NEW R \in AllTypes, NEW kind, HasMatcher(kind, R)
  PROVE  Compared(kind, R) \in AllTypes
<1>1. /\ R.class \in Classes /\ R.form \in Forms
      /\ "value" \in Forms /\ "lref" \in Forms
  BY DEF AllTypes, Forms
<1> DEFINE const == kind \in ConstKinds
           form  == IF kind \in ValueKinds THEN "value" ELSE IF kind \in LRefKinds THEN "lref" ELSE R.form
<1>2. const \in BOOLEAN /\ form \in Forms
  BY <1>1
<1>3. Compared(kind, R) = [class |-> R.class, const |-> const, form |-> form]
  BY DEF Compared
<1> HIDE DEF const, form
<1> QED
  BY <1>1, <1>2, <1>3 DEF AllTypes

(* CanGet and Get, whatever they answer. *)
LEMMA GetKeeps ==
  ASSUME IInv, NEW h \in Handles, NEW R \in Exprs,
         CanGet(h, R) \/ GetSucceeds(h, R) \/ GetFails(h, R)
  PROVE  IInv'
<1> DEFINE v == variant[h]
<1>1. R \in AllTypes /\ registered \subseteq AllTypes
  BY ExprsAssumption DEF IInv, TypeOK
<1>2. HasMatcher(v.kind, R) => Compared(v.kind, R) \in AllTypes
  BY <1>1, ComparedIsAType
<1>3. /\ Matches(v, R) => registered \subseteq registered' /\ registered' \subseteq AllTypes
      /\ MatchesNot(v, R) => registered \subseteq registered' /\ registered' \subseteq AllTypes
  BY <1>1, <1>2 DEF Matches, MatchesNot, Equals, EqualsNot
<1>4. CASE CanGet(h, R)
  BY <1>3, <1>4, AskKeeps DEF CanGet
<1>5. CASE GetSucceeds(h, R)
  <2>1. HasMatcher(v.kind, R) /\ v # NoVariant /\ v # VoidVariant
    BY <1>5, NoVariantOwnsNothing DEF GetSucceeds, Matches, Unused
  <2>2. Wrapped(v)
    BY <2>1 DEF IInv, VariantsOK
  <2> QED
    BY <1>1, <1>3, <1>5, <2>1, <2>2, AskKeeps DEF GetSucceeds
<1>6. CASE GetFails(h, R)
  <2>1. \E e \in {"IsVoid", "CanNotGet"} : got' = NotGot(e, R)
    BY <1>6 DEF GetFails
  <2> QED
    BY <1>1, <1>3, <1>6, <2>1, AskKeeps DEF GetFails
<1> QED
  BY <1>4, <1>5, <1>6

LEMMA IInvStep == IInv /\ [Next]_vars => IInv'
<1> SUFFICES ASSUME IInv, [Next]_vars PROVE IInv'
  OBVIOUS
<1>1. CASE UNCHANGED vars
  <2>1. got' = got /\ UNCHANGED <<cell, variant>> /\ registered' = registered
    BY <1>1 DEF vars
  <2> QED
    BY <2>1, AskKeeps DEF IInv, TypeOK
<1>2. ASSUME NEW h \in Handles,
             \/ CreateVoid(h)
             \/ \E T \in Exprs, c \in Cells : Create(h, T, c)
             \/ \E to \in Handles : CopyVariant(h, to)
             \/ DestroyVariant(h)
             \/ \E R \in Exprs : CanGet(h, R) \/ GetSucceeds(h, R) \/ GetFails(h, R)
      PROVE  IInv'
  BY <1>2, CreateVoidKeeps, CreateKeeps, CopyKeeps, DestroyKeeps, GetKeeps
<1> QED
  BY <1>1, <1>2, ObjectsKeep, AssignKeeps DEF Next

THEOREM Inductive == Spec => []IInv
<1>1. Init => IInv
  BY IInvInit
<1>2. IInv /\ [Next]_vars => IInv'
  BY IInvStep
<1> QED
  BY <1>1, <1>2, PTL DEF Spec

-----------------------------------------------------------------------------
(* The theorems. *)

(* Variants, storage and what was got keep their types. *)
THEOREM TypeCorrect == Spec => []TypeOK
<1>1. IInv => TypeOK
  BY DEF IInv
<1> QED
  BY <1>1, Inductive, PTL

(* The value a wrapper owns lives exactly as long as some Variant shares   *)
(* the wrapper, for any number of Variants, copies and orders of ending.   *)
THEOREM ValuesLiveWithVariants == Spec => []OwnedStorage
<1>1. IInv => OwnedStorage
  <2> SUFFICES ASSUME IInv PROVE OwnedStorage
    OBVIOUS
  <2>1. \A h \in Handles : Owns(variant[h]) => Wrapped(variant[h])
    BY NoVariantOwnsNothing DEF IInv, VariantsOK
  <2> QED
    BY <2>1 DEF IInv, NotLeaked, OneWrapper, OwnedStorage, Wrapped
<1> QED
  BY <1>1, Inductive, PTL

(* Const survives being wrapped, copied, got and written through. *)
THEOREM ConstIsKept == Spec => ConstKept
<1>1. IInv /\ [Next]_vars =>
        [\A c \in Cells : cell[c].const /\ Alive(c) /\ Alive(c)' => cell'[c].value = cell[c].value]_vars
  <2> SUFFICES ASSUME IInv, Next, NEW c \in Cells, cell[c].const, Alive(c), Alive(c)'
               PROVE  cell'[c].value = cell[c].value
    OBVIOUS
  <2>1. cell \in [Cells -> Contents] /\ cell[c].state \in {"object", "owned"}
    BY TypeOKCells DEF IInv, Alive
  <2>2. cell'[c].state \in {"object", "owned"}
    BY DEF Alive
  <2>3. CASE cell' = cell
    BY <2>3
  <2>4. ASSUME NEW d \in Cells, NEW k \in Classes, NEW const \in BOOLEAN, Declare(d, k, const)
        PROVE  cell'[c].value = cell[c].value
    BY <2>1, <2>4 DEF Declare, Free
  <2>5. ASSUME NEW d \in Cells, EndOfLife(d)
        PROVE  cell'[c].value = cell[c].value
    BY <2>1, <2>2, <2>5, BlankContents DEF EndOfLife
  <2>6. ASSUME NEW d \in Cells, NEW v \in Values, SetObject(d, v)
        PROVE  cell'[c].value = cell[c].value
    BY <2>1, <2>6 DEF SetObject
  <2>7. ASSUME NEW v \in Values, Assign(v)
        PROVE  cell'[c].value = cell[c].value
    <3>1. got.cell # c
      BY <2>7, NullAssumption DEF Assign, IInv, GotOK
    <3> QED
      BY <2>1, <2>7, <3>1 DEF Assign
  <2>8. ASSUME NEW h \in Handles, NEW T \in Exprs, NEW d \in Cells, Create(h, T, d)
        PROVE  cell'[c].value = cell[c].value
    BY <2>1, <2>8 DEF Create, MakeWrapper, Free
  <2>9. ASSUME NEW h \in Handles, DestroyVariant(h)
        PROVE  cell'[c].value = cell[c].value
    BY <2>1, <2>2, <2>9, BlankContents DEF DestroyVariant
  <2>10. ASSUME NEW h \in Handles,
                \/ CreateVoid(h) \/ \E to \in Handles : CopyVariant(h, to)
                \/ \E R \in Exprs : CanGet(h, R) \/ GetSucceeds(h, R) \/ GetFails(h, R)
         PROVE  cell' = cell
    BY <2>10 DEF CreateVoid, CopyVariant, CanGet, GetSucceeds, GetFails
  <2> QED
    BY <2>3, <2>4, <2>5, <2>6, <2>7, <2>8, <2>9, <2>10 DEF Next
<1> QED
  BY <1>1, Inductive, PTL DEF Spec, ConstKept

(* What a Variant can be got as is decided by the type it was created      *)
(* with, whatever else was registered, failed or copied in the meantime.   *)
THEOREM CreatedTypeDecides == Spec => GetDecides
<1>1. IInv =>
        \A h \in Handles, R \in Exprs :
          /\ GetSucceeds(h, R) => Intended(variant[h].type, R)
          /\ GetFails(h, R) => variant[h].kind = "VOID" \/ ~Intended(variant[h].type, R)
  <2> SUFFICES ASSUME IInv, NEW h \in Handles, NEW R \in Exprs
               PROVE  /\ GetSucceeds(h, R) => Intended(variant[h].type, R)
                      /\ GetFails(h, R) => variant[h].kind = "VOID" \/ ~Intended(variant[h].type, R)
    OBVIOUS
  <2> DEFINE v == variant[h]
  <2>1. R \in AllTypes
    BY ExprsAssumption
  <2>2. v = NoVariant \/ v = VoidVariant \/ Wrapped(v)
    BY DEF IInv, VariantsOK
  <2>3. Wrapped(v) => (CanGetAs(v.kind, v.type, R) <=> Intended(v.type, R))
    BY <2>1, MatchersImplementIntent DEF Wrapped
  <2>4. ASSUME GetSucceeds(h, R) PROVE Intended(v.type, R)
    <3>1. Wrapped(v)
      BY <2>2, <2>4, NoVariantOwnsNothing DEF GetSucceeds, Unused, Matches
    <3>2. CanGetAs(v.kind, v.type, R)
      BY <2>4 DEF GetSucceeds, Matches, Equals, CanGetAs
    <3> QED
      BY <2>3, <3>1, <3>2
  <2>5. ASSUME GetFails(h, R), v.kind # "VOID" PROVE ~Intended(v.type, R)
    <3>1. Wrapped(v)
      BY <2>2, <2>5 DEF GetFails, Unused, VoidVariant
    <3>2. ~CanGetAs(v.kind, v.type, R)
      BY <2>5, <3>1 DEF GetFails, MatchesNot, EqualsNot, CanGetAs, Wrapped
    <3> QED
      BY <2>3, <3>1, <3>2
  <2> QED
    BY <2>4, <2>5
<1>2. IInv /\ [Next]_vars =>
        [\A h \in Handles, R \in Exprs :
           /\ GetSucceeds(h, R) => Intended(variant[h].type, R)
           /\ GetFails(h, R) => variant[h].kind = "VOID" \/ ~Intended(variant[h].type, R)]_vars
  BY <1>1
<1> QED
  BY <1>2, Inductive, PTL DEF Spec, GetDecides

-----------------------------------------------------------------------------
(* The refinement: Variants are shared values. *)

SharedVars == <<SharedStore, SharedRefs, SharedAnswer>>

(* A change of one cell, or of one Variant, is one in what it stands for.  *)
LEMMA StoreChanges ==
  ASSUME NEW c \in Cells, \A d \in Cells \ {c} : cell'[d] = cell[d]
  PROVE  SharedStore' = [SharedStore EXCEPT ![c] = SharedCell(c)']
<1>1. ASSUME NEW d \in Cells \ {c} PROVE SharedCell(d)' = SharedCell(d)
  BY DEF SharedCell, Alive
<1> HIDE DEF SharedCell
<1> QED
  BY <1>1 DEF SharedStore

LEMMA RefChanges ==
  ASSUME NEW h \in Handles, \A g \in Handles \ {h} : variant'[g] = variant[g]
  PROVE  SharedRefs' = [SharedRefs EXCEPT ![h] = SharedRef(variant'[h])]
  BY DEF SharedRefs

LEMMA Unchanged ==
  /\ cell' = cell => SharedStore' = SharedStore
  /\ variant' = variant => SharedRefs' = SharedRefs
  /\ got' = got => SharedAnswer' = SharedAnswer
  BY DEF SharedStore, SharedCell, Alive, SharedRefs, SharedAnswer

LEMMA SharedInit == Init => Shared!Init
<1> SUFFICES ASSUME Init PROVE Shared!Init
  OBVIOUS
<1>1. ASSUME NEW c \in Cells PROVE SharedCell(c) = Shared!Unused
  <2>1. cell[c].state = "free"
    BY BlankContents DEF Init
  <2> QED
    BY <2>1 DEF SharedCell, Alive, Shared!Unused
<1>2. ASSUME NEW h \in Handles PROVE SharedRef(variant[h]) = Shared!Nothing
  BY <1>2 DEF Init, SharedRef, NoVariant, Holding, ValueKinds, Shared!Nothing
<1>3. SharedAnswer = Shared!Refusal("None", Null)
  BY DEF Init, SharedAnswer, NotGot, Shared!Refusal
<1> QED
  BY <1>1, <1>2, <1>3 DEF Shared!Init, SharedStore, SharedRefs

(* What a live, an unused and a dead cell stand for. *)
LEMMA SharedCells ==
  ASSUME IInv, NEW c \in Cells
  PROVE  /\ SharedStore[c] = SharedCell(c) /\ SharedCell(c).state = cell[c].state
         /\ Alive(c) => SharedCell(c) =
              [state |-> cell[c].state, const |-> cell[c].const, value |-> cell[c].value]
         /\ cell[c].state = "free" => SharedCell(c) = Shared!Unused
         /\ cell[c].state = "dead" => SharedCell(c) = Shared!Gone
         /\ c \in Shared!Objects <=> cell[c].state = "object"
         /\ Shared!Live(c) <=> Alive(c)
<1>1. SharedStore[c] = SharedCell(c) /\ SharedCell(c).state = cell[c].state
  BY DEF SharedStore, SharedCell
<1>2. c \in Shared!Objects <=> cell[c].state = "object"
  BY <1>1 DEF Shared!Objects
<1>3. Shared!Live(c) <=> Alive(c)
  BY <1>1 DEF Shared!Live, Alive
<1> QED
  BY <1>1, <1>2, <1>3 DEF SharedCell, Alive, Shared!Unused, Shared!Gone

(* A Variant stands for a handle that holds nothing exactly if there is none. *)
LEMMA SharedHandles ==
  ASSUME IInv, NEW h \in Handles
  PROVE  /\ SharedRefs[h] = SharedRef(variant[h])
         /\ SharedRef(NoVariant) = Shared!Nothing /\ SharedRef(VoidVariant) = Shared!HoldsVoid
         /\ h \in Shared!Empty <=> variant[h] = NoVariant
         /\ SharedRef(variant[h]).holds = "value" <=> Owns(variant[h])
         /\ SharedRef(variant[h]).holds = "void" <=> variant[h] = VoidVariant
<1>1. /\ SharedRefs[h] = SharedRef(variant[h])
      /\ SharedRef(NoVariant) = Shared!Nothing /\ SharedRef(VoidVariant) = Shared!HoldsVoid
  BY DEF SharedRefs, SharedRef, Holding, ValueKinds, NoVariant, VoidVariant,
         Shared!Nothing, Shared!HoldsVoid
<1>2. ASSUME Wrapped(variant[h])
      PROVE  /\ SharedRef(variant[h]).holds \in {"value", "reference"}
             /\ SharedRef(variant[h]).holds = "value" <=> Owns(variant[h])
             /\ variant[h] # NoVariant /\ variant[h] # VoidVariant
  <2>1. variant[h].kind \in Kinds \ {"VOID"} /\ variant[h].kind # "none"
    BY <1>2, KindOfType DEF Wrapped, Kinds, ValueKinds, LRefKinds, RRefKinds, PtrKinds
  <2> QED
    BY <2>1 DEF SharedRef, Holding, Owns, NoVariant, VoidVariant
<1>3. Shared!Nothing.holds = "nothing" /\ Shared!HoldsVoid.holds = "void" /\ NoVariant # VoidVariant
  BY DEF Shared!Nothing, Shared!HoldsVoid, NoVariant, VoidVariant
<1>4. CASE Wrapped(variant[h])
  BY <1>1, <1>2, <1>3, <1>4 DEF Shared!Empty
<1>5. CASE variant[h] \in {NoVariant, VoidVariant}
  BY <1>1, <1>3, <1>5, NoVariantOwnsNothing DEF Shared!Empty
<1> QED
  BY <1>4, <1>5 DEF IInv, VariantsOK

(* Writing a value to a live cell. *)
LEMMA Written ==
  ASSUME IInv, NEW c \in Cells, NEW v \in Values, Alive(c), cell' = [cell EXCEPT ![c].value = v]
  PROVE  SharedStore' = [SharedStore EXCEPT ![c].value = v]
<1>1. cell \in [Cells -> Contents]
  BY TypeOKCells DEF IInv
<1>2. /\ cell'[c].state = cell[c].state /\ cell'[c].const = cell[c].const /\ cell'[c].value = v
      /\ \A d \in Cells \ {c} : cell'[d] = cell[d]
  BY <1>1 DEF Contents
<1>3. SharedCell(c)' = [state |-> cell[c].state, const |-> cell[c].const, value |-> v]
  BY <1>2 DEF SharedCell, Alive
<1>4. SharedStore[c] = [state |-> cell[c].state, const |-> cell[c].const, value |-> cell[c].value]
  BY SharedCells
<1>5. [SharedStore[c] EXCEPT !.value = v] = SharedCell(c)'
  BY <1>3, <1>4
<1>6. SharedStore' = [SharedStore EXCEPT ![c] = SharedCell(c)']
  BY <1>2, StoreChanges
<1> QED
  BY <1>5, <1>6

(* A new wrapper is a new hold on a cell. *)
LEMMA Wrapping ==
  ASSUME NEW h \in Handles, NEW T \in AllTypes, NEW c, NEW held, Wrap(h, T, c, held),
         variant \in [Handles -> Variants], WrapperKind(T) \notin {"none", "VOID"}
  PROVE  SharedRefs' = [SharedRefs EXCEPT ![h] =
           [holds |-> IF WrapperKind(T) \in ValueKinds THEN "value" ELSE "reference",
            type |-> T, to |-> held]]
<1> DEFINE new == [kind |-> WrapperKind(T), type |-> T, cell |-> held, source |-> c]
<1>1. variant'[h] = new /\ \A g \in Handles \ {h} : variant'[g] = variant[g]
  BY DEF Wrap
<1>2. SharedRef(new) = [holds |-> IF WrapperKind(T) \in ValueKinds THEN "value" ELSE "reference",
                        type |-> T, to |-> held]
  BY DEF SharedRef, Holding
<1> QED
  BY <1>1, <1>2, RefChanges

LEMMA SharedObjects ==
  ASSUME IInv, NEW c \in Cells,
         \/ \E k \in Classes, const \in BOOLEAN : Declare(c, k, const)
         \/ EndOfLife(c)
         \/ \E v \in Values : SetObject(c, v)
  PROVE  Shared!Next
<1>1. cell \in [Cells -> Contents]
  BY TypeOKCells DEF IInv
<1>2. ASSUME NEW k \in Classes, NEW const \in BOOLEAN, Declare(c, k, const) PROVE Shared!Begin(c)
  <2> DEFINE object == [state |-> "object", class |-> k, const |-> const, value |-> Initial]
  <2>1. /\ cell[c].state = "free" /\ cell' = [cell EXCEPT ![c] = object]
        /\ UNCHANGED <<variant, got>>
    BY <1>2 DEF Declare, Free
  <2>2. cell'[c] = object /\ \A d \in Cells \ {c} : cell'[d] = cell[d]
    BY <1>1, <2>1
  <2>3. SharedCell(c)' = [state |-> "object", const |-> const, value |-> Initial]
    BY <2>2 DEF SharedCell, Alive
  <2>4. /\ SharedStore[c] = Shared!Unused
        /\ SharedStore' = [SharedStore EXCEPT ![c] =
             [state |-> "object", const |-> const, value |-> Initial]]
        /\ UNCHANGED <<SharedRefs, SharedAnswer>>
    BY <2>1, <2>2, <2>3, SharedCells, StoreChanges, Unchanged
  <2> QED
    BY <2>4, BlankContents DEF Shared!Begin
<1>3. ASSUME EndOfLife(c) PROVE c \in Shared!Objects /\ Shared!End(c)
  <2>1. /\ cell[c].state = "object" /\ cell' = [cell EXCEPT ![c] = Blank("dead")]
        /\ UNCHANGED <<variant, got>>
    BY <1>3 DEF EndOfLife, Objects
  <2>2. cell'[c].state = "dead" /\ \A d \in Cells \ {c} : cell'[d] = cell[d]
    BY <1>1, <2>1, BlankContents
  <2>3. SharedCell(c)' = Shared!Gone
    BY <2>2 DEF SharedCell, Alive, Shared!Gone
  <2> QED
    BY <2>1, <2>2, <2>3, SharedCells, StoreChanges, Unchanged DEF Shared!End
<1>4. ASSUME NEW v \in Values, SetObject(c, v) PROVE c \in Shared!Objects /\ Shared!WriteObject(c)
  <2>1. /\ cell[c].state = "object" /\ ~cell[c].const /\ cell' = [cell EXCEPT ![c].value = v]
        /\ UNCHANGED <<variant, got>>
    BY <1>4 DEF SetObject, Objects
  <2>2. Alive(c) /\ SharedStore[c] =
          [state |-> cell[c].state, const |-> cell[c].const, value |-> cell[c].value]
    BY <2>1, SharedCells DEF Alive
  <2>3. SharedStore' = [SharedStore EXCEPT ![c].value = v]
    BY <1>1, <2>1, <2>2, Written
  <2>4. ~SharedStore[c].const /\ c \in Shared!Objects
    BY <2>1, <2>2, SharedCells
  <2> QED
    BY <2>1, <2>3, <2>4, Unchanged DEF Shared!WriteObject
<1> QED
  BY <1>2, <1>3, <1>4 DEF Shared!Next

LEMMA SharedAssign ==
  ASSUME IInv, NEW v \in Values, Assign(v)
  PROVE  Shared!Next
<1> DEFINE c == got.cell
<1>1. /\ cell \in [Cells -> Contents] /\ c \in Cells /\ c # Null /\ Alive(c)
      /\ ~got.type.const /\ got.type \in AllTypes
      /\ cell' = [cell EXCEPT ![c].value = v] /\ UNCHANGED <<variant, got>>
  BY TypeOKCells DEF IInv, TypeOK, GotOK, Assign
<1>2. ~cell[c].const
  BY <1>1 DEF IInv, GotOK
<1>3. SharedAnswer.to = c /\ SharedAnswer.type \notin ConstTypes
  BY <1>1 DEF SharedAnswer, ConstTypes
<1> HIDE DEF c
<1>4. ~SharedStore[c].const /\ Shared!Live(c)
  BY <1>1, <1>2, SharedCells
<1>5. SharedStore' = [SharedStore EXCEPT ![c].value = v]
  BY <1>1, Written
<1> QED
  BY <1>1, <1>3, <1>4, <1>5, Unchanged DEF Shared!WriteRead, Shared!Next

LEMMA SharedCreate ==
  ASSUME IInv, NEW h \in Handles, NEW T \in Exprs, NEW c \in Cells, Create(h, T, c)
  PROVE  Shared!Next
<1> DEFINE kind == WrapperKind(T)
<1>1. /\ cell \in [Cells -> Contents] /\ variant \in [Handles -> Variants]
      /\ variant[h] = NoVariant /\ cell[c].state = "object"
      /\ T \in AllTypes /\ BindsTo(c, T) /\ got' = got
  BY TypeOKCells, ExprsAssumption DEF IInv, Create, Unused, Objects
<1>2. /\ h \in Shared!Empty /\ c \in Shared!Objects
      /\ SharedStore[c] = [state |-> cell[c].state, const |-> cell[c].const, value |-> cell[c].value]
  BY <1>1, SharedHandles, SharedCells DEF Alive
<1>3. kind \in Kinds \ {"VOID"} /\ kind # "none"
  BY <1>1, KindOfType DEF Kinds, ValueKinds, LRefKinds, RRefKinds, PtrKinds
<1>4. T \in ConstTypes <=> T.const
  BY <1>1 DEF ConstTypes
<1>5. ASSUME NEW own \in Cells, kind \in ValueKinds, cell[own].state = "free",
             cell' = [cell EXCEPT ![own] =
               [state |-> "owned", class |-> T.class, const |-> T.const, value |-> cell[c].value]],
             Wrap(h, T, c, own)
      PROVE  Shared!HoldCopy(h, T, c)
  <2>1. SharedRefs' = [SharedRefs EXCEPT ![h] = [holds |-> "value", type |-> T, to |-> own]]
    BY <1>1, <1>3, <1>5, Wrapping
  <2> DEFINE copy == [state |-> "owned", class |-> T.class, const |-> T.const, value |-> cell[c].value]
  <2>2. cell'[own] = copy /\ \A d \in Cells \ {own} : cell'[d] = cell[d]
    BY <1>1, <1>5
  <2>3. SharedCell(own)' = [state |-> "owned", const |-> T.const, value |-> cell[c].value]
    BY <2>2 DEF SharedCell, Alive
  <2>4. T.const = (T \in ConstTypes)
    BY <1>1, <1>4 DEF AllTypes
  <2>5. SharedStore' = [SharedStore EXCEPT ![own] =
          [state |-> "owned", const |-> T \in ConstTypes, value |-> SharedStore[c].value]]
    <3>1. SharedStore[c].value = cell[c].value
      BY <1>2
    <3> QED
      BY <2>2, <2>3, <2>4, <3>1, StoreChanges
  <2>6. SharedStore[own] = Shared!Unused /\ SharedAnswer' = SharedAnswer
    BY <1>1, <1>5, SharedCells, Unchanged
  <2> QED
    BY <2>1, <2>5, <2>6 DEF Shared!HoldCopy, Shared!Hold
<1>6. ASSUME kind \notin ValueKinds, cell' = cell, Wrap(h, T, c, c)
      PROVE  Shared!Refer(h, T, c)
  <2>1. SharedRefs' = [SharedRefs EXCEPT ![h] = [holds |-> "reference", type |-> T, to |-> c]]
    BY <1>1, <1>3, <1>6, Wrapping
  <2>2. cell[c].const => T.const
    BY <1>1, <1>6, KindOfType DEF BindsTo
  <2> QED
    BY <1>1, <1>2, <1>4, <1>6, <2>1, <2>2, Unchanged DEF Shared!Refer, Shared!Hold
<1>7. Shared!HoldCopy(h, T, c) \/ Shared!Refer(h, T, c)
  BY <1>5, <1>6 DEF Create, MakeWrapper, Free
<1> QED
  BY <1>2, <1>7 DEF Shared!Next

LEMMA SharedVariants ==
  ASSUME IInv, NEW h \in Handles,
         CreateVoid(h) \/ DestroyVariant(h) \/ \E to \in Handles : CopyVariant(h, to)
  PROVE  Shared!Next
<1>1. variant \in [Handles -> Variants] /\ cell \in [Cells -> Contents]
  BY TypeOKCells DEF IInv
<1>2. ASSUME CreateVoid(h) PROVE h \in Shared!Empty /\ Shared!HoldVoid(h)
  <2>1. /\ variant[h] = NoVariant /\ variant'[h] = VoidVariant
        /\ \A g \in Handles \ {h} : variant'[g] = variant[g]
        /\ UNCHANGED <<cell, got>>
    BY <1>1, <1>2 DEF CreateVoid, Unused
  <2> QED
    BY <2>1, RefChanges, SharedHandles, Unchanged DEF Shared!HoldVoid, Shared!Hold
<1>3. ASSUME NEW to \in Handles, CopyVariant(h, to)
      PROVE  to \in Shared!Empty /\ h \in Handles \ Shared!Empty /\ Shared!Share(h, to)
  <2>1. /\ variant[h] # NoVariant /\ variant[to] = NoVariant /\ variant'[to] = variant[h]
        /\ \A g \in Handles \ {to} : variant'[g] = variant[g]
        /\ UNCHANGED <<cell, got>>
    BY <1>1, <1>3 DEF CopyVariant, Unused
  <2> QED
    BY <2>1, RefChanges, SharedHandles, Unchanged DEF Shared!Share, Shared!Hold
<1>4. ASSUME DestroyVariant(h) PROVE h \in Handles \ Shared!Empty /\ Shared!Drop(h)
  <2> DEFINE c == variant[h].cell
             last == Owns(variant[h]) /\ \A g \in Handles \ {h} : variant[g].cell # c
  <2>1. /\ variant[h] # NoVariant /\ variant'[h] = NoVariant
        /\ \A g \in Handles \ {h} : variant'[g] = variant[g]
        /\ cell' = IF last THEN [cell EXCEPT ![c] = Blank("dead")] ELSE cell
        /\ got' = got
    BY <1>1, <1>4 DEF DestroyVariant, Unused
  <2>2. \A g \in Handles : SharedRefs[g].to = variant[g].cell
    BY DEF SharedRefs, SharedRef
  <2>3. Shared!Last(h) <=> last
    BY <2>2, SharedHandles DEF Shared!Last
  <2>4. ASSUME last PROVE SharedStore' = [SharedStore EXCEPT ![c] = Shared!Gone]
    <3>1. PICK d \in Cells : d = c
      BY <2>4, NoVariantOwnsNothing DEF IInv, VariantsOK, Wrapped
    <3>2. cell' = [cell EXCEPT ![d] = Blank("dead")]
      BY <2>1, <2>4, <3>1
    <3>3. cell'[d].state = "dead" /\ \A e \in Cells \ {d} : cell'[e] = cell[e]
      BY <1>1, <3>2, BlankContents
    <3>4. SharedCell(d)' = Shared!Gone
      BY <3>3 DEF SharedCell, Alive, Shared!Gone
    <3>5. SharedStore' = [SharedStore EXCEPT ![d] = Shared!Gone]
      BY <3>3, <3>4, StoreChanges
    <3> QED
      BY <3>1, <3>5
  <2>5. ~last => SharedStore' = SharedStore
    BY <2>1, Unchanged
  <2>6. SharedRefs' = [SharedRefs EXCEPT ![h] = Shared!Nothing]
    BY <2>1, RefChanges, SharedHandles
  <2> QED
    BY <2>1, <2>2, <2>3, <2>4, <2>5, <2>6, SharedHandles, Unchanged DEF Shared!Drop, Shared!Hold
<1> QED
  BY <1>2, <1>3, <1>4 DEF Shared!Next

(* Which wrapper a value has and what its matcher compares no longer show. *)
LEMMA SharedGet ==
  ASSUME IInv, NEW h \in Handles, NEW R \in Exprs, GetSucceeds(h, R) \/ GetFails(h, R)
  PROVE  Shared!Next
<1> DEFINE v == variant[h]
<1>1. /\ v # NoVariant /\ UNCHANGED <<cell, variant>> /\ R \in AllTypes
      /\ h \in Handles \ Shared!Empty
  BY SharedHandles, ExprsAssumption DEF GetSucceeds, GetFails, Unused
<1>2. /\ SharedRefs[h].type = v.type /\ SharedRefs[h].to = v.cell
      /\ SharedRefs[h].holds = "void" <=> v = VoidVariant
  <2>1. SharedRefs[h] = SharedRef(v) /\ (SharedRef(v).holds = "void" <=> v = VoidVariant)
    BY SharedHandles
  <2>2. SharedRef(v).type = v.type /\ SharedRef(v).to = v.cell
    BY DEF SharedRef
  <2> QED
    BY <2>1, <2>2
<1>3. ASSUME v # VoidVariant
      PROVE  /\ Wrapped(v) /\ v.kind # "VOID" /\ v.type \in AllTypes
             /\ CanGetAs(v.kind, v.type, R) <=> Intended(v.type, R)
  <2>1. Wrapped(v) /\ v.type \in AllTypes /\ v.kind = WrapperKind(v.type)
    BY <1>1, <1>3 DEF IInv, VariantsOK, Wrapped
  <2> QED
    BY <1>1, <2>1, KindOfType, MatchersImplementIntent
<1>4. ASSUME v # VoidVariant
      PROVE  <<v.type, R>> \in Readable <=> Intended(v.type, R)
  BY <1>1, <1>3, <1>4 DEF Readable
<1>5. CASE GetSucceeds(h, R)
  <2>1. v # VoidVariant /\ CanGetAs(v.kind, v.type, R)
    BY <1>5, NoVariantOwnsNothing DEF GetSucceeds, Matches, Equals, CanGetAs
  <2>2. SharedAnswer' = [error |-> "None", type |-> R, to |-> v.cell]
    BY <1>5 DEF GetSucceeds, SharedAnswer
  <2>3. <<SharedRefs[h].type, R>> \in Readable /\ SharedRefs[h].holds # "void"
    BY <1>2, <1>3, <1>4, <2>1
  <2>4. UNCHANGED <<SharedStore, SharedRefs>>
    BY <1>1, Unchanged
  <2>5. Shared!Read(h, R)
    BY <1>2, <2>2, <2>3, <2>4 DEF Shared!Read
  <2> QED
    BY <1>1, <2>5 DEF Shared!Next
<1>6. CASE GetFails(h, R) /\ v = VoidVariant
  <2>1. SharedAnswer' = Shared!Refusal("IsVoid", R)
    BY <1>6 DEF GetFails, SharedAnswer, NotGot, VoidVariant, Shared!Refusal
  <2>2. SharedRefs[h].holds = "void"
    BY <1>2, <1>6
  <2>3. <<SharedRefs[h].type, R>> \notin Readable
    BY <1>2, <1>6, NullAssumption DEF Readable, VoidVariant
  <2>4. UNCHANGED <<SharedStore, SharedRefs>>
    BY <1>1, Unchanged
  <2>5. Shared!Read(h, R)
    BY <2>1, <2>2, <2>3, <2>4 DEF Shared!Read
  <2> QED
    BY <1>1, <2>5 DEF Shared!Next
<1>7. CASE GetFails(h, R) /\ v # VoidVariant
  <2>1. ~CanGetAs(v.kind, v.type, R)
    BY <1>3, <1>7 DEF GetFails, MatchesNot, EqualsNot, CanGetAs, Wrapped
  <2>2. SharedAnswer' = Shared!Refusal("CanNotGet", R)
    BY <1>3, <1>7 DEF GetFails, SharedAnswer, NotGot, Shared!Refusal
  <2> QED
    BY <1>1, <1>2, <1>3, <1>4, <1>7, <2>1, <2>2, Unchanged DEF Shared!Read, Shared!Next
<1> QED
  BY <1>5, <1>6, <1>7

LEMMA SharedStep == IInv /\ [Next]_vars => [Shared!Next]_SharedVars
<1> SUFFICES ASSUME IInv, [Next]_vars PROVE Shared!Next \/ UNCHANGED SharedVars
  OBVIOUS
<1>1. CASE UNCHANGED vars \/ \E h \in Handles, R \in Exprs : CanGet(h, R)
  BY <1>1, Unchanged DEF vars, CanGet, SharedVars
<1> QED
  BY <1>1, SharedObjects, SharedAssign, SharedCreate, SharedVariants, SharedGet DEF Next

(* Variants implement shared values: the choice of wrappers and matchers   *)
(* and the order in which types are registered never show.                 *)
THEOREM VariantsAreSharedValues == Spec => ImplementsSharedValues
<1>1. Init => Shared!Init
  BY SharedInit
<1>2. IInv /\ [Next]_vars => [Shared!Next]_SharedVars
  BY SharedStep
<1> QED
  BY <1>1, <1>2, Inductive, PTL DEF Spec, ImplementsSharedValues, Shared!Spec, Shared!vars, SharedVars
=============================================================================
