---------------------------- MODULE VariantAccess ---------------------------
(***************************************************************************)
(* Variant of refl-cpp: what Variant::Create<T> stores, what copies of a   *)
(* Variant share, which types Get<R> hands out a value as, and what        *)
(* storage the reference it hands out designates.                          *)
(*                                                                         *)
(* Storage is a set of cells: the objects and temporaries of the program,  *)
(* and the values that wrappers own.  A Variant is the wrapper it shares   *)
(* with its copies and the type it was created with.  Null pointers are    *)
(* left out; assigning a Variant is destroying it and copying the other.   *)
(*                                                                         *)
(* Operators with an underscore in their name are faulty variants of the   *)
(* operator of that name, used to see that the properties notice the fault.*)
(***************************************************************************)
EXTENDS VariantTypes

CONSTANTS
  Exprs,       (* the types the program names in Create<T> and Get<R>      *)
  Cells,       (* storage                                                  *)
  Values,      (* contents of a cell                                       *)
  Handles,     (* Variant objects                                          *)
  Null         (* no cell, no type                                         *)

ASSUME ExprsAssumption  == Exprs \subseteq AllTypes
ASSUME NullAssumption   == Null \notin Cells /\ Null \notin AllTypes
ASSUME ContentsAssumption == Values # {} /\ Classes # {}

VARIABLES
  cell,         (* the storage: lifetime, class, constness and value       *)
  variant,      (* the Variant objects                                     *)
  registered,   (* the types ReflectID<T>() has given an id                *)
  got           (* the last Get: its outcome, the type asked for, and what  *)
                (* it designates                                            *)

vars == <<cell, variant, registered, got>>

-----------------------------------------------------------------------------
(* State. *)

NoVariant   == [kind |-> "none", type |-> Null, cell |-> Null, source |-> Null]
VoidVariant == [kind |-> "VOID", type |-> Null, cell |-> Null, source |-> Null]
NotGot(e, R) == [error |-> e, type |-> R, cell |-> Null, source |-> Null]

Free        == {c \in Cells : cell[c].state = "free"}
Objects     == {c \in Cells : cell[c].state = "object"}
Alive(c)    == cell[c].state \in {"object", "owned"}
Unused(h)   == variant[h] = NoVariant
Owns(v)     == v.kind \in ValueKinds

(* An object can be bound to T&, T&& or T* only if T adds const, not drops *)
(* it; a value parameter copies either.                                    *)
BindsTo(c, T) ==
  /\ cell[c].class = T.class
  /\ cell[c].const => T.const \/ (T.form = "value" /\ T.class \in Copyable)

Initial == CHOOSE v \in Values : TRUE

(* A cell without an object; what it says of class and value is void. *)
Blank(state) ==
  [state |-> state, class |-> CHOOSE k \in Classes : TRUE, const |-> FALSE, value |-> Initial]

Init ==
  /\ cell = [c \in Cells |-> Blank("free")]
  /\ variant = [h \in Handles |-> NoVariant]
  /\ registered = {}
  /\ got = NotGot("None", Null)

-----------------------------------------------------------------------------
(* The program's own objects. *)

Declare(c, class, const) ==
  /\ c \in Free
  /\ cell' = [cell EXCEPT ![c] =
       [state |-> "object", class |-> class, const |-> const, value |-> Initial]]
  /\ UNCHANGED <<variant, registered, got>>

(* The end of its scope, or of the expression of a temporary. *)
EndOfLife(c) ==
  /\ c \in Objects
  /\ cell' = [cell EXCEPT ![c] = Blank("dead")]
  /\ UNCHANGED <<variant, registered, got>>

SetObject(c, value) ==
  /\ c \in Objects
  /\ ~cell[c].const
  /\ cell' = [cell EXCEPT ![c].value = value]
  /\ UNCHANGED <<variant, registered, got>>

(* Assignment through what the last Get handed out, while it designates    *)
(* live storage.                                                           *)
Assign(value) ==
  /\ got.cell # Null
  /\ ~got.type.const
  /\ Alive(got.cell)
  /\ cell' = [cell EXCEPT ![got.cell].value = value]
  /\ UNCHANGED <<variant, registered, got>>

-----------------------------------------------------------------------------
(* Variant. *)

CreateVoid(h) ==
  /\ Unused(h)
  /\ variant' = [variant EXCEPT ![h] = VoidVariant]
  /\ UNCHANGED <<cell, registered, got>>

Wrap(h, T, c, held) ==
  variant' = [variant EXCEPT ![h] =
    [kind |-> WrapperKind(T), type |-> T, cell |-> held, source |-> c]]

(* MakeWrapper<T>(object): a cell of its own for a value, else a reference. *)
MakeWrapper(h, T, c) ==
  \/ /\ WrapperKind(T) \in ValueKinds
     /\ \E own \in Free :
          /\ cell' = [cell EXCEPT ![own] =
               [state |-> "owned", class |-> T.class, const |-> T.const, value |-> cell[c].value]]
          /\ Wrap(h, T, c, own)
  \/ /\ WrapperKind(T) \notin ValueKinds
     /\ Wrap(h, T, c, c)
     /\ UNCHANGED cell

Create_WithoutReflectID(h, T, c) ==
  /\ Unused(h)
  /\ c \in Objects
  /\ Compiles(T) /\ BindsTo(c, T)
  /\ MakeWrapper(h, T, c)
  /\ UNCHANGED <<registered, got>>

(* Variant::Create<T>(object): the wrapper is made and T is reflected; if  *)
(* that fails there is no variant, and a copy already made is gone again.  *)
Create(h, T, c) ==
  /\ Unused(h)
  /\ c \in Objects
  /\ Compiles(T) /\ BindsTo(c, T)
  /\ MakeWrapper(h, T, c)
  /\ registered' = registered \cup {T}
  /\ UNCHANGED got

(* Copying a Variant shares its wrapper. *)
CopyVariant(h, to) ==
  /\ ~Unused(h) /\ Unused(to)
  /\ variant' = [variant EXCEPT ![to] = variant[h]]
  /\ UNCHANGED <<cell, registered, got>>

(* The last Variant that shares a wrapper destroys it. *)
DestroyVariant_FreesShared(h) ==
  /\ ~Unused(h)
  /\ variant' = [variant EXCEPT ![h] = NoVariant]
  /\ cell' = IF Owns(variant[h])
             THEN [cell EXCEPT ![variant[h].cell] = Blank("dead")]
             ELSE cell
  /\ UNCHANGED <<registered, got>>

DestroyVariant(h) ==
  /\ ~Unused(h)
  /\ variant' = [variant EXCEPT ![h] = NoVariant]
  /\ cell' = IF Owns(variant[h]) /\ \A g \in Handles \ {h} : variant[g].cell # variant[h].cell
             THEN [cell EXCEPT ![variant[h].cell] = Blank("dead")]
             ELSE cell
  /\ UNCHANGED <<registered, got>>

(* TypeID::Equals<R>() reflects R to compare the ids; it answers false if  *)
(* R cannot be registered, which only happens while R is not registered.   *)
Equals(T, R) ==
  /\ T = R
  /\ registered' = registered \cup {R}

EqualsNot(T, R) ==
  \/ /\ T # R
     /\ registered' = registered \cup {R}
  \/ /\ R \notin registered
     /\ registered' = registered

(* CanGet<R>() of a variant, answering TRUE or FALSE. *)
Matches(v, R) ==
  /\ HasMatcher(v.kind, R)
  /\ Equals(v.type, Compared(v.kind, R))

MatchesNot(v, R) ==
  IF HasMatcher(v.kind, R)
  THEN EqualsNot(v.type, Compared(v.kind, R))
  ELSE UNCHANGED registered

CanGet(h, R) ==
  /\ ~Unused(h)
  /\ Matches(variant[h], R) \/ MatchesNot(variant[h], R)
  /\ UNCHANGED <<cell, variant, got>>

(* Get<R>(): not void, CanGet<R>(), then what the wrapper holds. *)
GetSucceeds(h, R) ==
  /\ ~Unused(h)
  /\ Matches(variant[h], R)
  /\ got' = [error |-> "None", type |-> R,
             cell |-> variant[h].cell, source |-> variant[h].source]
  /\ UNCHANGED <<cell, variant>>

GetFails_Unconverted(h, R) ==
  /\ ~Unused(h)
  /\ MatchesNot(variant[h], R)
  /\ got' = NotGot(IF variant[h].kind = "VOID" THEN "VariantIsVoidError" ELSE "CanNotGet", R)
  /\ UNCHANGED <<cell, variant>>

GetFails(h, R) ==
  /\ ~Unused(h)
  /\ MatchesNot(variant[h], R)
  /\ got' = NotGot(IF variant[h].kind = "VOID" THEN "IsVoid" ELSE "CanNotGet", R)
  /\ UNCHANGED <<cell, variant>>

Next ==
  \/ \E c \in Cells :
       \/ \E k \in Classes, const \in BOOLEAN : Declare(c, k, const)
       \/ EndOfLife(c)
       \/ \E v \in Values : SetObject(c, v)
  \/ \E v \in Values : Assign(v)
  \/ \E h \in Handles :
       \/ CreateVoid(h)
       \/ \E T \in Exprs, c \in Cells : Create(h, T, c)
       \/ \E to \in Handles : CopyVariant(h, to)
       \/ DestroyVariant(h)
       \/ \E R \in Exprs : CanGet(h, R) \/ GetSucceeds(h, R) \/ GetFails(h, R)

Spec == Init /\ [][Next]_vars
-----------------------------------------------------------------------------
(* Properties. *)

TypeOK ==
  /\ cell \in [Cells -> [state : {"free", "object", "owned", "dead"},
                        class : Classes, const : BOOLEAN, value : Values]]
  /\ variant \in [Handles -> [kind : Kinds \cup {"none"}, type : AllTypes \cup {Null},
                             cell : Cells \cup {Null}, source : Cells \cup {Null}]]
  /\ registered \subseteq AllTypes
  /\ got \in [error : {"None", "IsVoid", "CanNotGet"}, type : AllTypes \cup {Null},
              cell : Cells \cup {Null}, source : Cells \cup {Null}]

(* The value a wrapper owns lives exactly as long as some Variant that     *)
(* shares the wrapper: it is not freed under a copy, not leaked, and two   *)
(* variants created separately never own the same storage.                 *)
OwnedStorage ==
  /\ \A h \in Handles : Owns(variant[h]) =>
       /\ cell[variant[h].cell].state = "owned"
       /\ cell[variant[h].cell].class = variant[h].type.class
       /\ cell[variant[h].cell].const = variant[h].type.const
  /\ \A c \in Cells : cell[c].state = "owned" =>
       \E h \in Handles : Owns(variant[h]) /\ variant[h].cell = c
  /\ \A g, h \in Handles : Owns(variant[g]) /\ variant[g].cell = variant[h].cell =>
       variant[g] = variant[h]

(* Whatever was created as whatever and got as whatever, nothing is ever   *)
(* written through a Variant to an object that is const, be it the         *)
(* program's or one that a wrapper owns.                                   *)
ConstKept ==
  [][\A c \in Cells :
       cell[c].const /\ Alive(c) /\ Alive(c)' => cell'[c].value = cell[c].value]_vars

(* Which types a value can be got as depends on the type it was created    *)
(* with and on nothing else (which types the program has reflected before, *)
(* registrations that fail now, copies): the class is the same, const is   *)
(* not dropped, values and lvalue references are interchangeable, rvalue   *)
(* references and pointers are got as themselves, and what could not be    *)
(* copied into the Variant cannot be got at all.                           *)
SameForm(T, R) ==
  IF T.form \in {"value", "lref"} THEN R.form \in {"value", "lref"} ELSE R.form = T.form

Intended(T, R) ==
  /\ R.class = T.class
  /\ T.const => R.const
  /\ SameForm(T, R)
  /\ ~Adopted(T)

GetDecides ==
  [][\A h \in Handles, R \in Exprs :
       /\ GetSucceeds(h, R) => Intended(variant[h].type, R)
       /\ GetFails(h, R) => variant[h].kind = "VOID" \/ ~Intended(variant[h].type, R)]_vars

(* Variants are shared values: which wrapper and matcher serve a type, and *)
(* which types are registered when, makes no difference to what a Variant  *)
(* holds, for how long, what it is read as and what is written through it. *)
ConstTypes == {T \in AllTypes : T.const}
Readable   == {pair \in AllTypes \X AllTypes : Intended(pair[1], pair[2])}

Holding(kind) ==
  CASE kind = "none"          -> "nothing"
    [] kind = "VOID"          -> "void"
    [] kind \in ValueKinds    -> "value"
    [] OTHER                  -> "reference"

SharedCell(c) ==
  IF Alive(c) THEN [state |-> cell[c].state, const |-> cell[c].const, value |-> cell[c].value]
  ELSE [state |-> cell[c].state, const |-> FALSE, value |-> Null]
SharedRef(v) == [holds |-> Holding(v.kind), type |-> v.type, to |-> v.cell]

SharedStore  == [c \in Cells |-> SharedCell(c)]
SharedRefs   == [h \in Handles |-> SharedRef(variant[h])]
SharedAnswer == [error |-> got.error, type |-> got.type, to |-> got.cell]

Shared == INSTANCE SharedValues WITH
  Storage <- Cells, Contents <- Values, Types <- Exprs,
  store <- SharedStore, ref <- SharedRefs, answer <- SharedAnswer
ImplementsSharedValues == Shared!Spec

(* tests/variant.cpp:50, of a variant created by value: modifying through  *)
(* the reference Get hands out modifies the original.                      *)
WriteReachesOriginal ==
  [][\A v \in Values :
       Assign(v) /\ Alive(got.source) => cell'[got.source].value = v]_vars

(* tests/variant.cpp:106 and 110: what Create<int&&>(42) was given can be  *)
(* got from the Variant, so the storage Get hands out is alive.            *)
RValueAlive ==
  [][\A h \in Handles, R \in Exprs :
       GetSucceeds(h, R) /\ R.form = "rref" => Alive(got'.cell)]_vars
=============================================================================
