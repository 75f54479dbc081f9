------------------------------ MODULE TypeView ------------------------------
(***************************************************************************)
(* What a program does with a registered type: Reflect<T>() hands out a    *)
(* Type&, from which the program goes to an inner type, looks up a member  *)
(* by name, or prints the type.  The registry below it is TypeRegistry,    *)
(* whose actions are taken as they are.                                    *)
(*                                                                         *)
(* Printing walks the inner ids that registration has left: the printer of *)
(* a compound type writes its own part before or after that of its first   *)
(* inner type.  `walk` is the call stack of Type::Print, outermost first.  *)
(* A text is a sequence of tokens; the name of a type that is not compound *)
(* is the type itself.                                                     *)
(*                                                                         *)
(* As in TypeRegistry, an operator with an underscore in its name is a     *)
(* faulty variant of the operator of that name.                            *)
(***************************************************************************)
EXTENDS TypeRegistry

CONSTANTS
  Form,       (* Form[t]: which template of meta/common.hpp describes t    *)
  Members,    (* Members[t]: the names of t's fields (or methods), literals*)
  Literals,   (* the string literals of the program                        *)
  Text,       (* Text[l]: what the literal l says                          *)
  Layouts,    (* the addresses a compiler can give to the literals         *)
  StackLimit, (* how many calls of Type::Print the call stack holds        *)
  NoType      (* "no type", neither a type nor void                        *)

CompoundForms == {"const", "volatile", "pointer", "const pointer", "lvalue ref", "rvalue ref"}

(* What the printers write themselves, besides names. *)
Tokens == {"const", "volatile", "*", "&", "&&"}

Compound(t) == t # Void /\ Form[t] \in CompoundForms

ASSUME FormAssumption ==
  /\ Form \in [Types -> CompoundForms \cup {"named"}]
  /\ \A t \in Types : Compound(t) => Deps[t] # <<>>
(* A const pointer is described by a template of its own, what is const    *)
(* and volatile by two, which does not compile: const and volatile stand   *)
(* at a name, or volatile at a pointer that is not const.                  *)
ASSUME QualifierAssumption ==
  \A t \in Types : Compound(t) /\ Compound(Deps[t][1]) =>
    \/ Form[t] \notin {"const", "volatile"}
    \/ Form[t] = "volatile" /\ Form[Deps[t][1]] = "pointer"
ASSUME NoTypeAssumption ==
  /\ NoType \notin Types \cup {Void}
  /\ "InvalidID" \notin Types /\ "NotFound" \notin Types
  /\ Tokens \cap (Types \cup {Void}) = {}
ASSUME MembersAssumption ==
  /\ Members \in [Types \cup {Void} -> Seq(Literals)]
  /\ \A layout \in Layouts : \A l, m \in Literals : layout[l] = layout[m] => Text[l] = Text[m]
ASSUME StackAssumption == StackLimit \in Nat /\ StackLimit >= Cardinality(Types)

VARIABLES
  asked,    (* the type of the Reflect<T>() in progress, or NoType         *)
  view,     (* the Type& the program holds, or NoType                      *)
  walk,     (* the calls of Type::Print in progress, outermost first       *)
  out,      (* what the last Print of the view has written                 *)
  outcome,  (* how that Print ended                                        *)
  found     (* the last member looked up in the view, and where it is      *)

viewVars == <<asked, view, walk, out, outcome, found>>
allVars  == <<vars, viewVars>>

Nothing == [name |-> NoType, at |-> 0, pooled |-> FALSE]

(* The program may do something with its types. *)
Idle ==
  /\ stack = <<>> /\ asked = NoType /\ walk = <<>>
  /\ status = "running" /\ outcome # "undefined"

(* Only the last thing done with a view is kept: its text or its member.   *)
Forget == out' = <<>> /\ outcome' = "none" /\ found' = Nothing

ValueOfFailure_Retries == UNCHANGED <<status, outcome>>

(* value() of a failed result: checked in a debug build only. *)
ValueOfFailure ==
  \/ build = "debug" /\ status' = "aborted" /\ UNCHANGED outcome
  \/ build = "release" /\ outcome' = "undefined" /\ UNCHANGED status

-----------------------------------------------------------------------------
(* Reflect<T>() and the ways from type to type. *)

Reflect(t) ==
  /\ Idle
  /\ ReflectID(t)
  /\ asked' = t
  /\ Forget
  /\ UNCHANGED <<view, walk>>

Registering == asked # NoType /\ Step /\ UNCHANGED viewVars

(* TypeInstance<T>::Type(): the error, or GetType(id).value().             *)
FinishReflect ==
  /\ asked # NoType /\ stack = <<>> /\ status = "running" /\ outcome # "undefined"
  /\ asked' = NoType
  /\ \/ /\ answer.error # "None"
        /\ UNCHANGED <<view, status, outcome>>
     \/ /\ answer.error = "None"
        /\ GetType(answer.id) \in Types
        /\ view' = GetType(answer.id)
        /\ UNCHANGED <<status, outcome>>
     \/ /\ answer.error = "None"
        /\ GetType(answer.id) \notin Types
        /\ ValueOfFailure
        /\ UNCHANGED view
  /\ UNCHANGED <<types, cached, built, inners, stack, build, answer, walk, out, found>>

(* Reflect<void>() answers without the registry. *)
ReflectVoid ==
  /\ Idle
  /\ view' = Void
  /\ Forget
  /\ UNCHANGED <<vars, asked, walk>>

(* GetInner(i) or GetBase(i), with an index the program has checked.  An   *)
(* id that does not resolve is answered with an error and changes nothing. *)
GetInner ==
  /\ Idle
  /\ view \in Types
  /\ \E k \in DOMAIN inners[view] :
       GetType(inners[view][k]) \in Types /\ view' = GetType(inners[view][k])
  /\ Forget
  /\ UNCHANGED <<vars, asked, walk>>

-----------------------------------------------------------------------------
(* GetField(name) and GetMethod(name): the first member whose name has the *)
(* address of the name asked for.  The addresses are fixed when a program  *)
(* is built; no two lookups are compared, so each takes any layout.        *)

SameName(layout, l, m) == layout[l] = layout[m]

Pooled(layout) == \A l, m \in Literals : Text[l] = Text[m] => layout[l] = layout[m]

(* The first match, 0 if there is none. *)
Hit_Last(matches) ==
  IF matches = {} THEN 0 ELSE CHOOSE i \in matches : \A j \in matches : i >= j
Hit_EndIterator(matches) == Len(Members[view]) + 1
Hit(matches) ==
  IF matches = {} THEN 0 ELSE CHOOSE i \in matches : \A j \in matches : i <= j

Matches(l, layout) == {i \in DOMAIN Members[view] : SameName(layout, Members[view][i], l)}
Looked(l, layout)  == [name |-> l, at |-> Hit(Matches(l, layout)), pooled |-> Pooled(layout)]

LookUp(l, layout) ==
  /\ Idle
  /\ view # NoType
  /\ found' = Looked(l, layout)
  /\ out' = <<>> /\ outcome' = "none"
  /\ UNCHANGED <<vars, asked, view, walk>>

-----------------------------------------------------------------------------
(* Printing. *)

Before_Volatile(t) == IF Form[t] = "volatile" THEN <<Form[t]>> ELSE <<>>
Before(t) == IF Form[t] \in {"const", "volatile"} THEN <<Form[t]>> ELSE <<>>
After(t) ==
  CASE Form[t] = "pointer"       -> <<"*">>
    [] Form[t] = "const pointer" -> <<"*", "const">>
    [] Form[t] = "lvalue ref"    -> <<"&">>
    [] Form[t] = "rvalue ref"    -> <<"&&">>
    [] OTHER                     -> <<>>

Printing == walk # <<>> /\ status = "running" /\ outcome = "none"
Printer  == walk[Len(walk)]
Enter(t) == [type |-> t, pc |-> "enter"]

(* The innermost Print returns. *)
PrintReturn ==
  /\ walk' = SubSeq(walk, 1, Len(walk) - 1)
  /\ outcome' = IF Len(walk) = 1 THEN "printed" ELSE outcome
  /\ UNCHANGED status

PrintView ==
  /\ Idle
  /\ view # NoType
  /\ walk' = <<Enter(view)>>
  /\ Forget
  /\ UNCHANGED <<vars, asked, view>>

(* A builtin, a class or void. *)
PrintName ==
  /\ Printing
  /\ ~Compound(Printer.type)
  /\ out' = Append(out, Printer.type)
  /\ PrintReturn
  /\ UNCHANGED <<types, cached, built, inners, stack, build, answer, asked, view, found>>

(* type.GetInner(0).value().Print(out), after what is written before it.   *)
InnerOf_Itself(t) == GetType(cached[t])
InnerOf(t) == GetType(inners[t][1])

PrintInner ==
  /\ Printing
  /\ Compound(Printer.type) /\ Printer.pc = "enter"
  /\ out' = out \o Before(Printer.type)
  /\ \/ /\ InnerOf(Printer.type) \notin Types
        /\ ValueOfFailure
        /\ UNCHANGED walk
     \/ /\ InnerOf(Printer.type) \in Types
        /\ Len(walk) < StackLimit
        /\ walk' = Append([walk EXCEPT ![Len(walk)].pc = "leave"], Enter(InnerOf(Printer.type)))
        /\ UNCHANGED <<status, outcome>>
     \/ /\ InnerOf(Printer.type) \in Types
        /\ Len(walk) = StackLimit
        /\ status' = "aborted" /\ outcome' = "overflow"
        /\ UNCHANGED walk
  /\ UNCHANGED <<types, cached, built, inners, stack, build, answer, asked, view, found>>

PrintAfter ==
  /\ Printing
  /\ Compound(Printer.type) /\ Printer.pc = "leave"
  /\ out' = out \o After(Printer.type)
  /\ PrintReturn
  /\ UNCHANGED <<types, cached, built, inners, stack, build, answer, asked, view, found>>

PrintStep == PrintName \/ PrintInner \/ PrintAfter

-----------------------------------------------------------------------------
ViewInit ==
  /\ Init
  /\ asked = NoType /\ view = NoType
  /\ walk = <<>>
  /\ out = <<>> /\ outcome = "none" /\ found = Nothing

(* The process has ended, or what it does is not defined. *)
Ended == (status # "running" \/ outcome = "undefined") /\ UNCHANGED allVars

ViewNext ==
  \/ \E t \in Types : Reflect(t)
  \/ ReflectVoid \/ Registering \/ FinishReflect
  \/ GetInner
  \/ \E l \in Literals, layout \in Layouts : LookUp(l, layout)
  \/ PrintView \/ PrintStep
  \/ Ended

ViewSpec == ViewInit /\ [][ViewNext]_allVars

FairViewSpec == ViewSpec /\ WF_allVars(PrintStep) /\ WF_allVars(Registering \/ FinishReflect)

-----------------------------------------------------------------------------
(* Properties. *)

(* What a type consists of, from the inside: its name, then what is put    *)
(* around it.  A pointer to void is built upon void, which has no inner.   *)
Around(form) ==
  CASE form \in {"const", "volatile"} -> <<form>>
    [] form = "pointer"               -> <<"*">>
    [] form = "const pointer"         -> <<"*", "const">>
    [] form = "lvalue ref"            -> <<"&">>
    [] form = "rvalue ref"            -> <<"&&">>

LayersUpTo[n \in 0 .. Cardinality(Types)] ==
  [u \in Types \cup {Void} |->
     IF n = 0 \/ ~Compound(u) THEN <<u>>
     ELSE LayersUpTo[n - 1][Deps[u][1]] \o Around(Form[u])]

Layers(t) == LayersUpTo[Cardinality(Types)][t]

(* Taking off layer after layer of t leaves void. *)
UponVoid(t) ==
  \E n \in 1 .. Cardinality(Types) : \E chain \in [1 .. n -> Types] :
    /\ chain[1] = t
    /\ \A i \in 1 .. n : Compound(chain[i])
    /\ \A i \in 1 .. n - 1 : Deps[chain[i]][1] = chain[i + 1]
    /\ Deps[chain[n]][1] = Void

VolatilePointer(t) == \E i, j \in DOMAIN Layers(t) :
                        i < j /\ Layers(t)[i] = "*" /\ Layers(t)[j] = "volatile"

(* How C++ reads a text: what stands before the name belongs to the name,  *)
(* what stands behind it is put around that from left to right.            *)
Reading(text) ==
  LET name == CHOOSE i \in DOMAIN text : text[i] \in Types \cup {Void} IN
    <<text[name]>> \o SubSeq(text, 1, name - 1) \o SubSeq(text, name + 1, Len(text))

ViewTypeOK ==
  /\ asked \in Types \cup {NoType}
  /\ view \in Types \cup {Void, NoType}
  /\ walk \in Seq([type : Types \cup {Void}, pc : {"enter", "leave"}])
  /\ outcome \in {"none", "printed", "overflow", "undefined"}
  /\ found.at \in Nat
  /\ view \in Types => found.at <= Len(Members[view])

(* The value() in TypeInstance<T>::Type() never fails and yields T: an id  *)
(* just answered resolves to the type asked for.  A Type& the program      *)
(* holds stays that of a registered type, whatever registers or fails to   *)
(* register later.                                                         *)
ViewResolves ==
  /\ asked # NoType /\ stack = <<>> /\ status = "running" /\ answer.error = "None" =>
       GetType(answer.id) = asked
  /\ view \in Types => GetType(cached[view]) = view

(* With checked results, the printers go from type to type along ids that  *)
(* get smaller, so no chain of printers comes back to a type.              *)
WalkDescends ==
  build = "debug" =>
    \A i \in 1 .. Len(walk) - 1 : cached[walk[i + 1].type] < cached[walk[i].type]

(* GetInner(0) indexes the inner types without a check: every compound     *)
(* type a printer is called for, by the program or by another printer, has *)
(* one, also when a release build went on after a failed registration.     *)
InnerExists ==
  \A i \in 1 .. Len(walk) :
    Compound(walk[i].type) => inners[walk[i].type] # <<>>

(* With checked results, what is printed reads, as C++, as the type it was *)
(* printed for.  The exception is a volatile pointer: volatile is written  *)
(* first and then reads as part of what is pointed to.                     *)
PrintsTheType ==
  build = "debug" /\ outcome = "printed" /\ ~VolatilePointer(view) =>
    Reading(out) = Layers(view)

(* With checked results, a print fails to return only for a type that is   *)
(* built upon void, whose id no lookup accepts; it never exhausts the call *)
(* stack.                                                                  *)
FailsOnlyUponVoid ==
  build = "debug" =>
    /\ walk # <<>> /\ status # "running" => UponVoid(view)
    /\ outcome \notin {"overflow", "undefined"}

(* A member that is found has the name asked for.  If the compiler keeps   *)
(* one copy of equal literals, the member found is the first of that name, *)
(* and one is found if there is one.                                       *)
FindsByName ==
  found # Nothing =>
    LET named == {i \in DOMAIN Members[view] : Text[Members[view][i]] = Text[found.name]} IN
      /\ found.at # 0 => found.at \in named
      /\ found.pooled => \A i \in named : found.at # 0 /\ found.at <= i

(* Every Print returns or stops the process, in every build. *)
PrintEnds == (walk # <<>>) ~> (walk = <<>> \/ status # "running" \/ outcome = "undefined")
=============================================================================
