--------------------------- MODULE TypeViewProofs ---------------------------
(***************************************************************************)
(* Theorems about TypeView, for every set of types, every build and every  *)
(* placement of literals.  The registry below enters through its own       *)
(* inductive invariant IInv and through the catalog it implements.         *)
(***************************************************************************)
EXTENDS TypeView, TypeRegistryProofs, NaturalsInduction, WellFoundedInduction

Calls == [type : Types \cup {Void}, pc : {"enter", "leave"}]

ViewTypes ==
  /\ asked \in Types \cup {NoType}
  /\ view \in Types \cup {Void, NoType}
  /\ walk \in Seq(Calls)
  /\ outcome \in {"none", "printed", "overflow", "undefined"}

(* A TypeData has an inner id for every type its initialiser names, in a   *)
(* release build too.                                                      *)
BuiltComplete == \A t \in built : Len(inners[t]) >= Len(Deps[t])

(* The Reflect<T>() in progress: its registration, or its answer. *)
Asking ==
  /\ asked = NoType => stack = <<>>
  /\ asked # NoType =>
       /\ walk = <<>> /\ found = Nothing
       /\ stack # <<>> => stack[1].type = asked
       /\ stack = <<>> /\ status = "running" /\ answer.error = "None" =>
            cached[asked] # 0 /\ answer.id = cached[asked]

(* The Type& of the program and those on the call stack are registered.    *)
Held == view \in Types => cached[view] # 0

Walking ==
  /\ walk # <<>> => walk[1].type = view
  /\ \A i \in 1 .. Len(walk) : walk[i].type \in Types => cached[walk[i].type] # 0
  /\ \A i \in 1 .. Len(walk) - 1 : Compound(walk[i].type) /\ walk[i + 1].type \in Types

(* With checked results, the printers take off layer after layer, and the  *)
(* ids go down by at least one at each call.                               *)
Descending ==
  build = "debug" =>
    /\ \A i \in 1 .. Len(walk) - 1 :
         /\ Deps[walk[i].type][1] = walk[i + 1].type
         /\ cached[walk[i + 1].type] < cached[walk[i].type]
    /\ \A i \in 1 .. Len(walk) :
         walk[i].type \in Types => cached[walk[i].type] + i <= Len(types) + 1

LookedUp ==
  found # Nothing =>
    /\ view \in Types \cup {Void}
    /\ \E l \in Literals, layout \in Layouts : found = Looked(l, layout)

VInv ==
  /\ IInv /\ ViewTypes
  /\ BuiltComplete /\ Asking /\ Held
  /\ Walking /\ Descending
  /\ FailsOnlyUponVoid
  /\ LookedUp

-----------------------------------------------------------------------------
(* Facts about the registry. *)

(* What GetType answers for an id: the type whose static id it is. *)
LEMMA ResolvedType ==
  ASSUME IInv, NEW id \in TypeIDs, GetType(id) \in Types
  PROVE  id \in 1 .. Len(types) /\ cached[GetType(id)] = id
<1>1. id # 0 /\ ~(id > Len(types))
  BY NoTypeAssumption DEF GetType
<1>2. id \in 1 .. Len(types)
  BY <1>1, LenProperties DEF TypeIDs, IInv, TypeOK
<1>3. GetType(id) = types[id].type
  BY <1>1 DEF GetType
<1> QED
  BY <1>2, <1>3 DEF IInv, EntriesOK

(* The static id of a registered type resolves to it. *)
LEMMA OwnID ==
  ASSUME IInv, NEW t \in Types, cached[t] # 0
  PROVE  cached[t] \in 1 .. Len(types) /\ GetType(cached[t]) = t
<1>1. /\ cached[t] \in 1 .. Len(types)
      /\ types[cached[t]].type = t
      /\ Len(types) \in Nat
  BY LenProperties DEF IInv, CachedOK, TypeOK
<1>2. ~(cached[t] = 0) /\ ~(cached[t] > Len(types))
  BY <1>1
<1> QED
  BY <1>1, <1>2 DEF GetType

(* There are no more entries than types. *)
LEMMA EntriesFit == IInv => Len(types) \in Nat /\ Len(types) <= Cardinality(Types)
<1> SUFFICES ASSUME IInv PROVE Len(types) \in Nat /\ Len(types) <= Cardinality(Types)
  OBVIOUS
<1> DEFINE S == 1 .. Len(types)
           f == [i \in S |-> types[i].type]
<1>1. Len(types) \in Nat /\ \A i \in S : types[i].type \in Types
  <2>1. \A i \in S : types[i] \in [id : TypeIDs, type : Types]
    BY ElementOfSeq DEF IInv, TypeOK
  <2> QED
    BY <2>1, LenProperties DEF IInv, TypeOK
<1>2. f \in Injection(S, Types)
  <2>1. f \in [S -> Types]
    BY <1>1
  <2>2. \A i, j \in S : f[i] = f[j] => i = j
    BY <1>1 DEF IInv, EntriesOK
  <2> QED
    BY <2>1, <2>2 DEF Injection, IsInjective
<1>3. Cardinality(S) <= Cardinality(Types)
  BY <1>2, TypesAssumption, FS_Injection
<1>4. Cardinality(S) = IF 1 > Len(types) THEN 0 ELSE Len(types) - 1 + 1
  <2>1. 1 \in Int /\ Len(types) \in Int
    BY <1>1
  <2> QED
    BY <2>1, FS_Interval
<1> QED
  BY <1>1, <1>3, <1>4

(* The type data of a registered compound type has an inner id; with       *)
(* checked results it is that of the type it is built upon.                *)
LEMMA FirstInner ==
  ASSUME IInv, BuiltComplete, NEW t \in Types, cached[t] # 0, Compound(t)
  PROVE  /\ inners[t] # <<>>
         /\ inners[t][1] \in TypeIDs
         /\ Deps[t][1] \in Types \cup {Void}
         /\ build = "debug" =>
              /\ ResolvesTo(cached, inners[t][1], Deps[t][1])
              /\ inners[t][1] < cached[t]
<1>1. t \in built /\ inners[t] \in Seq(TypeIDs) /\ Deps[t] \in Seq(Types \cup {Void})
  BY DepsAssumption DEF IInv, CachedOK, TypeOK
<1>2. Deps[t] # <<>>
  BY FormAssumption
<1>3. Len(Deps[t]) \in Nat \ {0} /\ Len(inners[t]) \in Nat
  BY <1>1, <1>2, EmptySeq, LenProperties
<1>4. Len(inners[t]) >= Len(Deps[t])
  BY <1>1 DEF BuiltComplete
<1>5. 1 \in 1 .. Len(inners[t]) /\ 1 \in 1 .. Len(Deps[t])
  BY <1>3, <1>4
<1>6. /\ inners[t] # <<>>
      /\ inners[t][1] \in TypeIDs
      /\ Deps[t][1] \in Types \cup {Void}
  BY <1>1, <1>5, ElementOfSeq, EmptySeq
<1>7. ASSUME build = "debug"
      PROVE  ResolvesTo(cached, inners[t][1], Deps[t][1]) /\ inners[t][1] < cached[t]
  <2>1. BuiltResolve /\ InnersSmaller
    BY <1>7 DEF IInv, InnersOK
  <2> QED
    BY <1>1, <1>5, <2>1 DEF BuiltResolve, InnersSmaller, Prefix
<1> QED
  BY <1>6, <1>7

(* The registry's invariant does not depend on how a print ends. *)
LEMMA StatusMayChange ==
  ASSUME IInv, UNCHANGED <<types, cached, built, inners, stack, build, answer>>,
         status' = status \/ status' = "aborted"
  PROVE  IInv'
<1>1. TypeOK'
  BY DEF IInv, TypeOK, Frames, Results
<1>2. EntriesOK' /\ CachedOK'
  BY DEF IInv, EntriesOK, CachedOK
<1>3. StackOK'
  BY DEF IInv, StackOK, Pending, Callers, Creating, Storing, Depth
<1>4. InnersOK'
  BY DEF IInv, InnersOK, FramesResolve, BuiltResolve, InnersSmaller, Prefix, ResolvesTo, Depth
<1>5. HangNeedsCycle'
  BY DEF IInv, HangNeedsCycle, Depth, Top, Names
<1> QED
  BY <1>1, <1>2, <1>3, <1>4, <1>5 DEF IInv

-----------------------------------------------------------------------------
(* The registration of a Reflect<T>(). *)

(* What the program sees of the registry while it is asked: the call goes  *)
(* on, is granted with the id the type has from now on, or is refused.     *)
LEMMA AnsweredOrPending ==
  ASSUME IInv, [Next]_vars, stack # <<>>
  PROVE  \/ stack' # <<>> /\ stack'[1].type = stack[1].type
         \/ /\ stack' = <<>> /\ answer'.error = "None"
            /\ cached'[stack[1].type] # 0
            /\ answer'.id = cached'[stack[1].type]
         \/ stack' = <<>> /\ answer'.error # "None"
<1>1. /\ stack \in Seq(Frames) /\ stack' \in Seq(Frames)
      /\ cached \in [Types -> TypeIDs]
  BY IInvStep DEF IInv, TypeOK
<1>2. stack[1].type \in Types /\ stack[1].type # Void
  BY <1>1, EmptySeq, FrameTypes, TypesAssumption, LenProperties DEF Depth
<1>3. stack' # <<>> => stack'[1].type \in Types /\ stack'[1].type # Void
  <2>1. ASSUME stack' # <<>> PROVE stack'[1] \in Frames
    BY <1>1, <2>1, ElementOfSeq, EmptySeq, LenProperties
  <2> QED
    BY <2>1, TypesAssumption DEF Frames
<1>4. CatalogCaller = stack[1].type /\ CatalogCaller # Void
  BY <1>2 DEF CatalogCaller
<1>5. CASE Catalog!Grant
  <2>1. /\ CatalogCaller' = Void
        /\ answer' = Success(cached'[stack[1].type])
        /\ cached[stack[1].type] = 0
    BY <1>4, <1>5 DEF Catalog!Grant, Catalog!Issue, Catalog!Success, Success, CatalogCaller
  <2>2. stack' = <<>>
    BY <1>3, <2>1 DEF CatalogCaller
  <2>3. cached'[stack[1].type] # 0
    BY <1>1, <1>2, <1>4, <1>5 DEF Catalog!Grant, Catalog!Issue, CatalogCaller
  <2> QED
    BY <2>1, <2>2, <2>3 DEF Success
<1>6. CASE Catalog!Refuse
  <2>1. CatalogCaller' = Void /\ answer'.error # "None"
    BY <1>6 DEF Catalog!Refuse, Catalog!Failure, Catalog!ReflectErrors, CatalogCaller
  <2> QED
    BY <1>3, <2>1 DEF CatalogCaller
<1>7. CASE CatalogCaller' = CatalogCaller
  BY <1>3, <1>4, <1>7 DEF CatalogCaller
<1>8. ASSUME NEW t \in Types, Catalog!Lookup(t) \/ Catalog!Ask(t) PROVE FALSE
  BY <1>4, <1>8 DEF Catalog!Lookup, Catalog!Ask, CatalogCaller
<1>9. ASSUME NEW t \in Types, Catalog!IssueOnTheWay(t) PROVE CatalogCaller' = CatalogCaller
  BY <1>9 DEF Catalog!IssueOnTheWay, CatalogCaller
<1> QED
  BY <1>5, <1>6, <1>7, <1>8, <1>9, CatalogStep DEF Catalog!Next, CatalogVars

(* Reflect<T>() of a registered type is answered at once. *)
LEMMA AskedOrAnswered ==
  ASSUME IInv, NEW t \in Types, ReflectID(t)
  PROVE  \/ stack' # <<>> /\ stack'[1].type = t
         \/ /\ stack' = <<>> /\ answer'.error = "None"
            /\ cached'[t] # 0 /\ answer'.id = cached'[t]
<1>1. CASE cached[t] # 0 /\ answer' = Success(cached[t]) /\ UNCHANGED stack
  BY <1>1 DEF ReflectID, Success
<1>2. CASE Push(NewFrame(t))
  <2>1. stack' = <<NewFrame(t)>>
    BY <1>2 DEF ReflectID, Push
  <2> QED
    BY <2>1 DEF NewFrame
<1> QED
  BY <1>1, <1>2 DEF ReflectID

(* No TypeData is built with less inner ids than its initialiser names.    *)
LEMMA BuiltCompleteStep ==
  ASSUME IInv, BuiltComplete, [Next]_vars
  PROVE  BuiltComplete'
<1>1. CASE UNCHANGED <<built, inners>>
  BY <1>1 DEF BuiltComplete
<1>2. CASE FinishCreate
  <2>1. /\ Busy /\ ~MoreDeps
        /\ built' = built \cup {Top.type}
        /\ inners' = [inners EXCEPT ![Top.type] = Top.inners]
    BY <1>2 DEF FinishCreate
  <2>2. /\ Top.type \in Types /\ Top.inners \in Seq(TypeIDs)
        /\ inners \in [Types -> Seq(TypeIDs)] /\ built \subseteq Types
    BY <2>1, TopFrame DEF IInv, TypeOK
  <2>3. Len(Top.inners) >= Len(Deps[Top.type])
    <3>1. Len(Top.inners) \in Nat /\ Len(Deps[Top.type]) \in Nat
      BY <2>2, DepsAssumption, LenProperties
    <3> QED
      BY <2>1, <3>1 DEF MoreDeps
  <2>4. ASSUME NEW t \in built' PROVE Len(inners'[t]) >= Len(Deps[t])
    BY <2>1, <2>2, <2>3 DEF BuiltComplete
  <2> QED
    BY <2>4 DEF BuiltComplete
<1> QED
  BY <1>1, <1>2
     DEF Next, Step, Stopped, ReflectID, RegisterType, ReflectInner, CreateThrows, Emplace,
         EmplaceThrows, vars

(* A registered type stays registered, with its id. *)
LEMMA IdsStay ==
  ASSUME IInv, [Next]_vars, NEW t \in Types, cached[t] # 0
  PROVE  cached'[t] = cached[t]
<1>1. CASE UNCHANGED vars
  BY <1>1 DEF vars
<1>2. CASE Stable
  BY <1>2 DEF Stable
<1> QED
  BY <1>1, <1>2, StableStep

-----------------------------------------------------------------------------
(* The invariant holds of the first state and is kept by every action. *)

LEMMA VInvInit == ViewInit => VInv
<1> SUFFICES ASSUME ViewInit PROVE VInv
  OBVIOUS
<1>1. IInv
  BY IInvInit DEF ViewInit
<1>2. ViewTypes
  BY EmptySeq DEF ViewInit, ViewTypes
<1>3. BuiltComplete /\ Asking
  BY DEF ViewInit, Init, BuiltComplete, Asking
<1>4. Held /\ LookedUp
  BY NoTypeAssumption DEF ViewInit, Held, LookedUp
<1>5. walk = <<>> /\ Len(walk) = 0
  BY EmptySeq DEF ViewInit
<1>6. Walking /\ Descending
  BY <1>5 DEF Walking, Descending
<1>7. FailsOnlyUponVoid
  BY DEF ViewInit, FailsOnlyUponVoid
<1> QED
  BY <1>1, <1>2, <1>3, <1>4, <1>6, <1>7 DEF VInv

(* Without a call of Print in progress there is little to show. *)
LEMMA NotPrinting ==
  ASSUME walk' = <<>>, outcome' \in {"none", "printed"}
  PROVE  Walking' /\ Descending' /\ FailsOnlyUponVoid'
<1>1. Len(walk') = 0
  BY EmptySeq
<1> QED
  BY <1>1 DEF Walking, Descending, FailsOnlyUponVoid

LEMMA ReflectKeeps ==
  ASSUME VInv, NEW t \in Types, Reflect(t)
  PROVE  VInv'
<1>1. /\ ReflectID(t) /\ asked' = t /\ Forget /\ UNCHANGED <<view, walk>>
      /\ walk = <<>> /\ asked = NoType
  BY DEF Reflect, Idle
<1>2. Next
  BY <1>1 DEF Next
<1>3. IInv' /\ BuiltComplete'
  BY <1>2, IInvStep, BuiltCompleteStep DEF VInv
<1>4. ViewTypes' /\ LookedUp'
  BY <1>1 DEF VInv, ViewTypes, LookedUp, Forget
<1>5. Asking'
  <2>1. \/ stack' # <<>> /\ stack'[1].type = t
        \/ /\ stack' = <<>> /\ answer'.error = "None"
           /\ cached'[t] # 0 /\ answer'.id = cached'[t]
    BY <1>1, AskedOrAnswered DEF VInv
  <2> QED
    BY <1>1, <2>1, NoTypeAssumption DEF Asking, Forget
<1>6. Held'
  BY <1>1 DEF ReflectID, Held, VInv
<1>7. Walking' /\ Descending' /\ FailsOnlyUponVoid'
  BY <1>1, NotPrinting DEF Forget
<1> QED
  BY <1>3, <1>4, <1>5, <1>6, <1>7 DEF VInv

LEMMA RegisteringKeeps ==
  ASSUME VInv, Registering
  PROVE  VInv'
<1>1. /\ asked # NoType /\ Step
      /\ UNCHANGED <<asked, view, walk, out, outcome, found>>
  BY DEF Registering, viewVars
<1>2. Next /\ Busy
  BY <1>1 DEF Next, Step, RegisterType, ReflectInner, FinishCreate, CreateThrows, Emplace, EmplaceThrows
<1>3. IInv' /\ BuiltComplete'
  BY <1>2, IInvStep, BuiltCompleteStep DEF VInv
<1>4. ViewTypes' /\ LookedUp'
  <2>1. Members' = Members /\ Literals' = Literals
    OBVIOUS
  <2> QED
    BY <1>1 DEF VInv, ViewTypes, LookedUp, Looked, Hit, Matches
<1>5. walk = <<>> /\ found = Nothing /\ stack # <<>> /\ stack[1].type = asked
  BY <1>1, <1>2 DEF VInv, Asking, Busy
<1>6. Asking'
  <2>1. \/ stack' # <<>> /\ stack'[1].type = asked
        \/ /\ stack' = <<>> /\ answer'.error = "None"
           /\ cached'[asked] # 0 /\ answer'.id = cached'[asked]
        \/ stack' = <<>> /\ answer'.error # "None"
    BY <1>2, <1>5, AnsweredOrPending DEF VInv
  <2> QED
    BY <1>1, <1>5, <2>1 DEF Asking, Nothing
<1>7. Held'
  <2>1. ASSUME view \in Types PROVE cached'[view] # 0
    BY <1>2, <2>1, IdsStay DEF VInv, Held
  <2> QED
    BY <1>1, <2>1 DEF Held
<1>8. Walking' /\ Descending'
  <2>1. Len(walk') = 0 /\ walk' = <<>>
    BY <1>1, <1>5, EmptySeq
  <2> QED
    BY <2>1 DEF Walking, Descending
<1>9. FailsOnlyUponVoid'
  <2>1. build' = build
    BY <1>1 DEF Step, RegisterType, ReflectInner, FinishCreate, CreateThrows, Emplace, EmplaceThrows
  <2> QED
    BY <1>1, <1>5, <2>1 DEF VInv, FailsOnlyUponVoid
<1> QED
  BY <1>3, <1>4, <1>6, <1>7, <1>8, <1>9 DEF VInv

(* value() in TypeInstance<T>::Type() does not fail: the id resolves.      *)
LEMMA FinishReflectKeeps ==
  ASSUME VInv, FinishReflect
  PROVE  VInv'
<1>1. /\ asked # NoType /\ stack = <<>> /\ status = "running" /\ asked' = NoType
      /\ UNCHANGED <<types, cached, built, inners, stack, build, answer, walk, out, found>>
  BY DEF FinishReflect
<1>2. walk = <<>> /\ found = Nothing /\ asked \in Types
  BY <1>1 DEF VInv, Asking, ViewTypes
<1>3. \/ UNCHANGED <<view, status, outcome>>
      \/ view' = asked /\ cached[asked] # 0 /\ UNCHANGED <<status, outcome>>
  <2>1. CASE answer.error # "None"
    BY <2>1 DEF FinishReflect
  <2>2. CASE answer.error = "None"
    <3>1. cached[asked] # 0 /\ answer.id = cached[asked]
      BY <1>1, <2>2 DEF VInv, Asking
    <3>2. GetType(answer.id) = asked
      BY <1>2, <3>1, OwnID DEF VInv
    <3> QED
      BY <1>2, <2>2, <3>1, <3>2 DEF FinishReflect
  <2> QED
    BY <2>1, <2>2
<1>4. IInv' /\ BuiltComplete'
  BY <1>1, <1>3, StatusMayChange DEF VInv, BuiltComplete
<1>5. ViewTypes' /\ Asking' /\ LookedUp'
  BY <1>1, <1>2, <1>3 DEF VInv, ViewTypes, Asking, LookedUp
<1>6. Held'
  BY <1>1, <1>3 DEF VInv, Held
<1>7. Walking' /\ Descending'
  <2>1. Len(walk') = 0 /\ walk' = <<>>
    BY <1>1, <1>2, EmptySeq
  <2> QED
    BY <2>1 DEF Walking, Descending
<1>8. FailsOnlyUponVoid'
  BY <1>1, <1>2, <1>3 DEF VInv, FailsOnlyUponVoid
<1> QED
  BY <1>4, <1>5, <1>6, <1>7, <1>8 DEF VInv

(* What the program does without the registry, other than printing. *)
LEMMA IdleKeeps ==
  ASSUME VInv, ReflectVoid \/ GetInner \/ \E l \in Literals, layout \in Layouts : LookUp(l, layout)
  PROVE  VInv'
<1>1. /\ UNCHANGED <<types, cached, built, inners, stack, status, build, answer>>
      /\ UNCHANGED <<asked, walk>>
      /\ stack = <<>> /\ asked = NoType /\ walk = <<>> /\ outcome' = "none"
  BY DEF ReflectVoid, GetInner, LookUp, Idle, Forget, vars
<1>2. IInv' /\ BuiltComplete'
  BY <1>1, StatusMayChange DEF VInv, BuiltComplete
<1>3. Asking'
  BY <1>1 DEF Asking
<1>4. Walking' /\ Descending' /\ FailsOnlyUponVoid'
  BY <1>1, NotPrinting
<1>5. CASE ReflectVoid
  <2>1. view' = Void /\ found' = Nothing
    BY <1>5 DEF ReflectVoid, Forget
  <2>2. Held' /\ ViewTypes' /\ LookedUp'
    BY <1>1, <2>1, TypesAssumption DEF VInv, Held, ViewTypes, LookedUp
  <2> QED
    BY <1>2, <1>3, <1>4, <2>2 DEF VInv
<1>6. CASE GetInner
  <2>1. PICK k \in DOMAIN inners[view] :
          GetType(inners[view][k]) \in Types /\ view' = GetType(inners[view][k])
    BY <1>6 DEF GetInner
  <2>2. view \in Types /\ found' = Nothing
    BY <1>6 DEF GetInner, Forget
  <2>3. inners[view] \in Seq(TypeIDs)
    BY <2>2 DEF VInv, IInv, TypeOK
  <2>4. inners[view][k] \in TypeIDs
    BY <2>1, <2>3, ElementOfSeq, LenProperties
  <2>5. /\ inners[view][k] \in 1 .. Len(types)
        /\ cached[view'] = inners[view][k]
    BY <2>1, <2>4, ResolvedType DEF VInv
  <2>6. cached[view'] # 0
    BY <2>5, LenProperties DEF VInv, IInv, TypeOK
  <2>7. Held' /\ ViewTypes' /\ LookedUp'
    BY <1>1, <2>1, <2>2, <2>6 DEF VInv, Held, ViewTypes, LookedUp
  <2> QED
    BY <1>2, <1>3, <1>4, <2>7 DEF VInv
<1>7. CASE \E l \in Literals, layout \in Layouts : LookUp(l, layout)
  <2>1. PICK l \in Literals, layout \in Layouts : LookUp(l, layout)
    BY <1>7
  <2>2. view # NoType /\ view' = view /\ found' = Looked(l, layout)
    BY <2>1 DEF LookUp
  <2>3. Held' /\ ViewTypes'
    BY <1>1, <2>2 DEF VInv, Held, ViewTypes
  <2>4. Matches(l, layout)' = Matches(l, layout)
    BY <2>2 DEF Matches
  <2>5. Looked(l, layout)' = Looked(l, layout)
    BY <2>4 DEF Looked, Hit
  <2>6. LookedUp'
    BY <2>2, <2>5 DEF VInv, ViewTypes, LookedUp
  <2> QED
    BY <1>2, <1>3, <1>4, <2>3, <2>6 DEF VInv
<1> QED
  BY <1>5, <1>6, <1>7

-----------------------------------------------------------------------------
(* Printing. *)

(* The call of Print that runs, and what it prints. *)
LEMMA PrinterCall ==
  ASSUME ViewTypes, Walking, walk # <<>>
  PROVE  /\ Len(walk) \in Nat \ {0}
         /\ walk \in Seq(Calls)
         /\ Printer \in Calls
         /\ Printer.type \in Types \cup {Void}
         /\ Printer.type \in Types => cached[Printer.type] # 0
<1>1. walk \in Seq(Calls) /\ Len(walk) \in Nat \ {0}
  BY EmptySeq, LenProperties DEF ViewTypes
<1>2. Printer \in Calls
  BY <1>1, ElementOfSeq DEF Printer
<1> QED
  BY <1>1, <1>2 DEF Printer, Calls, Walking

(* The calls that remain when the innermost one returns. *)
LEMMA Remaining ==
  ASSUME walk \in Seq(Calls), walk # <<>>, walk' = SubSeq(walk, 1, Len(walk) - 1)
  PROVE  /\ Len(walk) \in Nat \ {0}
         /\ walk' \in Seq(Calls)
         /\ Len(walk') = Len(walk) - 1
         /\ \A i \in 1 .. Len(walk) - 1 : walk'[i] = walk[i]
         /\ Len(walk) = 1 <=> walk' = <<>>
<1>1. Len(walk) \in Nat \ {0}
  BY EmptySeq
<1> DEFINE n == Len(walk) - 1
<1>2. n \in Nat
  BY <1>1
<1>3. \A i \in 1 .. n : walk[i] \in Calls
  BY <1>1, ElementOfSeq
<1> HIDE DEF n
<1>4. /\ SubSeq(walk, 1, n) \in Seq(Calls)
      /\ Len(SubSeq(walk, 1, n)) = IF 1 <= n THEN n - 1 + 1 ELSE 0
      /\ \A i \in 1 .. n - 1 + 1 : SubSeq(walk, 1, n)[i] = walk[1 + i - 1]
  BY <1>2, <1>3, SubSeqProperties
<1>5. Len(SubSeq(walk, 1, n)) = n
  BY <1>2, <1>4
<1>6. ASSUME NEW i \in 1 .. n PROVE SubSeq(walk, 1, n)[i] = walk[i]
  BY <1>2, <1>4
<1>7. n = 0 <=> SubSeq(walk, 1, n) = <<>>
  BY <1>4, <1>5, EmptySeq
<1> QED
  BY <1>1, <1>4, <1>5, <1>6, <1>7 DEF n

(* The calls when the innermost one calls another: it will go on after it. *)
LEMMA Called ==
  ASSUME walk \in Seq(Calls), walk # <<>>, NEW call \in Calls,
         walk' = Append([walk EXCEPT ![Len(walk)].pc = "leave"], call)
  PROVE  /\ Len(walk) \in Nat \ {0}
         /\ walk' \in Seq(Calls)
         /\ Len(walk') = Len(walk) + 1
         /\ \A i \in 1 .. Len(walk) : walk'[i].type = walk[i].type
         /\ \A i \in 1 .. Len(walk) - 1 : walk'[i] = walk[i]
         /\ walk'[Len(walk)].pc = "leave"
         /\ walk'[Len(walk) + 1] = call
<1> DEFINE n == Len(walk)
           again == [walk[n] EXCEPT !.pc = "leave"]
           resumed == [walk EXCEPT ![n] = again]
<1>1. n \in Nat \ {0} /\ n \in 1 .. n
  BY EmptySeq
<1>2. again \in Calls /\ again.type = walk[n].type /\ again.pc = "leave"
  <2>1. walk[n] \in Calls
    BY <1>1, ElementOfSeq
  <2> QED
    BY <2>1 DEF Calls
<1>3. walk' = Append(resumed, call)
  OBVIOUS
<1> HIDE DEF again
<1>4. /\ resumed \in Seq(Calls) /\ Len(resumed) = n
      /\ \A i \in 1 .. n : resumed[i] = IF i = n THEN again ELSE walk[i]
  BY <1>1, <1>2, ExceptSeq
<1> HIDE DEF resumed
<1>5. /\ Append(resumed, call) \in Seq(Calls)
      /\ Len(Append(resumed, call)) = Len(resumed) + 1
      /\ \A i \in 1 .. Len(resumed) : Append(resumed, call)[i] = resumed[i]
      /\ Append(resumed, call)[Len(resumed) + 1] = call
  BY <1>4, AppendProperties
<1>6. /\ walk' \in Seq(Calls)
      /\ Len(walk') = n + 1
      /\ \A i \in 1 .. n : walk'[i] = resumed[i]
      /\ walk'[n + 1] = call
  BY <1>3, <1>4, <1>5
<1>7. \A i \in 1 .. n - 1 : i \in 1 .. n /\ i # n
  BY <1>1
<1> QED
  BY <1>1, <1>2, <1>4, <1>6, <1>7

(* What printing leaves alone. *)
LEMMA PrintingKeeps ==
  ASSUME VInv, walk # <<>>,
         UNCHANGED <<types, cached, built, inners, stack, build, answer, asked, view, found>>,
         status' = status \/ status' = "aborted",
         walk' \in Seq(Calls),
         outcome' \in {"none", "printed", "overflow", "undefined"},
         Walking', Descending', FailsOnlyUponVoid'
  PROVE  VInv'
<1>1. IInv' /\ BuiltComplete'
  BY StatusMayChange DEF VInv, BuiltComplete
<1>2. asked = NoType /\ stack = <<>>
  BY DEF VInv, Asking
<1>3. Asking' /\ Held' /\ ViewTypes'
  BY <1>2 DEF VInv, Asking, Held, ViewTypes
<1>4. LookedUp'
  <2>1. \A l, layout : Matches(l, layout)' = Matches(l, layout)
    BY DEF Matches
  <2>2. ASSUME NEW l, NEW layout PROVE Looked(l, layout)' = Looked(l, layout)
    <3>1. Matches(l, layout)' = Matches(l, layout)
      BY <2>1
    <3> QED
      BY <3>1 DEF Looked, Hit
  <2> QED
    BY <2>2 DEF VInv, LookedUp
<1> QED
  BY <1>1, <1>3, <1>4 DEF VInv

LEMMA PrintKeeps ==
  ASSUME VInv, PrintView
  PROVE  VInv'
<1>1. /\ UNCHANGED <<types, cached, built, inners, stack, status, build, answer>>
      /\ UNCHANGED <<asked, view>>
      /\ stack = <<>> /\ asked = NoType /\ status = "running"
      /\ walk' = <<Enter(view)>> /\ outcome' = "none" /\ found' = Nothing
      /\ view \in Types \cup {Void}
  BY DEF PrintView, Idle, Forget, vars, VInv, ViewTypes
<1>2. IInv' /\ BuiltComplete'
  BY <1>1, StatusMayChange DEF VInv, BuiltComplete
<1>3. Enter(view) \in Calls /\ Enter(view).type = view
  BY <1>1 DEF Enter, Calls
<1> HIDE DEF Enter
<1>4. walk' \in Seq(Calls) /\ Len(walk') = 1 /\ walk'[1] = Enter(view)
  BY <1>1, <1>3
<1>5. ViewTypes' /\ Asking' /\ Held' /\ LookedUp'
  BY <1>1, <1>4 DEF VInv, ViewTypes, Asking, Held, LookedUp
<1>6. Walking'
  BY <1>1, <1>3, <1>4 DEF VInv, Held, Walking
<1>7. Descending'
  <2>1. ASSUME view \in Types PROVE cached[view] + 1 <= Len(types) + 1
    <3>1. cached[view] \in 1 .. Len(types) /\ Len(types) \in Nat
      BY <2>1, OwnID, EntriesFit DEF VInv, Held
    <3> QED
      BY <3>1
  <2> QED
    BY <1>1, <1>3, <1>4, <2>1 DEF Descending
<1>8. FailsOnlyUponVoid'
  BY <1>1 DEF FailsOnlyUponVoid
<1> QED
  BY <1>2, <1>5, <1>6, <1>7, <1>8 DEF VInv

(* A Print that returns leaves the calls outside it as they are. *)
LEMMA ReturnKeeps ==
  ASSUME VInv, Printing, PrintReturn,
         UNCHANGED <<types, cached, built, inners, stack, build, answer, asked, view, found>>
  PROVE  VInv'
<1>1. /\ Len(walk) \in Nat \ {0} /\ walk \in Seq(Calls) /\ walk # <<>>
      /\ status' = status /\ status = "running" /\ outcome = "none"
      /\ walk' = SubSeq(walk, 1, Len(walk) - 1)
      /\ outcome' \in {"none", "printed"}
  BY PrinterCall DEF Printing, PrintReturn, VInv
<1>2. /\ walk' \in Seq(Calls)
      /\ Len(walk') = Len(walk) - 1
      /\ \A i \in 1 .. Len(walk) - 1 : walk'[i] = walk[i]
  BY <1>1, Remaining
<1>3. Walking'
  <2>1. walk' # <<>> => 1 \in 1 .. Len(walk) - 1
    BY <1>1, <1>2, EmptySeq
  <2>2. \A i \in 1 .. Len(walk') : i \in 1 .. Len(walk)
    BY <1>1, <1>2
  <2>3. \A i \in 1 .. Len(walk') - 1 : i \in 1 .. Len(walk) - 1 /\ i + 1 \in 1 .. Len(walk) - 1
    BY <1>1, <1>2
  <2>4. Walking
    BY DEF VInv
  <2> QED
    BY <1>1, <1>2, <2>1, <2>2, <2>3, <2>4 DEF Walking
<1>4. Descending'
  <2>1. \A i \in 1 .. Len(walk') : i \in 1 .. Len(walk)
    BY <1>1, <1>2
  <2>2. \A i \in 1 .. Len(walk') - 1 : i \in 1 .. Len(walk) - 1 /\ i + 1 \in 1 .. Len(walk) - 1
    BY <1>1, <1>2
  <2>3. Descending
    BY DEF VInv
  <2> QED
    BY <1>2, <2>1, <2>2, <2>3 DEF Descending
<1>5. FailsOnlyUponVoid'
  BY <1>1 DEF FailsOnlyUponVoid
<1> QED
  BY <1>1, <1>2, <1>3, <1>4, <1>5, PrintingKeeps

(* With checked results the lookup of an inner type fails only when that   *)
(* is void, and otherwise yields the type the initialiser has named.       *)
LEMMA InnerWithChecks ==
  ASSUME VInv, build = "debug", NEW t \in Types, cached[t] # 0, Compound(t)
  PROVE  /\ InnerOf(t) \notin Types => Deps[t][1] = Void
         /\ InnerOf(t) \in Types =>
              InnerOf(t) = Deps[t][1] /\ cached[InnerOf(t)] < cached[t]
<1> DEFINE id == inners[t][1]
           u  == Deps[t][1]
<1>1. /\ id \in TypeIDs /\ u \in Types \cup {Void}
      /\ ResolvesTo(cached, id, u) /\ id < cached[t]
      /\ InnerOf(t) = GetType(id)
  BY FirstInner DEF VInv, InnerOf
<1> HIDE DEF id
<1>2. CASE u = Void
  <2>1. id = 0
    BY <1>1, <1>2 DEF ResolvesTo
  <2>2. InnerOf(t) \notin Types
    BY <1>1, <2>1, NoTypeAssumption DEF GetType
  <2> QED
    BY <1>2, <2>2
<1>3. CASE u # Void
  <2>1. u \in Types /\ id # 0 /\ id = cached[u]
    BY <1>1, <1>3 DEF ResolvesTo
  <2>2. InnerOf(t) = u
    BY <1>1, <2>1, OwnID DEF VInv
  <2> QED
    BY <1>1, <2>1, <2>2
<1> QED
  BY <1>2, <1>3

(* The calls of Print so far are the layers that have been taken off.      *)
LEMMA CallsAreLayers ==
  ASSUME VInv, build = "debug", Printing, Compound(Printer.type), Printer.type \in Types,
         Deps[Printer.type][1] = Void
  PROVE  UponVoid(view)
<1>1. /\ Len(walk) \in Nat \ {0} /\ walk \in Seq(Calls) /\ walk # <<>>
      /\ Printer = walk[Len(walk)]
      /\ Walking /\ Descending
  BY PrinterCall DEF VInv, Printing, Printer
<1>2. Len(walk) <= Cardinality(Types) /\ Cardinality(Types) \in Nat
  <2>1. cached[Printer.type] # 0 /\ cached[Printer.type] + Len(walk) <= Len(types) + 1
    BY <1>1 DEF Walking, Descending
  <2>2. cached[Printer.type] \in 1 .. Len(types)
    BY <2>1, OwnID DEF VInv
  <2>3. Len(types) \in Nat /\ Len(types) <= Cardinality(Types)
    BY EntriesFit DEF VInv
  <2>4. Cardinality(Types) \in Nat
    BY TypesAssumption, FS_CardinalityType
  <2> QED
    BY <1>1, <2>1, <2>2, <2>3, <2>4
<1>3. \A i \in 1 .. Len(walk) : Compound(walk[i].type) /\ walk[i].type \in Types
  <2>1. ASSUME NEW i \in 1 .. Len(walk) PROVE Compound(walk[i].type)
    BY <1>1 DEF Walking
  <2>2. \A i \in 1 .. Len(walk) : walk[i] \in Calls
    BY <1>1, ElementOfSeq
  <2> QED
    BY <2>1, <2>2 DEF Compound, Calls
<1>4. \A i \in 1 .. Len(walk) - 1 : Deps[walk[i].type][1] = walk[i + 1].type
  BY <1>1 DEF Descending
<1>5. walk[1].type = view
  BY <1>1 DEF Walking
<1> DEFINE n     == Len(walk)
           chain == [i \in 1 .. n |-> walk[i].type]
<1>6. n \in 1 .. Cardinality(Types) /\ chain \in [1 .. n -> Types]
  BY <1>1, <1>2, <1>3
<1>7. /\ chain[1] = view
      /\ \A i \in 1 .. n : Compound(chain[i])
      /\ \A i \in 1 .. n - 1 : Deps[chain[i]][1] = chain[i + 1]
      /\ Deps[chain[n]][1] = Void
  BY <1>1, <1>3, <1>4, <1>5
<1> QED
  BY <1>6, <1>7 DEF UponVoid

(* A print that fails leaves the calls on the stack; with checked results  *)
(* it is one of a type built upon void, or the call stack is exhausted,    *)
(* which descending ids exclude.                                           *)
LEMMA StoppedKeeps ==
  ASSUME VInv, Printing, walk' = walk,
         UNCHANGED <<types, cached, built, inners, stack, build, answer, asked, view, found>>,
         status' = status \/ status' = "aborted",
         outcome' \in {"none", "overflow", "undefined"},
         build = "debug" => UponVoid(view) /\ outcome' = "none"
  PROVE  VInv'
<1>1. walk # <<>> /\ walk \in Seq(Calls) /\ Walking /\ Descending
  BY DEF VInv, ViewTypes, Printing
<1>2. Walking' /\ Descending'
  BY <1>1 DEF Walking, Descending
<1>3. FailsOnlyUponVoid'
  <2>1. UponVoid(view)' = UponVoid(view)
    BY DEF UponVoid
  <2> QED
    BY <2>1 DEF FailsOnlyUponVoid
<1> QED
  BY <1>1, <1>2, <1>3, PrintingKeeps

(* The printer of a compound type calls that of its inner type. *)
LEMMA CallKeeps ==
  ASSUME VInv, Printing, Compound(Printer.type), InnerOf(Printer.type) \in Types,
         walk' = Append([walk EXCEPT ![Len(walk)].pc = "leave"], Enter(InnerOf(Printer.type))),
         UNCHANGED <<types, cached, built, inners, stack, build, answer, asked, view, found>>,
         UNCHANGED <<status, outcome>>
  PROVE  VInv'
<1> DEFINE n == Len(walk)
           t == Printer.type
           u == InnerOf(t)
<1>1. /\ n \in Nat \ {0} /\ walk \in Seq(Calls) /\ walk # <<>>
      /\ Printer = walk[n] /\ Printer \in Calls
      /\ Walking /\ Descending
      /\ status = "running" /\ outcome = "none"
  BY PrinterCall DEF VInv, Printing, Printer
<1>2. t \in Types /\ cached[t] # 0
  <2>1. t \in Types
    BY <1>1 DEF Calls, Compound
  <2> QED
    BY <1>1, <2>1, PrinterCall DEF VInv
<1>3. inners[t][1] \in TypeIDs /\ u = GetType(inners[t][1])
  BY <1>2, FirstInner DEF VInv, InnerOf
<1>4. u \in Types /\ cached[u] # 0 /\ cached[u] \in Nat /\ cached[t] \in Nat
  <2>1. cached[u] = inners[t][1] /\ inners[t][1] \in 1 .. Len(types)
    BY <1>3, ResolvedType DEF VInv
  <2>2. cached[t] \in 1 .. Len(types)
    BY <1>2, OwnID DEF VInv
  <2> QED
    BY <2>1, <2>2
<1>6. Enter(u) \in Calls /\ Enter(u).type = u
  BY <1>4 DEF Enter, Calls
<1> HIDE DEF u
<1>7. /\ walk' \in Seq(Calls)
      /\ Len(walk') = n + 1
      /\ \A i \in 1 .. n : walk'[i].type = walk[i].type
      /\ walk'[n + 1].type = u
  <2> DEFINE call == Enter(u)
  <2>1. walk' = Append([walk EXCEPT ![Len(walk)].pc = "leave"], call)
    BY DEF u
  <2>2. call \in Calls /\ call.type = u
    BY <1>6
  <2> HIDE DEF call
  <2> QED
    BY <1>1, <2>1, <2>2, Called
<1> HIDE DEF t
<1>8. n \in Nat \ {0} /\ walk[n].type = t /\ Compound(t)
  BY <1>1 DEF t
<1>9. \A i \in 1 .. n + 1 : i \in 1 .. n \/ i = n + 1
  BY <1>8
<1>10. \A i \in 1 .. n : (i \in 1 .. n - 1 /\ i + 1 \in 1 .. n) \/ (i = n /\ i + 1 = n + 1)
  BY <1>8
<1> HIDE DEF n
<1>11. Walking'
  <2>1. walk' # <<>> => walk'[1].type = view'
    BY <1>1, <1>7, <1>8 DEF Walking
  <2>2. \A i \in 1 .. n + 1 : walk'[i].type \in Types => cached'[walk'[i].type] # 0
    BY <1>1, <1>4, <1>7, <1>9 DEF Walking, n
  <2>3. ASSUME NEW i \in 1 .. n PROVE Compound(walk'[i].type) /\ walk'[i + 1].type \in Types
    <3>1. CASE i \in 1 .. n - 1 /\ i + 1 \in 1 .. n
      BY <1>1, <1>7, <3>1 DEF Walking, n
    <3>2. CASE i = n
      BY <1>4, <1>7, <1>8, <3>2
    <3> QED
      BY <1>10, <3>1, <3>2
  <2>4. Len(walk') - 1 = n
    BY <1>7, <1>8
  <2> QED
    BY <1>7, <2>1, <2>2, <2>3, <2>4 DEF Walking
<1>12. Descending'
  <2> SUFFICES ASSUME build = "debug" PROVE Descending'
    BY DEF Descending
  <2>1. Deps[t][1] = u /\ cached[u] < cached[t]
    BY <1>2, <1>4, <1>8, InnerWithChecks DEF u
  <2>2. ASSUME NEW i \in 1 .. n
        PROVE  /\ Deps[walk'[i].type][1] = walk'[i + 1].type
               /\ cached[walk'[i + 1].type] < cached[walk'[i].type]
    <3>1. CASE i \in 1 .. n - 1 /\ i + 1 \in 1 .. n
      BY <1>1, <1>7, <3>1 DEF Descending, n
    <3>2. CASE i = n
      BY <1>7, <1>8, <2>1, <3>2
    <3> QED
      BY <1>10, <3>1, <3>2
  <2>3. cached[u] + (n + 1) <= Len(types) + 1
    <3>1. cached[t] + n <= Len(types) + 1
      BY <1>1, <1>2, <1>8 DEF Descending, n
    <3>2. Len(types) \in Nat
      BY EntriesFit DEF VInv
    <3> QED
      BY <1>4, <1>8, <2>1, <3>1, <3>2
  <2>4. \A i \in 1 .. n + 1 :
          walk'[i].type \in Types => cached[walk'[i].type] + i <= Len(types) + 1
    BY <1>1, <1>7, <1>9, <2>3 DEF Descending, n
  <2>5. Len(walk') - 1 = n
    BY <1>7, <1>8
  <2> QED
    BY <1>7, <2>2, <2>4, <2>5 DEF Descending
<1>13. FailsOnlyUponVoid'
  BY <1>1 DEF FailsOnlyUponVoid
<1> QED
  BY <1>1, <1>7, <1>11, <1>12, <1>13, PrintingKeeps

(* With checked results there is a free place for every call of Print. *)
LEMMA NeverOverflows ==
  ASSUME VInv, build = "debug", Printing, Compound(Printer.type),
         InnerOf(Printer.type) \in Types, Len(walk) = StackLimit
  PROVE  FALSE
<1> DEFINE t == Printer.type
<1>1. Len(walk) \in Nat \ {0} /\ t = walk[Len(walk)].type /\ t \in Types /\ cached[t] # 0
  <2>1. Len(walk) \in Nat \ {0} /\ t = walk[Len(walk)].type /\ t \in Types \cup {Void}
    BY PrinterCall DEF VInv, Printing, Printer
  <2> QED
    BY <2>1, PrinterCall DEF VInv, Printing, Compound
<1>2. cached[InnerOf(t)] < cached[t]
  BY <1>1, InnerWithChecks
<1>3. cached[InnerOf(t)] \in Nat /\ cached[InnerOf(t)] # 0 /\ cached[t] \in Nat
  <2>1. inners[t][1] \in TypeIDs /\ InnerOf(t) = GetType(inners[t][1])
    BY <1>1, FirstInner DEF VInv, InnerOf
  <2>2. cached[InnerOf(t)] \in 1 .. Len(types)
    BY <2>1, ResolvedType DEF VInv
  <2>3. cached[t] \in 1 .. Len(types)
    BY <1>1, OwnID DEF VInv
  <2> QED
    BY <2>2, <2>3
<1>4. cached[t] + Len(walk) <= Len(types) + 1
  BY <1>1 DEF VInv, Descending
<1>5. Len(types) \in Nat /\ Len(types) <= Cardinality(Types) /\ Cardinality(Types) \in Nat
  BY EntriesFit, TypesAssumption, FS_CardinalityType DEF VInv
<1> HIDE DEF t
<1> QED
  BY <1>1, <1>2, <1>3, <1>4, <1>5, StackAssumption

LEMMA PrintInnerKeeps ==
  ASSUME VInv, PrintInner
  PROVE  VInv'
<1> DEFINE t == Printer.type
<1>1. /\ Printing /\ Compound(t) /\ walk # <<>>
      /\ status = "running" /\ outcome = "none"
      /\ UNCHANGED <<types, cached, built, inners, stack, build, answer, asked, view, found>>
  BY DEF PrintInner, Printing
<1>2. t \in Types /\ cached[t] # 0 /\ build \in {"debug", "release"}
  BY <1>1, PrinterCall DEF Compound, VInv, IInv, TypeOK
<1>3. CASE InnerOf(t) \notin Types /\ ValueOfFailure /\ UNCHANGED walk
  <2>1. build = "debug" => UponVoid(view)
    BY <1>1, <1>2, <1>3, InnerWithChecks, CallsAreLayers
  <2>2. /\ status' = status \/ status' = "aborted"
        /\ outcome' \in {"none", "overflow", "undefined"}
        /\ build = "debug" => outcome' = "none"
    BY <1>1, <1>3 DEF ValueOfFailure
  <2> QED
    BY <1>1, <1>3, <2>1, <2>2, StoppedKeeps
<1>4. CASE /\ InnerOf(t) \in Types
           /\ walk' = Append([walk EXCEPT ![Len(walk)].pc = "leave"], Enter(InnerOf(t)))
           /\ UNCHANGED <<status, outcome>>
  BY <1>1, <1>4, CallKeeps
<1>5. CASE /\ InnerOf(t) \in Types /\ Len(walk) = StackLimit
           /\ status' = "aborted" /\ outcome' = "overflow" /\ UNCHANGED walk
  <2>1. build # "debug"
    BY <1>1, <1>5, NeverOverflows
  <2> QED
    BY <1>1, <1>5, <2>1, StoppedKeeps
<1> QED
  BY <1>3, <1>4, <1>5 DEF PrintInner

(* Every step keeps the invariant. *)
LEMMA VInvStep == VInv /\ [ViewNext]_allVars => VInv'
<1> SUFFICES ASSUME VInv, [ViewNext]_allVars PROVE VInv'
  OBVIOUS
<1>1. CASE \E t \in Types : Reflect(t)
  BY <1>1, ReflectKeeps
<1>2. CASE Registering
  BY <1>2, RegisteringKeeps
<1>3. CASE FinishReflect
  BY <1>3, FinishReflectKeeps
<1>4. CASE ReflectVoid \/ GetInner \/ \E l \in Literals, layout \in Layouts : LookUp(l, layout)
  BY <1>4, IdleKeeps
<1>5. CASE PrintView
  BY <1>5, PrintKeeps
<1>6. CASE PrintName
  BY <1>6, ReturnKeeps DEF PrintName
<1>7. CASE PrintInner
  BY <1>7, PrintInnerKeeps
<1>8. CASE PrintAfter
  BY <1>8, ReturnKeeps DEF PrintAfter
<1>9. CASE UNCHANGED allVars
  <2>1. /\ UNCHANGED <<types, cached, built, inners, stack, status, build, answer>>
        /\ UNCHANGED <<asked, view, walk, out, outcome, found>>
    BY <1>9 DEF allVars, vars, viewVars
  <2>2. IInv' /\ BuiltComplete'
    BY <2>1, StatusMayChange DEF VInv, BuiltComplete
  <2>3. ViewTypes' /\ Asking' /\ Held'
    BY <2>1 DEF VInv, ViewTypes, Asking, Held
  <2>4. Walking' /\ Descending'
    BY <2>1 DEF VInv, Walking, Descending
  <2>5. FailsOnlyUponVoid'
    BY <2>1 DEF VInv, FailsOnlyUponVoid, UponVoid
  <2>6. LookedUp'
    <3>1. ASSUME NEW l, NEW layout PROVE Looked(l, layout)' = Looked(l, layout)
      <4>1. Matches(l, layout)' = Matches(l, layout)
        BY <2>1 DEF Matches
      <4> QED
        BY <4>1 DEF Looked, Hit
    <3> QED
      BY <2>1, <3>1 DEF VInv, LookedUp
  <2> QED
    BY <2>2, <2>3, <2>4, <2>5, <2>6 DEF VInv
<1> QED
  BY <1>1, <1>2, <1>3, <1>4, <1>5, <1>6, <1>7, <1>8, <1>9 DEF ViewNext, PrintStep, Ended

THEOREM ViewInductive == ViewSpec => []VInv
<1>1. ViewInit => VInv
  BY VInvInit
<1>2. VInv /\ [ViewNext]_allVars => VInv'
  BY VInvStep
<1> QED
  BY <1>1, <1>2, PTL DEF ViewSpec

-----------------------------------------------------------------------------
(* The theorems. *)

(* What an answered id and a held Type& stand for never changes, and the   *)
(* value() in TypeInstance<T>::Type() cannot fail.                         *)
THEOREM ViewsResolve == ViewSpec => []ViewResolves
<1>1. VInv => ViewResolves
  <2> SUFFICES ASSUME VInv PROVE ViewResolves
    OBVIOUS
  <2>1. ASSUME asked # NoType, stack = <<>>, status = "running", answer.error = "None"
        PROVE  GetType(answer.id) = asked
    <3>1. asked \in Types /\ cached[asked] # 0 /\ answer.id = cached[asked]
      BY <2>1 DEF VInv, ViewTypes, Asking
    <3> QED
      BY <3>1, OwnID DEF VInv
  <2>2. ASSUME view \in Types PROVE GetType(cached[view]) = view
    BY <2>2, OwnID DEF VInv, Held
  <2> QED
    BY <2>1, <2>2 DEF ViewResolves
<1> QED
  BY <1>1, ViewInductive, PTL

(* With checked results every printer calls that of a type with a smaller  *)
(* id, however the types refer to each other.                              *)
THEOREM WalksDescend == ViewSpec => []WalkDescends
<1>1. VInv => WalkDescends
  BY DEF VInv, Descending, WalkDescends
<1> QED
  BY <1>1, ViewInductive, PTL

(* The unchecked index 0 of a printer is in range in both builds. *)
THEOREM InnersExist == ViewSpec => []InnerExists
<1>1. VInv => InnerExists
  <2> SUFFICES ASSUME VInv, NEW i \in 1 .. Len(walk), Compound(walk[i].type)
               PROVE  inners[walk[i].type] # <<>>
    BY DEF InnerExists
  <2>1. walk[i].type \in Types
    <3>1. walk[i] \in Calls
      BY ElementOfSeq DEF VInv, ViewTypes
    <3> QED
      BY <3>1 DEF Calls, Compound
  <2>2. cached[walk[i].type] # 0
    BY <2>1 DEF VInv, Walking
  <2> QED
    BY <2>1, <2>2, FirstInner DEF VInv
<1> QED
  BY <1>1, ViewInductive, PTL

(* With checked results printing fails only for a type built upon void; it *)
(* does not run out of stack, whatever types a program has.                *)
THEOREM PrintsFailOnlyUponVoid == ViewSpec => []FailsOnlyUponVoid
<1>1. VInv => FailsOnlyUponVoid
  BY DEF VInv
<1> QED
  BY <1>1, ViewInductive, PTL

(* A set of positions that is not empty has a first one. *)
LEMMA FirstPosition ==
  ASSUME NEW S, S \subseteq Nat, S # {}
  PROVE  \E i \in S : \A j \in S : i <= j
<1> DEFINE less == OpToRel(<, Nat)
<1>1. IsWellFoundedOn(less, Nat)
  BY NatLessThanWellFounded
<1>2. PICK i \in S : \A j \in S : ~(<<j, i>> \in less)
  BY <1>1, WFMin
<1>3. ASSUME NEW j \in S PROVE i <= j
  <2>1. less = {ss \in Nat \X Nat : ss[1] < ss[2]}
    BY DEF OpToRel
  <2> HIDE DEF less
  <2>2. i \in Nat /\ j \in Nat
    OBVIOUS
  <2>3. <<j, i>> \in less <=> j < i
    BY <2>1, <2>2
  <2> QED
    BY <1>2, <2>2, <2>3
<1> QED
  BY <1>3

(* What a lookup finds: nothing, or the first match. *)
LEMMA HitIsFirst ==
  ASSUME NEW S, S \subseteq Nat \ {0}
  PROVE  /\ Hit(S) = 0 <=> S = {}
         /\ S # {} => Hit(S) \in S /\ \A j \in S : Hit(S) <= j
<1>1. CASE S = {}
  BY <1>1 DEF Hit
<1>2. CASE S # {}
  <2>1. \E i \in S : \A j \in S : i <= j
    BY <1>2, FirstPosition
  <2>2. Hit(S) \in S /\ \A j \in S : Hit(S) <= j
    BY <1>2, <2>1 DEF Hit
  <2> QED
    BY <1>2, <2>2
<1> QED
  BY <1>1, <1>2

(* The members a lookup compares equal are members of the viewed type. *)
LEMMA MatchesAreMembers ==
  ASSUME view \in Types \cup {Void}, NEW l \in Literals, NEW layout \in Layouts
  PROVE  /\ Members[view] \in Seq(Literals)
         /\ Matches(l, layout) \subseteq Nat \ {0}
         /\ \A i \in DOMAIN Members[view] :
              /\ Members[view][i] \in Literals
              /\ i \in Matches(l, layout) <=> layout[Members[view][i]] = layout[l]
<1>1. Members[view] \in Seq(Literals)
  BY MembersAssumption
<1>2. \A i \in DOMAIN Members[view] : i \in Nat \ {0} /\ Members[view][i] \in Literals
  BY <1>1, ElementOfSeq, LenProperties
<1> QED
  BY <1>1, <1>2 DEF Matches, SameName

(* A member that is found has the name asked for, and if equal literals    *)
(* are kept once it is the first of that name: for every type, name and    *)
(* placement of literals.                                                  *)
THEOREM LookupFindsName == ViewSpec => []FindsByName
<1>1. VInv => FindsByName
  <2> SUFFICES ASSUME VInv, found # Nothing
               PROVE  LET named == {i \in DOMAIN Members[view] : Text[Members[view][i]] = Text[found.name]} IN
                        /\ found.at # 0 => found.at \in named
                        /\ found.pooled => \A i \in named : found.at # 0 /\ found.at <= i
    BY DEF FindsByName
  <2> DEFINE named == {i \in DOMAIN Members[view] : Text[Members[view][i]] = Text[found.name]}
  <2>1. PICK l \in Literals, layout \in Layouts : found = Looked(l, layout)
    BY DEF VInv, LookedUp
  <2>2. view \in Types \cup {Void}
    BY DEF VInv, LookedUp
  <2> DEFINE S == Matches(l, layout)
  <2>3. found.name = l /\ found.at = Hit(S) /\ found.pooled = Pooled(layout)
    BY <2>1 DEF Looked
  <2>4. /\ S \subseteq DOMAIN Members[view]
        /\ S \subseteq Nat \ {0}
        /\ \A i \in DOMAIN Members[view] :
             /\ Members[view][i] \in Literals
             /\ i \in S <=> layout[Members[view][i]] = layout[l]
    BY <2>2, MatchesAreMembers DEF Matches
  <2>5. /\ Hit(S) = 0 <=> S = {}
        /\ S # {} => Hit(S) \in S /\ \A j \in S : Hit(S) <= j
    BY <2>4, HitIsFirst
  <2> HIDE DEF S
  <2>6. ASSUME NEW i \in S PROVE i \in named
    BY <2>3, <2>4, MembersAssumption
  <2>7. ASSUME Pooled(layout), NEW i \in named PROVE i \in S
    BY <2>3, <2>4, <2>7 DEF Pooled
  <2>8. found.at # 0 => found.at \in named
    BY <2>3, <2>5, <2>6
  <2>9. ASSUME found.pooled, NEW i \in named PROVE found.at # 0 /\ found.at <= i
    <3>1. i \in S
      BY <2>3, <2>7, <2>9
    <3> QED
      BY <2>3, <2>5, <3>1
  <2> QED
    BY <2>8, <2>9
<1> QED
  BY <1>1, ViewInductive, PTL

(* The variables of the view keep their types, and a position looked up is *)
(* one of a member.                                                        *)
THEOREM ViewTypeCorrect == ViewSpec => []ViewTypeOK
<1>1. VInv => ViewTypeOK
  <2> SUFFICES ASSUME VInv PROVE ViewTypeOK
    OBVIOUS
  <2>1. found.at \in Nat /\ (view \in Types => found.at <= Len(Members[view]))
    <3>1. CASE found = Nothing
      <4>1. view \in Types => Len(Members[view]) \in Nat
        BY MembersAssumption, LenProperties
      <4> QED
        BY <3>1, <4>1 DEF Nothing
    <3>2. CASE found # Nothing
      <4>1. PICK l \in Literals, layout \in Layouts : found = Looked(l, layout)
        BY <3>2 DEF VInv, LookedUp
      <4>2. view \in Types \cup {Void}
        BY <3>2 DEF VInv, LookedUp
      <4> DEFINE S == Matches(l, layout)
      <4>3. Members[view] \in Seq(Literals) /\ S \subseteq Nat \ {0} /\ S \subseteq DOMAIN Members[view]
        BY <4>2, MatchesAreMembers DEF Matches
      <4>4. found.at = Hit(S) /\ (Hit(S) = 0 \/ Hit(S) \in S)
        BY <4>1, <4>3, HitIsFirst DEF Looked
      <4> HIDE DEF S
      <4>5. Len(Members[view]) \in Nat /\ \A i \in S : i \in 1 .. Len(Members[view])
        BY <4>3, LenProperties
      <4> QED
        BY <4>4, <4>5
    <3> QED
      BY <3>1, <3>2
  <2> QED
    BY <2>1 DEF VInv, ViewTypes, Calls, ViewTypeOK
<1> QED
  BY <1>1, ViewInductive, PTL

-----------------------------------------------------------------------------
(* The end of a Print. *)

(* Only the innermost call of Print runs, and only printers of compound    *)
(* types call others.                                                      *)
Waiting ==
  /\ \A i \in 1 .. Len(walk) - 1 : walk[i].pc = "leave"
  /\ \A i \in 1 .. Len(walk) : walk[i].pc = "leave" => Compound(walk[i].type)

(* The call stack holds the calls, or the one call of a name. *)
OnStack == Len(walk) > 1 => Len(walk) <= StackLimit

(* The steps of a Print that are left: calls not made yet, or only returns. *)
PrintStepsLeft ==
  IF ~Printing THEN 0
  ELSE IF Printer.pc = "enter" THEN 2 * StackLimit + 3 - Len(walk) ELSE Len(walk)

(* Every step of a Print leaves less of it, in every build. *)
PrintWindsDown == [][PrintStep => PrintStepsLeft' < PrintStepsLeft]_allVars

(* A Print in progress can go on: it writes a name, returns, or calls      *)
(* another printer, for which there is room or not.                        *)
PrintGoesOn ==
  Printing =>
    \/ ~Compound(Printer.type)
    \/ Printer.pc = "leave"
    \/ Printer.pc = "enter" /\ (InnerOf(Printer.type) \notin Types \/ Len(walk) <= StackLimit)

LEMMA ReturnWaits ==
  ASSUME VInv, Waiting, OnStack, Printing, PrintReturn
  PROVE  Waiting' /\ OnStack'
<1>1. walk # <<>> /\ walk \in Seq(Calls) /\ walk' = SubSeq(walk, 1, Len(walk) - 1)
  BY DEF VInv, ViewTypes, Printing, PrintReturn
<1>2. /\ Len(walk) \in Nat \ {0} /\ Len(walk') = Len(walk) - 1
      /\ \A i \in 1 .. Len(walk) - 1 : walk'[i] = walk[i]
  BY <1>1, Remaining
<1>3. /\ \A i \in 1 .. Len(walk') - 1 : i \in 1 .. Len(walk) - 1
      /\ \A i \in 1 .. Len(walk') : i \in 1 .. Len(walk) - 1 /\ i \in 1 .. Len(walk)
  BY <1>2
<1>4. Waiting'
  BY <1>2, <1>3 DEF Waiting
<1>5. OnStack'
  BY <1>2, StackAssumption DEF OnStack
<1> QED
  BY <1>4, <1>5

LEMMA CallWaits ==
  ASSUME VInv, Waiting, Printing, Compound(Printer.type), InnerOf(Printer.type) \in Types,
         Len(walk) < StackLimit,
         walk' = Append([walk EXCEPT ![Len(walk)].pc = "leave"], Enter(InnerOf(Printer.type)))
  PROVE  Waiting' /\ OnStack'
<1> DEFINE n == Len(walk)
           call == Enter(InnerOf(Printer.type))
<1>1. walk # <<>> /\ walk \in Seq(Calls)
  BY DEF VInv, ViewTypes, Printing
<1>2. call \in Calls /\ call.pc = "enter"
  BY DEF Enter, Calls
<1>3. walk' = Append([walk EXCEPT ![Len(walk)].pc = "leave"], call)
  OBVIOUS
<1> HIDE DEF call
<1>4. /\ n \in Nat \ {0} /\ Len(walk') = n + 1
      /\ \A i \in 1 .. n : walk'[i].type = walk[i].type
      /\ \A i \in 1 .. n - 1 : walk'[i] = walk[i]
      /\ walk'[n].pc = "leave" /\ walk'[n + 1] = call
  BY <1>1, <1>2, <1>3, Called
<1>5. /\ \A i \in 1 .. n : (i \in 1 .. n - 1 /\ i \in 1 .. n) \/ i = n
      /\ \A i \in 1 .. n + 1 : i \in 1 .. n \/ i = n + 1
      /\ n \in 1 .. n /\ Len(walk') - 1 = n
  BY <1>4
<1>6. ASSUME NEW i \in 1 .. n PROVE walk'[i].pc = "leave" /\ Compound(walk'[i].type)
  <2>1. CASE i \in 1 .. n - 1 /\ i \in 1 .. n
    BY <1>4, <2>1 DEF Waiting
  <2>2. CASE i = n
    BY <1>4, <1>5, <2>2 DEF Printer
  <2> QED
    BY <1>5, <2>1, <2>2
<1>7. walk'[n + 1].pc = "leave" => Compound(walk'[n + 1].type)
  BY <1>2, <1>4
<1>8. Waiting'
  BY <1>4, <1>5, <1>6, <1>7 DEF Waiting
<1>9. OnStack'
  BY <1>4, StackAssumption DEF OnStack
<1> QED
  BY <1>8, <1>9

LEMMA WaitingStep == VInv /\ Waiting /\ OnStack /\ [ViewNext]_allVars => Waiting' /\ OnStack'
<1> SUFFICES ASSUME VInv, Waiting, OnStack, [ViewNext]_allVars PROVE Waiting' /\ OnStack'
  OBVIOUS
<1>1. CASE UNCHANGED walk
  BY <1>1 DEF Waiting, OnStack
<1>2. CASE PrintView
  <2>1. walk' = <<Enter(view)>> /\ Enter(view).pc = "enter"
    BY <1>2 DEF PrintView, Enter
  <2> HIDE DEF Enter
  <2>2. Len(walk') = 1 /\ walk'[1] = Enter(view)
    BY <2>1
  <2> QED
    BY <2>1, <2>2 DEF Waiting, OnStack
<1>3. CASE PrintName \/ PrintAfter
  BY <1>3, ReturnWaits DEF PrintName, PrintAfter
<1>4. CASE PrintInner
  BY <1>1, <1>4, CallWaits DEF PrintInner
<1> QED
  BY <1>1, <1>2, <1>3, <1>4 DEF ViewNext, PrintStep, Ended, Reflect, Registering, FinishReflect,
       ReflectVoid, GetInner, LookUp, viewVars, allVars

LEMMA WaitingInductive == ViewSpec => [](Waiting /\ OnStack)
<1>1. ViewInit => Waiting /\ OnStack
  <2> SUFFICES ASSUME ViewInit PROVE Waiting /\ OnStack
    OBVIOUS
  <2>1. walk = <<>> /\ Len(walk) = 0
    BY EmptySeq DEF ViewInit
  <2> QED
    BY <2>1 DEF Waiting, OnStack
<1> QED
  BY <1>1, WaitingStep, ViewInductive, PTL DEF ViewSpec

LEMMA CallsWait == ViewSpec => []Waiting
BY WaitingInductive, PTL

(* How many calls there are when a Print runs. *)
LEMMA CallsFit ==
  ASSUME VInv, OnStack, Printing
  PROVE  /\ Len(walk) \in Nat \ {0} /\ StackLimit \in Nat
         /\ Len(walk) <= StackLimit + 1
         /\ Printer.pc \in {"enter", "leave"}
<1>1. walk # <<>> /\ Len(walk) \in Nat \ {0} /\ Printer \in Calls
  BY PrinterCall DEF VInv, Printing
<1> QED
  BY <1>1, StackAssumption DEF OnStack, Calls

LEMMA PrintStepsAreNumbers == VInv /\ OnStack => PrintStepsLeft \in Nat
BY CallsFit DEF PrintStepsLeft

LEMMA PrintStepWindsDown ==
  ASSUME VInv, Waiting, OnStack, VInv', Waiting', OnStack', PrintStep
  PROVE  PrintStepsLeft' < PrintStepsLeft
<1> DEFINE n == Len(walk)
<1>1. /\ Printing /\ walk # <<>> /\ walk \in Seq(Calls)
      /\ n \in Nat \ {0} /\ StackLimit \in Nat /\ n <= StackLimit + 1
      /\ Printer.pc \in {"enter", "leave"}
  BY CallsFit DEF PrintStep, PrintName, PrintInner, PrintAfter, Printing, VInv, ViewTypes
<1>2. PrintStepsLeft = IF Printer.pc = "enter" THEN 2 * StackLimit + 3 - n ELSE n
  BY <1>1 DEF PrintStepsLeft
<1>3. CASE ~Printing'
  <2>1. PrintStepsLeft' = 0
    BY <1>3 DEF PrintStepsLeft
  <2> QED
    BY <1>1, <1>2, <2>1
<1>4. CASE Printing' /\ walk' = SubSeq(walk, 1, n - 1)
  <2>1. Len(walk') = n - 1 /\ (\A i \in 1 .. n - 1 : walk'[i] = walk[i]) /\ n # 1
    BY <1>1, <1>4, Remaining DEF Printing
  <2>2. n - 1 \in 1 .. n - 1
    BY <1>1, <2>1
  <2>3. Printer'.pc = "leave"
    BY <2>1, <2>2 DEF Printer, Waiting
  <2>4. PrintStepsLeft' = n - 1
    BY <1>4, <2>1, <2>3 DEF PrintStepsLeft
  <2> QED
    BY <1>1, <1>2, <2>4
<1>5. CASE /\ Printing' /\ Printer.pc = "enter"
           /\ walk' = Append([walk EXCEPT ![Len(walk)].pc = "leave"], Enter(InnerOf(Printer.type)))
           /\ InnerOf(Printer.type) \in Types
  <2> DEFINE call == Enter(InnerOf(Printer.type))
  <2>1. call \in Calls /\ call.pc = "enter"
    BY <1>5 DEF Enter, Calls
  <2>2. walk' = Append([walk EXCEPT ![Len(walk)].pc = "leave"], call)
    BY <1>5
  <2> HIDE DEF call
  <2>3. Len(walk') = n + 1 /\ walk'[n + 1] = call
    BY <1>1, <2>1, <2>2, Called
  <2>4. Printer'.pc = "enter"
    BY <2>1, <2>3 DEF Printer
  <2>5. PrintStepsLeft' = 2 * StackLimit + 3 - (n + 1)
    BY <1>5, <2>3, <2>4 DEF PrintStepsLeft
  <2> QED
    BY <1>1, <1>2, <1>5, <2>5
<1>6. CASE PrintName \/ PrintAfter
  BY <1>3, <1>4, <1>6 DEF PrintName, PrintAfter, PrintReturn
<1>7. CASE PrintInner
  BY <1>3, <1>5, <1>7 DEF PrintInner, ValueOfFailure, Printing
<1> QED
  BY <1>6, <1>7 DEF PrintStep

LEMMA PrintersAreComplete == VInv /\ OnStack => PrintGoesOn
<1> SUFFICES ASSUME VInv, OnStack, Printing, Compound(Printer.type) PROVE PrintGoesOn
  BY DEF PrintGoesOn
<1>1. Printer.type \in Types /\ Len(walk) \in Nat \ {0} /\ Printer.pc \in {"enter", "leave"}
  BY PrinterCall, CallsFit DEF VInv, Printing, Compound
<1>2. StackLimit \in Nat /\ StackLimit # 0
  <2>1. Cardinality(Types) \in Nat /\ Cardinality(Types) # 0
    BY <1>1, TypesAssumption, FS_CardinalityType, FS_EmptySet
  <2> QED
    BY <2>1, StackAssumption
<1>3. Len(walk) <= StackLimit
  BY <1>1, <1>2 DEF OnStack
<1> QED
  BY <1>1, <1>3 DEF PrintGoesOn

(* A Print takes a bounded number of steps, also when the garbage of a     *)
(* release build leads the printers in a circle, and in no state before    *)
(* its end does it lack a way on.                                          *)
THEOREM PrintsWindDown ==
  ViewSpec => [](PrintStepsLeft \in Nat /\ PrintGoesOn) /\ PrintWindsDown
<1>1. VInv /\ Waiting /\ OnStack => PrintStepsLeft \in Nat /\ PrintGoesOn
  BY PrintStepsAreNumbers, PrintersAreComplete
<1>2. /\ VInv /\ Waiting /\ OnStack
      /\ VInv' /\ Waiting' /\ OnStack'
      /\ [ViewNext]_allVars
      => [PrintStep => PrintStepsLeft' < PrintStepsLeft]_allVars
  BY PrintStepWindsDown
<1> QED
  BY <1>1, <1>2, ViewInductive, WaitingInductive, PTL DEF ViewSpec, PrintWindsDown
=============================================================================
