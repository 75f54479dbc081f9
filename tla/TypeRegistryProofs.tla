------------------------- MODULE TypeRegistryProofs -------------------------
(***************************************************************************)
(* Theorems about TypeRegistry, for every set of types, every dependency   *)
(* between them and both builds.                                           *)
(***************************************************************************)
EXTENDS TypeRegistry, FiniteSetTheorems, SequenceTheorems, TLAPS

(* The id type has a value for every number of registered types. *)
LEMMA IdModulusPositive == IdModulus \in Nat \ {0} /\ 0 \in TypeIDs
<1>1. Cardinality(Types) \in Nat
  BY TypesAssumption, FS_CardinalityType
<1> QED
  BY <1>1, IdsFitAssumption DEF TypeIDs

(* Popping the top frame leaves the frames below as they are, but for the  *)
(* id the caller has received.                                             *)
LEMMA PoppedStack ==
  ASSUME stack \in Seq(Frames), Depth > 1, NEW id \in TypeIDs, ReturnToCaller(id)
  PROVE  /\ stack' \in Seq(Frames)
         /\ Len(stack') = Depth - 1
         /\ \A i \in 1 .. Depth - 2 : stack'[i] = stack[i]
         /\ stack'[Depth - 1] = Received(stack[Depth - 1], id)
<1> DEFINE caller  == Received(stack[Depth - 1], id)
           resumed == [stack EXCEPT ![Depth - 1] = caller]
<1>1. Depth \in Nat /\ Depth - 1 \in 1 .. Depth
  BY LenProperties DEF Depth
<1>2. caller \in Frames
  <2>1. stack[Depth - 1] \in Frames
    BY <1>1, ElementOfSeq DEF Depth
  <2> QED
    BY <2>1 DEF Frames, Received
<1>3. stack' = SubSeq(resumed, 1, Depth - 1)
  BY DEF ReturnToCaller
<1> HIDE DEF caller
<1>4. /\ resumed \in Seq(Frames)
      /\ Len(resumed) = Depth
      /\ \A j \in 1 .. Depth : resumed[j] = IF j = Depth - 1 THEN caller ELSE stack[j]
  BY <1>1, <1>2, ExceptSeq DEF Depth
<1> HIDE DEF resumed
<1>5. \A i \in 1 .. Depth - 1 : resumed[i] \in Frames
  BY <1>1, <1>4, ElementOfSeq
<1>6. /\ stack' \in Seq(Frames)
      /\ Len(stack') = Depth - 1
      /\ \A i \in 1 .. Depth - 1 : stack'[i] = resumed[i]
  BY <1>1, <1>3, <1>5, SubSeqProperties
<1> QED
  BY <1>1, <1>4, <1>6 DEF caller

(* A step of the top frame leaves the frames below as they are. *)
LEMMA ReplacedTop ==
  ASSUME stack \in Seq(Frames), stack # <<>>, NEW f \in Frames,
         SetTop(f)
  PROVE  /\ stack' \in Seq(Frames)
         /\ Len(stack') = Depth
         /\ \A i \in 1 .. Depth - 1 : stack'[i] = stack[i]
         /\ stack'[Depth] = f
<1>1. Depth \in 1 .. Len(stack)
  BY EmptySeq, LenProperties DEF Depth
<1> QED
  BY <1>1, ExceptSeq DEF Depth, SetTop

(* Pushing a registration leaves the frames below as they are. *)
LEMMA PushedStack ==
  ASSUME stack \in Seq(Frames), NEW f \in Frames, Push(f)
  PROVE  /\ stack' \in Seq(Frames)
         /\ Len(stack') = Depth + 1
         /\ \A i \in 1 .. Depth : stack'[i] = stack[i]
         /\ stack'[Depth + 1] = f
  BY LenProperties DEF Depth, Push

(* The top frame of a busy registry. *)
LEMMA TopFrame ==
  ASSUME stack \in Seq(Frames), Busy
  PROVE  /\ Depth \in Nat \ {0}
         /\ Top = stack[Depth]
         /\ Top \in Frames
         /\ Top.type \in Types
         /\ Top.inners \in Seq(TypeIDs)
<1>1. Depth \in Nat \ {0}
  BY EmptySeq DEF Depth, Busy
<1>2. Top \in Frames
  BY <1>1, ElementOfSeq DEF Top, Depth
<1> QED
  BY <1>1, <1>2 DEF Top, Frames

-----------------------------------------------------------------------------
(* Type correctness. *)

(* Returning an id or an error keeps stack, answer and status well typed. *)
LEMMA ReturnTypes ==
  ASSUME TypeOK, Busy
  PROVE  /\ \A id \in TypeIDs : ReturnID(id) =>
              stack' \in Seq(Frames) /\ answer' \in Results
         /\ \A e \in ReflectErrors : ReturnError(e) =>
              /\ stack' \in Seq(Frames)
              /\ answer' \in Results
              /\ status' \in {"running", "aborted", "hung"}
<1>1. <<>> \in Seq(Frames)
  BY EmptySeq
<1>2. stack \in Seq(Frames) /\ answer \in Results /\ status \in {"running", "aborted", "hung"}
  BY DEF TypeOK
<1>3. ASSUME NEW id \in TypeIDs, ReturnID(id)
      PROVE  stack' \in Seq(Frames) /\ answer' \in Results
  <2>1. Success(id) \in Results
    BY DEF Success, Results
  <2>2. CASE stack' = <<>> /\ answer' = Success(id)
    BY <1>1, <2>1, <2>2
  <2>3. CASE Depth > 1 /\ ReturnToCaller(id) /\ UNCHANGED answer
    BY <1>2, <2>3, PoppedStack
  <2> QED
    BY <1>3, <2>2, <2>3 DEF ReturnID
<1>4. ASSUME NEW e \in ReflectErrors, ReturnError(e)
      PROVE  /\ stack' \in Seq(Frames)
             /\ answer' \in Results
             /\ status' \in {"running", "aborted", "hung"}
  <2>1. CASE stack' = <<>> /\ answer' = Failure(e) /\ UNCHANGED status
    BY <1>1, <1>2, <2>1, IdModulusPositive DEF Failure, Results
  <2>2. CASE status' = "aborted" /\ UNCHANGED <<stack, answer>>
    BY <1>2, <2>2
  <2>3. CASE /\ Depth > 1
             /\ \E id \in Garbage : ReturnToCaller(id)
             /\ UNCHANGED <<status, answer>>
    BY <1>2, <2>3, PoppedStack, GarbageAssumption
  <2> QED
    BY <1>4, <2>1, <2>2, <2>3 DEF ReturnError
<1> QED
  BY <1>3, <1>4

(* The type CreateImpl reflects next is a reflected type or void. *)
LEMMA DepTypes ==
  ASSUME TypeOK, Busy, Top.pc = "create", MoreDeps
  PROVE  NextDep \in Types \cup {Void}
<1>1. Top.type \in Types /\ Len(Top.inners) \in Nat
  BY TopFrame, LenProperties DEF TypeOK
<1>2. Deps[Top.type] \in Seq(Types \cup {Void})
  BY <1>1, DepsAssumption
<1>3. Len(Top.inners) + 1 \in 1 .. Len(Deps[Top.type])
  BY <1>1, <1>2, LenProperties DEF MoreDeps
<1> QED
  BY <1>2, <1>3, ElementOfSeq DEF NextDep

(* The registry starts well typed. *)
LEMMA TypeOKInit == Init => TypeOK
<1> SUFFICES ASSUME Init PROVE TypeOK
  OBVIOUS
<1>1. types \in Seq([id : TypeIDs, type : Types]) /\ stack \in Seq(Frames)
  BY EmptySeq DEF Init
<1>2. inners \in [Types -> Seq(TypeIDs)]
  BY EmptySeq DEF Init
<1> QED
  BY <1>1, <1>2, IdModulusPositive DEF Init, TypeOK, Success, Results

(* Every step keeps the registry well typed. *)
LEMMA TypeOKStep == TypeOK /\ [Next]_vars => TypeOK'
<1> SUFFICES ASSUME TypeOK, [Next]_vars PROVE TypeOK'
  OBVIOUS
<1> USE DEF TypeOK
<1>1. ASSUME NEW t \in Types, ReflectID(t) PROVE TypeOK'
  <2>1. NewFrame(t) \in Frames
    BY EmptySeq DEF NewFrame, Frames
  <2>2. stack' \in Seq(Frames)
    BY <1>1, <2>1, PushedStack DEF ReflectID
  <2>3. answer' \in Results
    BY <1>1 DEF ReflectID, Success, Results
  <2> QED
    BY <1>1, <2>2, <2>3 DEF ReflectID
<1>2. ASSUME RegisterType PROVE TypeOK'
  <2>1. Busy
    BY <1>2 DEF RegisterType
  <2>2. \A pc \in {"create", "emplace"} : Goto(Top, pc) \in Frames
    BY <2>1, TopFrame DEF Goto, Frames
  <2>3. \A pc \in {"create", "emplace"} :
          SetTop(Goto(Top, pc)) => stack' \in Seq(Frames)
    BY <2>1, <2>2, TopFrame, ReplacedTop DEF Busy
  <2>4. /\ stack' \in Seq(Frames)
        /\ answer' \in Results
        /\ status' \in {"running", "aborted", "hung"}
    BY <1>2, <2>1, <2>3, ReturnTypes DEF RegisterType, ReflectErrors
  <2> QED
    BY <1>2, <2>4 DEF RegisterType
<1>3. ASSUME ReflectInner PROVE TypeOK'
  <2>1. Busy /\ NextDep \in Types \cup {Void}
    BY <1>3, DepTypes DEF ReflectInner
  <2>2. CASE Known(NextDep) /\ SetTop(Received(Top, KnownID(NextDep)))
    <3>1. KnownID(NextDep) \in TypeIDs
      BY <2>1, IdModulusPositive DEF KnownID
    <3>2. Received(Top, KnownID(NextDep)) \in Frames
      BY <2>1, <3>1, TopFrame DEF Received, Frames
    <3> QED
      BY <1>3, <2>1, <2>2, <3>2, TopFrame, ReplacedTop DEF Busy, ReflectInner
  <2>3. CASE ~Known(NextDep) /\ Push(NewFrame(NextDep))
    <3>1. NewFrame(NextDep) \in Frames
      BY <2>1, <2>3, EmptySeq DEF Known, NewFrame, Frames
    <3> QED
      BY <1>3, <2>3, <3>1, PushedStack DEF ReflectInner
  <2> QED
    BY <1>3, <2>2, <2>3 DEF ReflectInner
<1>4. ASSUME FinishCreate PROVE TypeOK'
  <2>1. Busy
    BY <1>4 DEF FinishCreate
  <2>2. Goto(Top, "emplace") \in Frames
    BY <2>1, TopFrame DEF Goto, Frames
  <2>3. stack' \in Seq(Frames)
    BY <1>4, <2>1, <2>2, TopFrame, ReplacedTop DEF Busy, FinishCreate
  <2>4. Top.type \in Types /\ Top.inners \in Seq(TypeIDs)
    BY <2>1, TopFrame
  <2> QED
    BY <1>4, <2>3, <2>4 DEF FinishCreate
<1>5. ASSUME CreateThrows PROVE TypeOK'
  <2>1. /\ stack' \in Seq(Frames)
        /\ answer' \in Results
        /\ status' \in {"running", "aborted", "hung"}
    BY <1>5, ReturnTypes DEF CreateThrows, ReflectErrors
  <2> QED
    BY <1>5, <2>1 DEF CreateThrows
<1>6. ASSUME Emplace PROVE TypeOK'
  <2>1. Busy /\ Top.type \in Types
    BY <1>6, TopFrame DEF Emplace
  <2>2. NextID \in TypeIDs
    BY LenProperties, IdModulusPositive DEF NextID, TypeIDs
  <2>3. stack' \in Seq(Frames) /\ answer' \in Results
    BY <1>6, <2>1, <2>2, ReturnTypes DEF Emplace
  <2> QED
    BY <1>6, <2>1, <2>2, <2>3 DEF Emplace
<1>7. ASSUME EmplaceThrows PROVE TypeOK'
  <2>1. /\ stack' \in Seq(Frames)
        /\ answer' \in Results
        /\ status' \in {"running", "aborted", "hung"}
    BY <1>7, ReturnTypes DEF EmplaceThrows, ReflectErrors
  <2> QED
    BY <1>7, <2>1 DEF EmplaceThrows
<1>8. CASE UNCHANGED vars
  BY <1>8 DEF vars, Frames
<1> QED
  BY <1>1, <1>2, <1>3, <1>4, <1>5, <1>6, <1>7, <1>8 DEF Next, Step, Stopped

(* The variables of the registry keep their types in every behaviour.      *)
THEOREM TypeCorrect == Spec => []TypeOK
<1>1. Init => TypeOK
  BY TypeOKInit
<1>2. TypeOK /\ [Next]_vars => TypeOK'
  BY TypeOKStep
<1> QED
  BY <1>1, <1>2, PTL DEF Spec

-----------------------------------------------------------------------------
(* The inductive invariant.  It relates the registrations in progress, the *)
(* static ids, the database and the TypeData; the invariants that TLC      *)
(* checks mention finished registrations only and are not inductive.       *)

(* Database and static ids. *)
EntriesOK ==
  \A i \in 1 .. Len(types) : types[i].id = i /\ cached[types[i].type] = i
CachedOK ==
  \A t \in Types : cached[t] # 0 =>
    cached[t] \in 1 .. Len(types) /\ types[cached[t]].type = t /\ t \in built

(* The call stack: whoever is on it is not registered yet; every frame but *)
(* the top is in its CreateImpl, about to receive the id of the type above;*)
(* no static is initialised twice at a time.                               *)
Pending  == \A i \in 1 .. Depth : cached[stack[i].type] = 0
Callers  == \A i \in 1 .. Depth - 1 :
              /\ stack[i].pc = "create"
              /\ Len(stack[i].inners) < Len(Deps[stack[i].type])
              /\ stack[i + 1].type = Deps[stack[i].type][Len(stack[i].inners) + 1]
Creating == \A i \in 1 .. Depth : stack[i].pc = "create" =>
              /\ stack[i].type \notin built
              /\ \A j \in 1 .. Depth : j # i /\ stack[j].pc = "create" =>
                   stack[j].type # stack[i].type
Storing  == \A i \in 1 .. Depth : stack[i].pc = "emplace" => stack[i].type \in built
StackOK  == Pending /\ Callers /\ Creating /\ Storing

(* The inner ids, as far as they have been received. *)
Prefix(ids, received, t) ==
  /\ Len(received) <= Len(Deps[t])
  /\ \A k \in 1 .. Len(received) : ResolvesTo(ids, received[k], Deps[t][k])
FramesResolve == \A i \in 1 .. Depth : Prefix(cached, stack[i].inners, stack[i].type)
BuiltResolve  == \A t \in built :
                   Prefix(cached, inners[t], t) /\ Len(inners[t]) = Len(Deps[t])
InnersSmaller == \A t \in Types : cached[t] # 0 =>
                   \A k \in 1 .. Len(inners[t]) : inners[t][k] < cached[t]
InnersOK == build = "debug" => FramesResolve /\ BuiltResolve /\ InnersSmaller

IInv == TypeOK /\ EntriesOK /\ CachedOK /\ StackOK /\ InnersOK /\ HangNeedsCycle

-----------------------------------------------------------------------------
(* What the three changes of the stack do to StackOK. *)

(* Returning an id to the caller keeps StackOK, if no caller is registered. *)
LEMMA PoppedOK ==
  ASSUME TypeOK, StackOK, Depth > 1, NEW id \in TypeIDs, ReturnToCaller(id),
         built' = built,
         \A i \in 1 .. Depth - 1 : cached'[stack[i].type] = 0
  PROVE  StackOK'
<1>1. /\ stack' \in Seq(Frames)
      /\ Len(stack') = Depth - 1
      /\ \A i \in 1 .. Depth - 2 : stack'[i] = stack[i]
      /\ stack'[Depth - 1] = Received(stack[Depth - 1], id)
  BY PoppedStack DEF TypeOK
<1>2. Depth \in Nat /\ Depth' = Depth - 1
  BY <1>1, LenProperties DEF Depth, TypeOK
<1>3. \A i \in 1 .. Depth' : stack'[i].type = stack[i].type /\ stack'[i].pc = stack[i].pc
  <2>1. ASSUME NEW i \in 1 .. Depth', i # Depth - 1 PROVE stack'[i] = stack[i]
    BY <1>1, <1>2, <2>1
  <2>2. /\ stack'[Depth - 1].type = stack[Depth - 1].type
        /\ stack'[Depth - 1].pc = stack[Depth - 1].pc
    BY <1>1 DEF Received
  <2> QED
    BY <2>1, <2>2
<1>4. \A i \in 1 .. Depth' - 1 : stack'[i] = stack[i]
  BY <1>1, <1>2
<1>5. Pending'
  BY <1>2, <1>3 DEF Pending
<1>6. Callers'
  <2>1. ASSUME NEW i \in 1 .. Depth' - 1
        PROVE  /\ stack'[i] = stack[i]
               /\ stack'[i + 1].type = stack[i + 1].type
               /\ i \in 1 .. Depth - 1
    <3>1. i \in 1 .. Depth' /\ i + 1 \in 1 .. Depth' /\ i \in 1 .. Depth - 1
      BY <1>2
    <3> QED
      BY <1>3, <1>4, <3>1
  <2> QED
    BY <2>1 DEF Callers, StackOK
<1>7. \A i \in 1 .. Depth' : i \in 1 .. Depth
  BY <1>2
<1>8. Creating'
  BY <1>3, <1>7 DEF Creating, StackOK
<1>9. Storing'
  BY <1>3, <1>7 DEF Storing, StackOK
<1> QED
  BY <1>5, <1>6, <1>8, <1>9 DEF StackOK

(* A step within the top registration keeps StackOK. *)
LEMMA ReplacedOK ==
  ASSUME TypeOK, StackOK, Busy, cached' = cached,
         NEW f \in Frames, f.type = Top.type, SetTop(f),
         built' \in {built, built \cup {Top.type}},
         \A i \in 1 .. Depth - 1 : stack[i].type \notin built',
         f.pc = "create" => /\ Top.type \notin built'
                            /\ \A i \in 1 .. Depth - 1 : stack[i].type # Top.type,
         f.pc = "emplace" => Top.type \in built'
  PROVE  StackOK'
<1>1. /\ Depth' = Depth
      /\ Depth \in Nat \ {0}
      /\ \A i \in 1 .. Depth - 1 : stack'[i] = stack[i]
      /\ stack'[Depth] = f
      /\ Top = stack[Depth]
  BY ReplacedTop, TopFrame DEF TypeOK, Busy, Depth
<1>2. Pending'
  BY <1>1 DEF Pending, StackOK
<1>3. Callers'
  <2>1. ASSUME NEW i \in 1 .. Depth - 1
        PROVE  stack'[i] = stack[i] /\ stack'[i + 1].type = stack[i + 1].type
    BY <1>1
  <2> QED
    BY <1>1, <2>1 DEF Callers, StackOK
<1>4. Creating'
  <2>1. ASSUME NEW i \in 1 .. Depth, stack'[i].pc = "create"
        PROVE  /\ stack'[i].type \notin built'
               /\ \A j \in 1 .. Depth : j # i /\ stack'[j].pc = "create" =>
                    stack'[j].type # stack'[i].type
    <3>1. CASE i = Depth
      BY <1>1, <2>1, <3>1
    <3>2. CASE i # Depth
      BY <1>1, <2>1, <3>2 DEF Creating, StackOK
    <3> QED
      BY <3>1, <3>2
  <2> QED
    BY <1>1, <2>1 DEF Creating
<1>5. Storing'
  <2>1. \A i \in 1 .. Depth - 1 : stack'[i].pc = "create"
    BY <1>1 DEF Callers, StackOK
  <2> QED
    BY <1>1, <2>1 DEF Storing
<1> QED
  BY <1>2, <1>3, <1>4, <1>5 DEF StackOK

(* A nested registration keeps StackOK: its type is what the caller names. *)
LEMMA PushedOK ==
  ASSUME TypeOK, StackOK, Busy, cached' = cached, built' = built,
         Top.pc = "create", MoreDeps, NextDep \in Types, cached[NextDep] = 0,
         Push(NewFrame(NextDep))
  PROVE  StackOK'
<1>1. NewFrame(NextDep) \in Frames
  BY EmptySeq DEF NewFrame, Frames
<1>2. /\ Depth' = Depth + 1
      /\ Depth \in Nat \ {0}
      /\ \A i \in 1 .. Depth : stack'[i] = stack[i]
      /\ stack'[Depth + 1] = NewFrame(NextDep)
      /\ Top = stack[Depth]
  BY <1>1, PushedStack, TopFrame DEF TypeOK, Depth
<1>3. NewFrame(NextDep).type = NextDep /\ NewFrame(NextDep).pc = "register"
  BY DEF NewFrame
<1>4. Pending'
  BY <1>2, <1>3 DEF Pending, StackOK
<1>5. Callers'
  <2>1. ASSUME NEW i \in 1 .. Depth
        PROVE  /\ stack'[i] = stack[i]
               /\ stack'[i].pc = "create"
               /\ Len(stack'[i].inners) < Len(Deps[stack'[i].type])
               /\ stack'[i + 1].type = Deps[stack'[i].type][Len(stack'[i].inners) + 1]
    <3>1. CASE i = Depth
      BY <1>2, <1>3, <3>1 DEF MoreDeps, NextDep
    <3>2. CASE i # Depth
      <4>1. i \in 1 .. Depth - 1 /\ stack'[i] = stack[i] /\ stack'[i + 1] = stack[i + 1]
        BY <1>2, <3>2
      <4> QED
        BY <4>1 DEF Callers, StackOK
    <3> QED
      BY <3>1, <3>2
  <2> QED
    BY <1>2, <2>1 DEF Callers
<1>6. \A i \in 1 .. Depth' : stack'[i].pc # "register" => i \in 1 .. Depth /\ stack'[i] = stack[i]
  BY <1>2, <1>3
<1>7. Creating'
  BY <1>6 DEF Creating, StackOK
<1>8. Storing'
  BY <1>6 DEF Storing, StackOK
<1> QED
  BY <1>4, <1>5, <1>7, <1>8 DEF StackOK

-----------------------------------------------------------------------------
(* The id of the next entry is new and is not truncated: there are fewer   *)
(* entries than types, since entries are of distinct types.                *)
LEMMA NextIDFresh ==
  ASSUME TypeOK, EntriesOK, NEW t \in Types, cached[t] = 0
  PROVE  /\ NextID = Len(types) + 1
         /\ NextID \in TypeIDs \ {0}
<1> DEFINE S == 1 .. Len(types)
           f == [i \in S |-> types[i].type]
<1>1. Len(types) \in Nat /\ \A i \in S : types[i].type \in Types
  <2>1. \A i \in S : types[i] \in [id : TypeIDs, type : Types]
    BY ElementOfSeq DEF TypeOK
  <2> QED
    BY <2>1, LenProperties DEF TypeOK
<1>2. f \in Injection(S, Types \ {t})
  <2>1. f \in [S -> Types \ {t}]
    BY <1>1 DEF EntriesOK
  <2>2. \A i, j \in S : f[i] = f[j] => i = j
    BY <1>1 DEF EntriesOK
  <2> QED
    BY <2>1, <2>2 DEF Injection, IsInjective
<1>3. /\ IsFiniteSet(Types \ {t})
      /\ Cardinality(Types \ {t}) = Cardinality(Types) - 1
  BY TypesAssumption, FS_RemoveElement
<1>4. Cardinality(S) <= Cardinality(Types) - 1
  BY <1>2, <1>3, FS_Injection
<1>5. Cardinality(S) = Len(types)
  <2>1. 1 \in Int /\ Len(types) \in Int
    BY <1>1
  <2>2. Cardinality(S) = IF 1 > Len(types) THEN 0 ELSE Len(types) - 1 + 1
    BY <2>1, FS_Interval
  <2> QED
    BY <1>1, <2>2
<1>6. Cardinality(Types) \in Nat
  BY TypesAssumption, FS_CardinalityType
<1>7. Len(types) + 1 \in 1 .. IdModulus - 1
  BY <1>1, <1>4, <1>5, <1>6, IdsFitAssumption
<1>8. (Len(types) + 1) % IdModulus = Len(types) + 1
  BY <1>7, IdsFitAssumption
<1> QED
  BY <1>7, <1>8 DEF NextID, TypeIDs

-----------------------------------------------------------------------------
(* The inner ids keep resolving while static ids are set, and so does one  *)
(* more of them that resolves.                                             *)

(* Ids received stay right when more types get ids. *)
LEMMA PrefixKept ==
  ASSUME NEW old, NEW new, NEW received, NEW t \in Types, Prefix(old, received, t),
         \A u \in Types : old[u] # 0 => new[u] = old[u]
  PROVE  Prefix(new, received, t)
<1> SUFFICES ASSUME NEW k \in 1 .. Len(received)
             PROVE  ResolvesTo(new, received[k], Deps[t][k])
  BY DEF Prefix
<1>1. Deps[t] \in Seq(Types \cup {Void}) /\ k \in 1 .. Len(Deps[t])
  BY DepsAssumption, LenProperties DEF Prefix
<1>2. Deps[t][k] \in Types \cup {Void}
  BY <1>1, ElementOfSeq
<1>3. ResolvesTo(old, received[k], Deps[t][k])
  BY DEF Prefix
<1> QED
  BY <1>2, <1>3 DEF ResolvesTo

(* One more id that resolves is one more base or inner in order. *)
LEMMA PrefixGrows ==
  ASSUME NEW ids, NEW received \in Seq(TypeIDs), NEW t \in Types, NEW id \in TypeIDs,
         Prefix(ids, received, t), Len(received) < Len(Deps[t]),
         ResolvesTo(ids, id, Deps[t][Len(received) + 1])
  PROVE  Prefix(ids, Append(received, id), t)
<1> DEFINE more == Append(received, id)
<1>1. /\ Len(received) \in Nat
      /\ Len(more) = Len(received) + 1
      /\ \A k \in 1 .. Len(received) : more[k] = received[k]
      /\ more[Len(received) + 1] = id
  BY LenProperties
<1>2. Len(Deps[t]) \in Nat
  BY DepsAssumption, LenProperties
<1> HIDE DEF more
<1>3. ASSUME NEW k \in 1 .. Len(more) PROVE ResolvesTo(ids, more[k], Deps[t][k])
  <2>1. CASE k = Len(received) + 1
    BY <1>1, <2>1
  <2>2. CASE k # Len(received) + 1
    BY <1>1, <2>2 DEF Prefix
  <2> QED
    BY <2>1, <2>2
<1>4. Prefix(ids, more, t)
  BY <1>1, <1>2, <1>3 DEF Prefix
<1> QED
  BY <1>4 DEF more

(* What a frame of the stack is made of. *)
LEMMA FrameTypes ==
  ASSUME stack \in Seq(Frames), NEW i \in 1 .. Depth
  PROVE  /\ stack[i] \in Frames
         /\ stack[i].type \in Types
         /\ stack[i].inners \in Seq(TypeIDs)
<1>1. stack[i] \in Frames
  BY ElementOfSeq DEF Depth
<1> QED
  BY <1>1 DEF Frames

(* The caller receives an id that resolves to the type it has asked for.   *)
LEMMA PoppedResolves ==
  ASSUME TypeOK, StackOK, FramesResolve, Busy, Depth > 1,
         NEW id \in TypeIDs, ReturnToCaller(id),
         \A u \in Types : cached[u] # 0 => cached'[u] = cached[u],
         ResolvesTo(cached', id, Top.type)
  PROVE  FramesResolve'
<1>1. /\ Depth' = Depth - 1
      /\ \A i \in 1 .. Depth - 2 : stack'[i] = stack[i]
      /\ stack'[Depth - 1] = Received(stack[Depth - 1], id)
      /\ Depth \in Nat
      /\ Top = stack[Depth]
  BY PoppedStack, TopFrame DEF TypeOK, Depth
<1>2. ASSUME NEW i \in 1 .. Depth - 1
      PROVE  Prefix(cached', stack'[i].inners, stack'[i].type)
  <2>1. /\ i \in 1 .. Depth
        /\ stack[i].type \in Types
        /\ stack[i].inners \in Seq(TypeIDs)
    BY <1>1, FrameTypes DEF TypeOK
  <2>2. Prefix(cached', stack[i].inners, stack[i].type)
    BY <2>1, PrefixKept DEF FramesResolve
  <2>3. CASE i = Depth - 1
    <3>1. /\ stack'[i].type = stack[i].type
          /\ stack'[i].inners = Append(stack[i].inners, id)
      BY <1>1, <2>3 DEF Received
    <3>2. /\ Len(stack[i].inners) < Len(Deps[stack[i].type])
          /\ Top.type = Deps[stack[i].type][Len(stack[i].inners) + 1]
      BY <1>1, <2>3 DEF StackOK, Callers
    <3>3. Prefix(cached', Append(stack[i].inners, id), stack[i].type)
      BY <2>1, <2>2, <3>2, PrefixGrows
    <3> QED
      BY <3>1, <3>3
  <2>4. CASE i # Depth - 1
    BY <1>1, <2>2, <2>4
  <2> QED
    BY <2>3, <2>4
<1> QED
  BY <1>1, <1>2 DEF FramesResolve

(* Replacing the top frame by one that resolves keeps FramesResolve. *)
LEMMA ReplacedResolves ==
  ASSUME TypeOK, FramesResolve, Busy, cached' = cached,
         NEW f \in Frames, SetTop(f), Prefix(cached, f.inners, f.type)
  PROVE  FramesResolve'
<1>1. /\ Depth' = Depth
      /\ \A i \in 1 .. Depth - 1 : stack'[i] = stack[i]
      /\ stack'[Depth] = f
      /\ Depth \in Nat
  BY ReplacedTop, TopFrame DEF TypeOK, Busy, Depth
<1> QED
  BY <1>1 DEF FramesResolve

(* A new frame has received nothing and keeps FramesResolve. *)
LEMMA PushedResolves ==
  ASSUME TypeOK, FramesResolve, cached' = cached, NEW t \in Types, Push(NewFrame(t))
  PROVE  FramesResolve'
<1>1. NewFrame(t) \in Frames /\ NewFrame(t).type = t /\ NewFrame(t).inners = <<>>
  BY EmptySeq DEF NewFrame, Frames
<1>2. /\ Depth' = Depth + 1
      /\ Depth \in Nat
      /\ \A i \in 1 .. Depth : stack'[i] = stack[i]
      /\ stack'[Depth + 1] = NewFrame(t)
  BY <1>1, PushedStack, LenProperties DEF TypeOK, Depth
<1>3. Prefix(cached, <<>>, t)
  <2>1. Len(Deps[t]) \in Nat
    BY DepsAssumption, LenProperties
  <2> QED
    BY <2>1 DEF Prefix
<1>4. ASSUME NEW i \in 1 .. Depth + 1
      PROVE  Prefix(cached, stack'[i].inners, stack'[i].type)
  <2>1. CASE i = Depth + 1
    BY <1>1, <1>2, <1>3, <2>1
  <2>2. CASE i # Depth + 1
    BY <1>2, <2>2 DEF FramesResolve
  <2> QED
    BY <2>1, <2>2
<1> QED
  BY <1>2, <1>4 DEF FramesResolve

-----------------------------------------------------------------------------
(* The inductive invariant holds in every state. *)

(* The inductive invariant holds initially. *)
LEMMA IInvInit == Init => IInv
<1> SUFFICES ASSUME Init PROVE IInv
  OBVIOUS
<1>1. TypeOK
  BY TypeOKInit
<1>2. Len(types) = 0 /\ Depth = 0
  BY EmptySeq DEF Init, Depth
<1>3. EntriesOK /\ CachedOK
  BY <1>2 DEF Init, EntriesOK, CachedOK
<1>4. StackOK
  BY <1>2 DEF StackOK, Pending, Callers, Creating, Storing
<1>5. InnersOK
  BY <1>2 DEF Init, InnersOK, FramesResolve, BuiltResolve, InnersSmaller
<1>6. HangNeedsCycle
  BY DEF Init, HangNeedsCycle
<1> QED
  BY <1>1, <1>3, <1>4, <1>5, <1>6 DEF IInv

(* A result handed to the caller that leaves ids and TypeData alone. *)
LEMMA ErrorKeeps ==
  ASSUME IInv, Busy, NEW e \in ReflectErrors, ReturnError(e),
         UNCHANGED <<types, cached, built, inners, build>>
  PROVE  /\ EntriesOK' /\ CachedOK' /\ StackOK'
         /\ InnersOK' /\ HangNeedsCycle'
<1>1. EntriesOK' /\ CachedOK'
  BY DEF IInv, EntriesOK, CachedOK
<1>2. status' # "hung"
  BY DEF ReturnError, Busy
<1>3. HangNeedsCycle'
  BY <1>2 DEF HangNeedsCycle
<1>4. (BuiltResolve /\ InnersSmaller) => (BuiltResolve /\ InnersSmaller)'
  BY DEF BuiltResolve, InnersSmaller
<1>5. CASE stack' = <<>>
  <2>1. Depth' = 0
    BY <1>5 DEF Depth
  <2>2. StackOK' /\ FramesResolve'
    BY <2>1 DEF StackOK, Pending, Callers, Creating, Storing, FramesResolve
  <2> QED
    BY <1>1, <1>3, <1>4, <2>2 DEF IInv, InnersOK
<1>6. CASE stack' = stack
  <2>1. StackOK'
    BY <1>6 DEF IInv, StackOK, Pending, Callers, Creating, Storing, Depth
  <2>2. FramesResolve => FramesResolve'
    BY <1>6 DEF FramesResolve, Depth
  <2> QED
    BY <1>1, <1>3, <1>4, <2>1, <2>2 DEF IInv, InnersOK
<1>7. ASSUME Depth > 1, build = "release", NEW id \in Garbage, ReturnToCaller(id)
      PROVE  StackOK' /\ InnersOK'
  <2>1. \A i \in 1 .. Depth - 1 : cached'[stack[i].type] = 0
    BY TopFrame DEF IInv, TypeOK, StackOK, Pending
  <2>2. StackOK'
    BY <1>7, <2>1, PoppedOK, GarbageAssumption DEF IInv
  <2> QED
    BY <1>7, <2>2 DEF InnersOK
<1> QED
  BY <1>1, <1>3, <1>5, <1>6, <1>7 DEF ReturnError

(* A stopped program keeps the inductive invariant. *)
LEMMA StutterKeeps == IInv /\ UNCHANGED vars => IInv'
<1> SUFFICES ASSUME IInv, UNCHANGED vars PROVE IInv'
  OBVIOUS
<1> USE DEF vars
<1>1. TypeOK'
  BY DEF IInv, TypeOK, Frames
<1>2. EntriesOK' /\ CachedOK'
  BY DEF IInv, EntriesOK, CachedOK
<1>3. StackOK'
  BY DEF IInv, StackOK, Pending, Callers, Creating, Storing, Depth
<1>4. InnersOK'
  BY DEF IInv, InnersOK, FramesResolve, BuiltResolve, InnersSmaller, Depth
<1>5. HangNeedsCycle'
  BY DEF IInv, HangNeedsCycle, Depth, Top
<1> QED
  BY <1>1, <1>2, <1>3, <1>4, <1>5 DEF IInv

(* A call of ReflectID keeps the inductive invariant. *)
LEMMA ReflectIDKeeps ==
  ASSUME IInv, NEW t \in Types, ReflectID(t), TypeOK'
  PROVE  IInv'
<1>1. EntriesOK' /\ CachedOK'
  BY DEF ReflectID, IInv, EntriesOK, CachedOK
<1>2. HangNeedsCycle'
  BY DEF ReflectID, HangNeedsCycle
<1>3. StackOK'
  <2>1. CASE stack' = <<>>
    <3>1. Depth' = 0
      BY <2>1 DEF Depth
    <3> QED
      BY <3>1 DEF StackOK, Pending, Callers, Creating, Storing
  <2>2. CASE cached[t] = 0 /\ Push(NewFrame(t))
    <3>1. stack' = <<NewFrame(t)>>
      BY <2>2 DEF ReflectID, Push
    <3>2. /\ Depth' = 1
          /\ stack'[1].type = t
          /\ stack'[1].pc = "register"
      BY <3>1 DEF Depth, NewFrame
    <3>3. cached'[t] = 0
      BY <2>2 DEF ReflectID
    <3> QED
      BY <3>2, <3>3 DEF StackOK, Pending, Callers, Creating, Storing
  <2> QED
    BY <2>1, <2>2 DEF ReflectID
<1>4. InnersOK'
  <2>1. (BuiltResolve /\ InnersSmaller) => (BuiltResolve /\ InnersSmaller)'
    BY DEF ReflectID, BuiltResolve, InnersSmaller
  <2>2. FramesResolve => FramesResolve'
    <3>1. CASE stack' = stack
      BY <3>1 DEF ReflectID, FramesResolve, Depth
    <3>2. CASE Push(NewFrame(t))
      BY <3>2, PushedResolves DEF IInv, ReflectID
    <3> QED
      BY <3>1, <3>2 DEF ReflectID
  <2> QED
    BY <2>1, <2>2 DEF IInv, InnersOK, ReflectID
<1> QED
  BY <1>1, <1>2, <1>3, <1>4 DEF IInv

(* The frames below the top are in the CreateImpl of other types than it.  *)
LEMMA LowerFrames ==
  ASSUME TypeOK, StackOK, Busy, NEW i \in 1 .. Depth - 1
  PROVE  /\ stack[i].pc = "create"
         /\ stack[i].type \in Types
         /\ stack[i].type \notin built
         /\ Top.pc = "create" => stack[i].type # Top.type
<1>1. i \in 1 .. Depth /\ Depth \in 1 .. Depth /\ i # Depth /\ Top = stack[Depth]
  BY TopFrame DEF TypeOK
<1>2. stack[i].pc = "create"
  BY DEF StackOK, Callers
<1> QED
  BY <1>1, <1>2, FrameTypes DEF StackOK, Creating, TypeOK

(* A static that is being initialised further down closes a cycle. *)
LEMMA RecursionIsACycle ==
  ASSUME TypeOK, StackOK, Busy, Recursive
  PROVE  \E i \in 1 .. Depth - 1 :
           /\ stack[i].type = Top.type
           /\ \A j \in i .. Depth - 1 : Names(stack[j].type, stack[j + 1].type)
<1>1. PICK i \in 1 .. Depth - 1 : stack[i].type = Top.type
  BY DEF Recursive
<1>2. Depth \in Nat
  BY TopFrame DEF TypeOK
<1>3. ASSUME NEW j \in i .. Depth - 1
      PROVE  Names(stack[j].type, stack[j + 1].type)
  <2>1. j \in 1 .. Depth - 1 /\ j \in 1 .. Depth
    BY <1>2
  <2>2. /\ stack[j].type \in Types
        /\ Len(stack[j].inners) \in Nat
        /\ Len(Deps[stack[j].type]) \in Nat
    BY <2>1, FrameTypes, LenProperties, DepsAssumption DEF TypeOK
  <2>3. /\ Len(stack[j].inners) < Len(Deps[stack[j].type])
        /\ stack[j + 1].type = Deps[stack[j].type][Len(stack[j].inners) + 1]
    BY <2>1 DEF StackOK, Callers
  <2>4. Len(stack[j].inners) + 1 \in 1 .. Len(Deps[stack[j].type])
    BY <2>2, <2>3
  <2> QED
    BY <2>3, <2>4 DEF Names
<1> QED
  BY <1>1, <1>3

(* RegisterType up to the initialiser keeps the inductive invariant. *)
LEMMA RegisterTypeKeeps ==
  ASSUME IInv, RegisterType, TypeOK'
  PROVE  IInv'
<1>1. /\ Busy /\ Top.pc = "register"
      /\ types' = types /\ cached' = cached /\ built' = built
      /\ inners' = inners /\ build' = build
  BY DEF RegisterType
<1>2. Top \in Frames /\ Top.type \in Types /\ Top = stack[Depth] /\ Depth \in 1 .. Depth
  BY <1>1, TopFrame DEF IInv, TypeOK
<1>3. EntriesOK' /\ CachedOK'
  BY <1>1 DEF IInv, EntriesOK, CachedOK
<1>4. (BuiltResolve /\ InnersSmaller) => (BuiltResolve /\ InnersSmaller)'
  BY <1>1 DEF BuiltResolve, InnersSmaller
<1>5. ASSUME NEW e \in ReflectErrors, ReturnError(e) PROVE IInv'
  BY <1>1, <1>5, ErrorKeeps DEF IInv
<1>6. ASSUME NEW pc \in {"create", "emplace"}, SetTop(Goto(Top, pc)), status' = status,
             pc = "create" => Top.type \notin built /\ ~Recursive,
             pc = "emplace" => Top.type \in built
      PROVE  IInv'
  <2>1. /\ Goto(Top, pc) \in Frames
        /\ Goto(Top, pc).type = Top.type
        /\ Goto(Top, pc).pc = pc
        /\ Goto(Top, pc).inners = Top.inners
    BY <1>2 DEF Goto, Frames
  <2>2. \A i \in 1 .. Depth - 1 :
          stack[i].pc = "create" /\ stack[i].type \notin built
    BY <1>1, LowerFrames DEF IInv
  <2>3. pc = "create" => \A i \in 1 .. Depth - 1 : stack[i].type # Top.type
    BY <1>6, <2>2 DEF Recursive
  <2>4. StackOK'
    BY <1>1, <1>6, <2>1, <2>2, <2>3, ReplacedOK DEF IInv
  <2>5. FramesResolve => Prefix(cached, Top.inners, Top.type)
    BY <1>2 DEF FramesResolve
  <2>6. FramesResolve => FramesResolve'
    BY <1>1, <1>6, <2>1, <2>5, ReplacedResolves DEF IInv
  <2>7. InnersOK'
    BY <1>1, <1>4, <2>6 DEF IInv, InnersOK
  <2>8. HangNeedsCycle'
    BY <1>1, <1>6 DEF HangNeedsCycle, Busy
  <2> QED
    BY <1>3, <2>4, <2>7, <2>8 DEF IInv
<1>7. ASSUME Recursive, stack' = stack PROVE IInv'
  <2>1. Depth' = Depth /\ Top' = Top
    BY <1>7 DEF Depth, Top
  <2>2. StackOK'
    BY <1>1, <1>7, <2>1 DEF IInv, StackOK, Pending, Callers, Creating, Storing
  <2>3. InnersOK'
    BY <1>1, <1>4, <1>7, <2>1 DEF IInv, InnersOK, FramesResolve
  <2>4. HangNeedsCycle'
    BY <1>1, <1>7, <2>1, RecursionIsACycle DEF IInv, HangNeedsCycle
  <2> QED
    BY <1>3, <2>2, <2>3, <2>4 DEF IInv
<1> QED
  BY <1>5, <1>6, <1>7 DEF RegisterType, ReflectErrors

(* Reflecting the next base or inner keeps the inductive invariant. *)
LEMMA ReflectInnerKeeps ==
  ASSUME IInv, ReflectInner, TypeOK'
  PROVE  IInv'
<1>1. /\ Busy /\ Top.pc = "create" /\ MoreDeps
      /\ types' = types /\ cached' = cached /\ built' = built
      /\ inners' = inners /\ build' = build /\ status' = status
  BY DEF ReflectInner
<1>2. /\ Top \in Frames /\ Top.type \in Types /\ Top.inners \in Seq(TypeIDs)
      /\ Top = stack[Depth] /\ Depth \in 1 .. Depth
  BY <1>1, TopFrame DEF IInv, TypeOK
<1>3. EntriesOK' /\ CachedOK'
  BY <1>1 DEF IInv, EntriesOK, CachedOK
<1>4. (BuiltResolve /\ InnersSmaller) => (BuiltResolve /\ InnersSmaller)'
  BY <1>1 DEF BuiltResolve, InnersSmaller
<1>5. HangNeedsCycle'
  BY <1>1 DEF HangNeedsCycle, Busy
<1>6. NextDep \in Types \cup {Void}
  BY <1>1, DepTypes DEF IInv
<1>7. CASE Known(NextDep) /\ SetTop(Received(Top, KnownID(NextDep)))
  <2> DEFINE id == KnownID(NextDep)
  <2>1. id \in TypeIDs /\ ResolvesTo(cached, id, NextDep)
    BY <1>6, <1>7, IdModulusPositive DEF IInv, TypeOK, Known, KnownID, ResolvesTo
  <2> HIDE DEF id
  <2>2. /\ Received(Top, id) \in Frames
        /\ Received(Top, id).type = Top.type
        /\ Received(Top, id).pc = "create"
        /\ Received(Top, id).inners = Append(Top.inners, id)
    BY <1>1, <1>2, <2>1 DEF Received, Frames
  <2>3. SetTop(Received(Top, id))
    BY <1>7 DEF id
  <2>4. /\ Top.type \notin built
        /\ \A i \in 1 .. Depth - 1 : stack[i].type \notin built /\ stack[i].type # Top.type
    BY <1>1, <1>2, LowerFrames DEF IInv, StackOK, Creating
  <2>5. StackOK'
    BY <1>1, <2>2, <2>3, <2>4, ReplacedOK DEF IInv
  <2>6. FramesResolve => Prefix(cached, Append(Top.inners, id), Top.type)
    <3>1. FramesResolve => Prefix(cached, Top.inners, Top.type)
      BY <1>2 DEF FramesResolve
    <3> QED
      BY <1>1, <1>2, <2>1, <3>1, PrefixGrows DEF MoreDeps, NextDep
  <2>7. FramesResolve => FramesResolve'
    BY <1>1, <2>2, <2>3, <2>6, ReplacedResolves DEF IInv
  <2> QED
    BY <1>1, <1>3, <1>4, <1>5, <2>5, <2>7 DEF IInv, InnersOK
<1>8. CASE ~Known(NextDep) /\ Push(NewFrame(NextDep))
  <2>1. NextDep \in Types /\ cached[NextDep] = 0
    BY <1>6, <1>8 DEF Known
  <2>2. StackOK'
    BY <1>1, <1>8, <2>1, PushedOK DEF IInv
  <2>3. FramesResolve => FramesResolve'
    BY <1>1, <1>8, <2>1, PushedResolves DEF IInv
  <2> QED
    BY <1>1, <1>3, <1>4, <1>5, <2>2, <2>3 DEF IInv, InnersOK
<1> QED
  BY <1>7, <1>8 DEF ReflectInner

(* Finishing a TypeData keeps the inductive invariant. *)
LEMMA FinishCreateKeeps ==
  ASSUME IInv, FinishCreate, TypeOK'
  PROVE  IInv'
<1>1. /\ Busy /\ Top.pc = "create" /\ ~MoreDeps
      /\ types' = types /\ cached' = cached /\ build' = build /\ status' = status
      /\ built' = built \cup {Top.type}
      /\ inners' = [inners EXCEPT ![Top.type] = Top.inners]
  BY DEF FinishCreate
<1>2. /\ Top \in Frames /\ Top.type \in Types /\ Top.inners \in Seq(TypeIDs)
      /\ Top = stack[Depth] /\ Depth \in 1 .. Depth
  BY <1>1, TopFrame DEF IInv, TypeOK
<1>3. Top.type \notin built /\ cached[Top.type] = 0
  BY <1>1, <1>2 DEF IInv, StackOK, Creating, Pending
<1>4. EntriesOK' /\ CachedOK'
  BY <1>1 DEF IInv, EntriesOK, CachedOK
<1>5. HangNeedsCycle'
  BY <1>1 DEF HangNeedsCycle, Busy
<1>6. /\ Goto(Top, "emplace") \in Frames
      /\ Goto(Top, "emplace").type = Top.type
      /\ Goto(Top, "emplace").pc = "emplace"
      /\ Goto(Top, "emplace").inners = Top.inners
      /\ SetTop(Goto(Top, "emplace"))
  BY <1>2 DEF Goto, Frames, FinishCreate
<1>7. \A i \in 1 .. Depth - 1 : stack[i].type \notin built'
  BY <1>1, LowerFrames DEF IInv
<1>8. StackOK'
  BY <1>1, <1>6, <1>7, ReplacedOK DEF IInv
<1>9. InnersOK'
  <2> SUFFICES ASSUME build = "debug", FramesResolve, BuiltResolve, InnersSmaller
               PROVE  FramesResolve' /\ BuiltResolve' /\ InnersSmaller'
    BY <1>1 DEF IInv, InnersOK
  <2>1. Prefix(cached, Top.inners, Top.type)
    BY <1>2 DEF FramesResolve
  <2>2. FramesResolve'
    BY <1>1, <1>6, <2>1, ReplacedResolves DEF IInv
  <2>3. Len(Top.inners) = Len(Deps[Top.type])
    BY <1>1, <1>2, <2>1, LenProperties, DepsAssumption DEF MoreDeps, Prefix
  <2>4. inners \in [Types -> Seq(TypeIDs)] /\ built \subseteq Types
    BY DEF IInv, TypeOK
  <2>5. \A t \in Types : inners'[t] = IF t = Top.type THEN Top.inners ELSE inners[t]
    BY <1>1, <1>2, <2>4
  <2>6. BuiltResolve'
    BY <1>1, <1>2, <2>1, <2>3, <2>4, <2>5 DEF BuiltResolve
  <2>7. InnersSmaller'
    BY <1>1, <1>3, <2>5 DEF InnersSmaller
  <2> QED
    BY <2>2, <2>6, <2>7
<1> QED
  BY <1>4, <1>5, <1>8, <1>9 DEF IInv

(* Storing a type and its id keeps the inductive invariant. *)
LEMMA EmplaceKeeps ==
  ASSUME IInv, Emplace, TypeOK'
  PROVE  IInv'
<1> DEFINE t == Top.type
           n == NextID
<1>1. /\ Busy /\ Top.pc = "emplace"
      /\ types' = Append(types, [id |-> n, type |-> t])
      /\ cached' = [cached EXCEPT ![t] = n]
      /\ built' = built /\ inners' = inners /\ build' = build /\ status' = status
      /\ ReturnID(n)
  BY DEF Emplace
<1>2. t \in Types /\ Top = stack[Depth] /\ Depth \in 1 .. Depth
  BY <1>1, TopFrame DEF IInv, TypeOK
<1>3. t \in built /\ cached[t] = 0
  BY <1>1, <1>2 DEF IInv, StackOK, Storing, Pending
<1>4. n = Len(types) + 1 /\ n \in TypeIDs \ {0}
  BY <1>2, <1>3, NextIDFresh DEF IInv
<1> HIDE DEF t, n
<1>5. /\ Len(types') = n
      /\ \A i \in 1 .. Len(types) : types'[i] = types[i]
      /\ types'[n] = [id |-> n, type |-> t]
      /\ Len(types) \in Nat
  BY <1>1, <1>4, LenProperties DEF IInv, TypeOK
<1>6. /\ cached'[t] = n
      /\ \A u \in Types : u # t => cached'[u] = cached[u]
      /\ \A u \in Types : cached[u] # 0 => cached'[u] = cached[u] /\ u # t
  BY <1>1, <1>2, <1>3 DEF IInv, TypeOK
<1>7. \A i \in 1 .. Len(types) : types[i].type \in Types
  <2>1. \A i \in 1 .. Len(types) : types[i] \in [id : TypeIDs, type : Types]
    BY ElementOfSeq DEF IInv, TypeOK
  <2> QED
    BY <2>1
<1>8. EntriesOK'
  <2>1. ASSUME NEW i \in 1 .. n
        PROVE  types'[i].id = i /\ cached'[types'[i].type] = i
    <3>1. CASE i = n
      BY <1>5, <1>6, <3>1
    <3>2. CASE i # n
      <4>1. i \in 1 .. Len(types) /\ types'[i] = types[i] /\ i # 0
        BY <1>4, <1>5, <3>2
      <4> QED
        BY <1>6, <1>7, <4>1 DEF IInv, EntriesOK
    <3> QED
      BY <3>1, <3>2
  <2> QED
    BY <1>5, <2>1 DEF EntriesOK
<1>9. CachedOK'
  <2>1. ASSUME NEW u \in Types, cached'[u] # 0
        PROVE  cached'[u] \in 1 .. n /\ types'[cached'[u]].type = u /\ u \in built
    <3>1. CASE u = t
      BY <1>3, <1>4, <1>5, <1>6, <3>1
    <3>2. CASE u # t
      BY <1>4, <1>5, <1>6, <2>1, <3>2 DEF IInv, CachedOK
    <3> QED
      BY <3>1, <3>2
  <2> QED
    BY <1>1, <1>5, <2>1 DEF CachedOK
<1>10. HangNeedsCycle'
  BY <1>1 DEF HangNeedsCycle, Busy
<1>11. StackOK' /\ (FramesResolve => FramesResolve')
  <2>1. CASE stack' = <<>>
    <3>1. Depth' = 0
      BY <2>1 DEF Depth
    <3> QED
      BY <3>1 DEF StackOK, Pending, Callers, Creating, Storing, FramesResolve
  <2>2. CASE Depth > 1 /\ ReturnToCaller(n)
    <3>1. \A i \in 1 .. Depth - 1 :
            stack[i].type \in Types /\ stack[i].type # t /\ cached[stack[i].type] = 0
      <4>1. \A i \in 1 .. Depth - 1 : stack[i].type \in Types /\ stack[i].type \notin built
        BY <1>1, LowerFrames DEF IInv
      <4> QED
        BY <1>2, <1>3, <4>1 DEF IInv, StackOK, Pending
    <3>2. \A i \in 1 .. Depth - 1 : cached'[stack[i].type] = 0
      BY <1>6, <3>1
    <3>3. StackOK'
      BY <1>1, <1>4, <2>2, <3>2, PoppedOK DEF IInv
    <3>4. ResolvesTo(cached', n, Top.type)
      BY <1>2, <1>4, <1>6, TypesAssumption DEF ResolvesTo, t
    <3>5. FramesResolve => FramesResolve'
      BY <1>1, <1>4, <1>6, <2>2, <3>4, PoppedResolves DEF IInv
    <3> QED
      BY <3>3, <3>5
  <2> QED
    BY <1>1, <2>1, <2>2 DEF ReturnID
<1>12. InnersOK'
  <2> SUFFICES ASSUME build = "debug", FramesResolve, BuiltResolve, InnersSmaller
               PROVE  FramesResolve' /\ BuiltResolve' /\ InnersSmaller'
    BY <1>1 DEF IInv, InnersOK
  <2>1. BuiltResolve'
    <3>1. ASSUME NEW u \in built PROVE Prefix(cached', inners[u], u)
      <4>1. u \in Types /\ Prefix(cached, inners[u], u)
        BY <3>1 DEF IInv, TypeOK, BuiltResolve
      <4> QED
        BY <1>6, <4>1, PrefixKept
    <3> QED
      BY <1>1, <3>1 DEF BuiltResolve
  <2>2. \A k \in 1 .. Len(inners[t]) : inners[t][k] < n
    <3> SUFFICES ASSUME NEW k \in 1 .. Len(inners[t]) PROVE inners[t][k] < n
      OBVIOUS
    <3>1. /\ ResolvesTo(cached, inners[t][k], Deps[t][k])
          /\ k \in 1 .. Len(Deps[t])
      BY <1>3 DEF BuiltResolve, Prefix
    <3>2. Deps[t][k] \in Types \cup {Void}
      BY <1>2, <3>1, DepsAssumption, ElementOfSeq
    <3>3. CASE Deps[t][k] = Void
      BY <1>4, <1>5, <3>1, <3>3 DEF ResolvesTo
    <3>4. CASE Deps[t][k] \in Types /\ Deps[t][k] # Void
      BY <1>4, <1>5, <3>1, <3>4 DEF ResolvesTo, IInv, CachedOK
    <3> QED
      BY <3>2, <3>3, <3>4, TypesAssumption
  <2>3. InnersSmaller'
    <3>1. ASSUME NEW u \in Types, cached'[u] # 0
          PROVE  \A k \in 1 .. Len(inners[u]) : inners[u][k] < cached'[u]
      <4>1. CASE u = t
        BY <1>6, <2>2, <4>1
      <4>2. CASE u # t
        BY <1>6, <3>1, <4>2 DEF InnersSmaller
      <4> QED
        BY <4>1, <4>2
    <3> QED
      BY <1>1, <3>1 DEF InnersSmaller
  <2> QED
    BY <1>11, <2>1, <2>3
<1> QED
  BY <1>8, <1>9, <1>10, <1>11, <1>12 DEF IInv

(* Every step keeps the inductive invariant. *)
LEMMA IInvStep == IInv /\ [Next]_vars => IInv'
<1> SUFFICES ASSUME IInv, [Next]_vars PROVE IInv'
  OBVIOUS
<1>1. TypeOK'
  BY TypeOKStep DEF IInv
<1>2. ASSUME Busy, NEW e \in ReflectErrors, ReturnError(e),
             UNCHANGED <<types, cached, built, inners, build>>
      PROVE  IInv'
  BY <1>1, <1>2, ErrorKeeps DEF IInv
<1>3. ASSUME NEW t \in Types, ReflectID(t) PROVE IInv'
  BY <1>1, <1>3, ReflectIDKeeps
<1>4. CASE RegisterType
  BY <1>1, <1>4, RegisterTypeKeeps
<1>5. CASE ReflectInner
  BY <1>1, <1>5, ReflectInnerKeeps
<1>6. CASE FinishCreate
  BY <1>1, <1>6, FinishCreateKeeps
<1>7. CASE CreateThrows
  <2>1. CASE ReturnError("CreationFailed")
    BY <1>2, <1>7, <2>1 DEF CreateThrows, ReflectErrors
  <2>2. CASE status' = "aborted" /\ UNCHANGED <<stack, answer>>
    <3>1. EntriesOK' /\ CachedOK'
      BY <1>7 DEF CreateThrows, IInv, EntriesOK, CachedOK
    <3>2. StackOK'
      BY <1>7, <2>2 DEF CreateThrows, IInv, StackOK, Pending, Callers, Creating, Storing, Depth
    <3>3. InnersOK'
      BY <1>7, <2>2 DEF CreateThrows, IInv, InnersOK, FramesResolve, BuiltResolve, InnersSmaller, Depth
    <3>4. HangNeedsCycle'
      BY <2>2 DEF HangNeedsCycle
    <3> QED
      BY <1>1, <3>1, <3>2, <3>3, <3>4 DEF IInv
  <2> QED
    BY <1>7, <2>1, <2>2 DEF CreateThrows
<1>8. CASE Emplace
  BY <1>1, <1>8, EmplaceKeeps
<1>9. CASE EmplaceThrows
  BY <1>2, <1>9 DEF EmplaceThrows, ReflectErrors
<1>10. CASE UNCHANGED vars
  BY <1>10, StutterKeeps
<1> QED
  BY <1>3, <1>4, <1>5, <1>6, <1>7, <1>8, <1>9, <1>10 DEF Next, Step, Stopped

(* The inductive invariant holds in every reachable state. *)
THEOREM Inductive == Spec => []IInv
<1>1. Init => IInv
  BY IInvInit
<1>2. IInv /\ [Next]_vars => IInv'
  BY IInvStep
<1> QED
  BY <1>1, <1>2, PTL DEF Spec

-----------------------------------------------------------------------------
(* The theorems. *)

(* Static ids and database entries agree in every reachable state, however *)
(* registrations nest and fail: GetType of a type's id is that type.       *)
THEOREM IdsMatch == Spec => []IdsMatchEntries
<1>1. IInv => IdsMatchEntries
  <2> SUFFICES ASSUME IInv, NEW t \in Types, cached[t] # 0 PROVE GetType(cached[t]) = t
    BY DEF IInv, EntriesOK, IdsMatchEntries
  <2>1. /\ cached[t] \in 1 .. Len(types)
        /\ types[cached[t]].type = t
        /\ Len(types) \in Nat
    BY LenProperties DEF IInv, CachedOK, TypeOK
  <2>2. ~(cached[t] = 0) /\ ~(cached[t] > Len(types))
    BY <2>1
  <2> QED
    BY <2>1, <2>2 DEF GetType
<1> QED
  BY <1>1, Inductive, PTL

(* With checked results every inner id of a registered type resolves to    *)
(* the type its initialiser named and is smaller than the type's own id.   *)
THEOREM InnersResolve == Spec => []InnersPrecede
<1>1. IInv => InnersPrecede
  <2> SUFFICES ASSUME IInv, build = "debug", NEW t \in Types, cached[t] # 0
               PROVE  /\ Len(inners[t]) = Len(Deps[t])
                      /\ \A k \in 1 .. Len(inners[t]) :
                           ResolvesTo(cached, inners[t][k], Deps[t][k]) /\ inners[t][k] < cached[t]
    BY DEF InnersPrecede
  <2>1. t \in built /\ BuiltResolve /\ InnersSmaller
    BY DEF IInv, CachedOK, InnersOK
  <2> QED
    BY <2>1 DEF BuiltResolve, Prefix, InnersSmaller
<1> QED
  BY <1>1, Inductive, PTL

(* A registration hangs on its own static only if the types on the stack   *)
(* name each other in a cycle.                                             *)
THEOREM HangsOnlyOnCycles == Spec => []HangNeedsCycle
<1>1. IInv => HangNeedsCycle
  BY DEF IInv
<1> QED
  BY <1>1, Inductive, PTL

(* Ids, entries and the TypeData they point to are never changed by a step.*)
LEMMA StableStep == IInv /\ [Next]_vars => [Stable]_vars
<1> SUFFICES ASSUME IInv, Next PROVE Stable
  OBVIOUS
<1>1. CASE UNCHANGED <<types, cached, built, inners>>
  BY <1>1, LenProperties DEF Stable, IInv, TypeOK
<1>2. CASE FinishCreate
  <2>1. /\ Busy /\ Top.pc = "create"
        /\ types' = types /\ cached' = cached
        /\ built' = built \cup {Top.type}
        /\ inners' = [inners EXCEPT ![Top.type] = Top.inners]
    BY <1>2 DEF FinishCreate
  <2>2. Top.type \in Types /\ Top = stack[Depth] /\ Depth \in 1 .. Depth
    BY <2>1, TopFrame DEF IInv, TypeOK
  <2>3. Top.type \notin built
    BY <2>1, <2>2 DEF IInv, StackOK, Creating
  <2>4. \A t \in built : t \in built' /\ inners'[t] = inners[t]
    BY <2>1, <2>3 DEF IInv, TypeOK
  <2> QED
    BY <2>1, <2>4, LenProperties DEF Stable, IInv, TypeOK
<1>3. CASE Emplace
  <2>1. /\ Busy
        /\ types' = Append(types, [id |-> NextID, type |-> Top.type])
        /\ cached' = [cached EXCEPT ![Top.type] = NextID]
        /\ built' = built /\ inners' = inners
    BY <1>3 DEF Emplace
  <2>2. Top.type \in Types /\ Top = stack[Depth] /\ Depth \in 1 .. Depth
    BY <2>1, TopFrame DEF IInv, TypeOK
  <2>3. cached[Top.type] = 0
    BY <2>2 DEF IInv, StackOK, Pending
  <2>4. \A t \in Types : cached[t] # 0 => cached'[t] = cached[t]
    BY <2>1, <2>3 DEF IInv, TypeOK
  <2>5. \A i \in 1 .. Len(types) : i <= Len(types') /\ types'[i] = types[i]
    BY <2>1, LenProperties DEF IInv, TypeOK
  <2> QED
    BY <2>1, <2>4, <2>5 DEF Stable
<1> QED
  BY <1>1, <1>2, <1>3
     DEF Next, Step, Stopped, ReflectID, RegisterType, ReflectInner, CreateThrows, EmplaceThrows, vars

(* A TypeID that was handed out stays that type's id, an entry stays where *)
(* it is, and a static TypeData is initialised once.                       *)
THEOREM NothingRevoked == Spec => NeverRevoked
<1>1. IInv /\ [Next]_vars => [Stable]_vars
  BY StableStep
<1> QED
  BY <1>1, Inductive, PTL DEF Spec, NeverRevoked

-----------------------------------------------------------------------------
(* The registry implements the catalog. *)

CatalogCaller == IF stack = <<>> THEN Void ELSE stack[1].type

(* A busy registry has a type as its outermost caller. *)
LEMMA CallerIsAType ==
  ASSUME TypeOK, Busy
  PROVE  CatalogCaller = stack[1].type /\ CatalogCaller \in Types
<1>1. 1 \in 1 .. Depth /\ stack # <<>>
  BY TopFrame DEF TypeOK, Busy
<1> QED
  BY <1>1, FrameTypes DEF TypeOK, CatalogCaller

(* Until the outermost frame returns the caller stays the same.            *)
LEMMA CallerKept ==
  ASSUME TypeOK, Busy,
         \/ \E f \in Frames : SetTop(f) /\ f.type = Top.type
         \/ \E f \in Frames : Push(f)
         \/ Depth > 1 /\ \E id \in TypeIDs : ReturnToCaller(id)
         \/ stack' = stack
  PROVE  CatalogCaller' = CatalogCaller
<1>1. /\ Depth \in Nat \ {0} /\ stack # <<>> /\ Top = stack[Depth]
      /\ stack \in Seq(Frames)
  BY TopFrame DEF TypeOK, Busy
<1>2. SUFFICES Len(stack') # 0 /\ stack'[1].type = stack[1].type
  BY <1>1, EmptySeq DEF CatalogCaller
<1>3. CASE \E f \in Frames : SetTop(f) /\ f.type = Top.type
  <2>1. PICK f \in Frames : SetTop(f) /\ f.type = Top.type
    BY <1>3
  <2>2. /\ Len(stack') = Depth
        /\ \A i \in 1 .. Depth - 1 : stack'[i] = stack[i]
        /\ stack'[Depth] = f
    BY <1>1, <2>1, ReplacedTop
  <2>3. CASE Depth = 1
    BY <1>1, <2>1, <2>2, <2>3
  <2>4. CASE Depth # 1
    BY <1>1, <2>2, <2>4
  <2> QED
    BY <2>3, <2>4
<1>4. CASE \E f \in Frames : Push(f)
  <2>1. PICK f \in Frames : Push(f)
    BY <1>4
  <2>2. /\ Len(stack') = Depth + 1
        /\ \A i \in 1 .. Depth : stack'[i] = stack[i]
    BY <1>1, <2>1, PushedStack
  <2> QED
    BY <1>1, <2>2
<1>5. CASE Depth > 1 /\ \E id \in TypeIDs : ReturnToCaller(id)
  <2>1. PICK id \in TypeIDs : ReturnToCaller(id)
    BY <1>5
  <2>2. /\ Len(stack') = Depth - 1
        /\ \A i \in 1 .. Depth - 2 : stack'[i] = stack[i]
        /\ stack'[Depth - 1] = Received(stack[Depth - 1], id)
    BY <1>1, <1>5, <2>1, PoppedStack
  <2>3. CASE Depth = 2
    BY <1>1, <2>2, <2>3 DEF Received
  <2>4. CASE Depth # 2
    BY <1>1, <1>5, <2>2, <2>4
  <2> QED
    BY <2>3, <2>4
<1>6. CASE stack' = stack
  BY <1>1, <1>6, EmptySeq DEF Depth
<1> QED
  BY <1>3, <1>4, <1>5, <1>6

CatalogVars == <<cached, CatalogCaller, answer>>

(* The registry starts as the catalog does. *)
LEMMA CatalogInit == Init => Catalog!Init
<1> SUFFICES ASSUME Init PROVE Catalog!Init
  OBVIOUS
<1> QED
  BY DEF Init, Catalog!Init, Success, Catalog!Success

(* An error is a refusal when it reaches the program, and nothing the      *)
(* catalog knows of when it stops the process or reaches a CreateImpl.     *)
LEMMA CatalogError ==
  ASSUME IInv, Busy, NEW e \in ReflectErrors, ReturnError(e), cached' = cached
  PROVE  Catalog!Refuse \/ UNCHANGED CatalogVars
<1>1. CatalogCaller \in Types /\ CatalogCaller # Void
  BY CallerIsAType, TypesAssumption DEF IInv
<1>2. CASE stack' = <<>> /\ answer' = Failure(e)
  <2>1. CatalogCaller' = Void
    BY <1>2 DEF CatalogCaller
  <2> QED
    BY <1>1, <1>2, <2>1
       DEF Catalog!Refuse, Catalog!ReflectErrors, ReflectErrors, Catalog!Failure, Failure, CatalogCaller
<1>3. CASE stack' = stack /\ answer' = answer
  BY <1>3 DEF CatalogVars, CatalogCaller
<1>4. CASE Depth > 1 /\ (\E id \in Garbage : ReturnToCaller(id)) /\ answer' = answer
  <2>1. CatalogCaller' = CatalogCaller
    BY <1>4, CallerKept, GarbageAssumption DEF IInv
  <2> QED
    BY <1>4, <2>1 DEF CatalogVars
<1> QED
  BY <1>2, <1>3, <1>4 DEF ReturnError

(* Storing a type grants the caller its id or issues one on the way. *)
LEMMA CatalogEmplace ==
  ASSUME IInv, Emplace
  PROVE  Catalog!Grant \/ \E t \in Types : Catalog!IssueOnTheWay(t)
<1> DEFINE t == Top.type
           n == NextID
<1>1. /\ Busy /\ Top.pc = "emplace"
      /\ cached' = [cached EXCEPT ![t] = n]
      /\ ReturnID(n)
  BY DEF Emplace
<1>2. t \in Types /\ Top = stack[Depth] /\ Depth \in 1 .. Depth /\ Depth \in Nat
  BY <1>1, TopFrame DEF IInv, TypeOK
<1>3. cached[t] = 0 /\ t \in built
  BY <1>1, <1>2 DEF IInv, StackOK, Pending, Storing
<1>4. n = Len(types) + 1 /\ n \in TypeIDs \ {0}
  BY <1>2, <1>3, NextIDFresh DEF IInv
<1>5. n \notin {cached[u] : u \in Types}
  <2>1. \A u \in Types : cached[u] # 0 => cached[u] \in 1 .. Len(types)
    BY DEF IInv, CachedOK
  <2> QED
    BY <1>4, <2>1, LenProperties DEF IInv, TypeOK
<1>6. CatalogCaller = stack[1].type /\ CatalogCaller \in Types /\ CatalogCaller # Void
  BY <1>1, CallerIsAType, TypesAssumption DEF IInv
<1> HIDE DEF n
<1>7. Catalog!Issue(t)
  BY <1>1, <1>3, <1>4, <1>5 DEF Catalog!Issue, Catalog!Issued
<1>8. CASE Depth = 1 /\ stack' = <<>> /\ answer' = Success(n)
  <2>1. CatalogCaller = t
    BY <1>2, <1>6, <1>8
  <2>2. cached'[t] = n
    BY <1>1, <1>2 DEF IInv, TypeOK
  <2>3. CatalogCaller' = Void
    BY <1>8 DEF CatalogCaller
  <2> QED
    BY <1>6, <1>7, <1>8, <2>1, <2>2, <2>3
       DEF Catalog!Grant, Catalog!Success, Success, CatalogCaller
<1>9. CASE Depth > 1 /\ ReturnToCaller(n) /\ answer' = answer
  <2>1. 1 \in 1 .. Depth - 1
    BY <1>2, <1>9
  <2>2. CatalogCaller # t
    BY <1>1, <1>3, <1>6, <2>1, LowerFrames DEF IInv
  <2>3. CatalogCaller' = CatalogCaller
    BY <1>1, <1>4, <1>9, CallerKept DEF IInv
  <2>4. Catalog!IssueOnTheWay(t)
    BY <1>6, <1>7, <1>9, <2>2, <2>3 DEF Catalog!IssueOnTheWay, CatalogCaller
  <2> QED
    BY <1>2, <2>4
<1> QED
  BY <1>1, <1>8, <1>9 DEF ReturnID

(* Every step of the registry is a step or a stutter of the catalog. *)
LEMMA CatalogStep == IInv /\ [Next]_vars => [Catalog!Next]_CatalogVars
<1> SUFFICES ASSUME IInv, Next PROVE Catalog!Next \/ UNCHANGED CatalogVars
  BY DEF vars, CatalogVars, CatalogCaller
<1>1. ASSUME NEW t \in Types, ReflectID(t) PROVE Catalog!Lookup(t) \/ Catalog!Ask(t)
  <2>1. CatalogCaller = Void /\ cached' = cached
    BY <1>1 DEF ReflectID, CatalogCaller
  <2>2. CASE cached[t] # 0 /\ answer' = Success(cached[t]) /\ stack' = stack
    BY <2>1, <2>2 DEF Catalog!Lookup, Success, Catalog!Success, CatalogCaller
  <2>3. CASE cached[t] = 0 /\ Push(NewFrame(t)) /\ answer' = answer
    <3>1. stack' = <<NewFrame(t)>>
      BY <1>1, <2>3 DEF ReflectID, Push
    <3>2. stack' # <<>> /\ stack'[1].type = t
      BY <3>1 DEF NewFrame
    <3> QED
      BY <2>1, <2>3, <3>2 DEF Catalog!Ask, CatalogCaller
  <2> QED
    BY <1>1, <2>2, <2>3 DEF ReflectID
<1>2. CASE RegisterType
  <2>1. Busy /\ cached' = cached
    BY <1>2 DEF RegisterType
  <2>2. ASSUME NEW pc \in {"create", "emplace"}, SetTop(Goto(Top, pc)), answer' = answer
        PROVE  UNCHANGED CatalogVars
    <3>1. Goto(Top, pc) \in Frames /\ Goto(Top, pc).type = Top.type
      BY <2>1, TopFrame DEF Goto, Frames, IInv, TypeOK
    <3>2. CatalogCaller' = CatalogCaller
      BY <2>1, <2>2, <3>1, CallerKept DEF IInv
    <3> QED
      BY <2>1, <2>2, <3>2 DEF CatalogVars
  <2>3. CASE stack' = stack /\ answer' = answer
    BY <2>1, <2>3 DEF CatalogVars, CatalogCaller
  <2>4. ASSUME NEW e \in ReflectErrors, ReturnError(e)
        PROVE  Catalog!Refuse \/ UNCHANGED CatalogVars
    BY <2>1, <2>4, CatalogError
  <2> QED
    BY <1>2, <2>2, <2>3, <2>4 DEF RegisterType, ReflectErrors, Catalog!Next
<1>3. CASE ReflectInner
  <2>1. /\ Busy /\ Top.pc = "create" /\ MoreDeps
        /\ cached' = cached /\ answer' = answer
    BY <1>3 DEF ReflectInner
  <2>2. NextDep \in Types \cup {Void}
    BY <2>1, DepTypes DEF IInv
  <2>3. CASE Known(NextDep) /\ SetTop(Received(Top, KnownID(NextDep)))
    <3>1. KnownID(NextDep) \in TypeIDs
      BY <2>2, IdModulusPositive DEF KnownID, IInv, TypeOK
    <3>2. /\ Received(Top, KnownID(NextDep)) \in Frames
          /\ Received(Top, KnownID(NextDep)).type = Top.type
      BY <2>1, <3>1, TopFrame DEF Received, Frames, IInv, TypeOK
    <3>3. CatalogCaller' = CatalogCaller
      BY <2>1, <2>3, <3>2, CallerKept DEF IInv
    <3> QED
      BY <2>1, <3>3 DEF CatalogVars
  <2>4. CASE ~Known(NextDep) /\ Push(NewFrame(NextDep))
    <3>1. NewFrame(NextDep) \in Frames
      BY <2>2, <2>4, EmptySeq DEF Known, NewFrame, Frames
    <3>2. CatalogCaller' = CatalogCaller
      BY <2>1, <2>4, <3>1, CallerKept DEF IInv
    <3> QED
      BY <2>1, <3>2 DEF CatalogVars
  <2> QED
    BY <1>3, <2>3, <2>4 DEF ReflectInner
<1>4. CASE FinishCreate
  <2>1. Busy /\ cached' = cached /\ answer' = answer /\ SetTop(Goto(Top, "emplace"))
    BY <1>4 DEF FinishCreate
  <2>2. Goto(Top, "emplace") \in Frames /\ Goto(Top, "emplace").type = Top.type
    BY <2>1, TopFrame DEF Goto, Frames, IInv, TypeOK
  <2>3. CatalogCaller' = CatalogCaller
    BY <2>1, <2>2, CallerKept DEF IInv
  <2> QED
    BY <2>1, <2>3 DEF CatalogVars
<1>5. CASE CreateThrows
  <2>1. Busy /\ cached' = cached
    BY <1>5 DEF CreateThrows
  <2>2. CASE ReturnError("CreationFailed")
    BY <2>1, <2>2, CatalogError DEF ReflectErrors, Catalog!Next
  <2>3. CASE UNCHANGED <<stack, answer>>
    BY <2>1, <2>3 DEF CatalogVars, CatalogCaller
  <2> QED
    BY <1>5, <2>2, <2>3 DEF CreateThrows
<1>6. CASE Emplace
  BY <1>6, CatalogEmplace DEF Catalog!Next
<1>7. CASE EmplaceThrows
  <2>1. Busy /\ cached' = cached /\ ReturnError("OutOfMemory")
    BY <1>7 DEF EmplaceThrows
  <2> QED
    BY <2>1, CatalogError DEF ReflectErrors, Catalog!Next
<1>8. CASE Stopped
  BY <1>8 DEF Stopped, vars, CatalogVars, CatalogCaller
<1> QED
  BY <1>1, <1>2, <1>3, <1>4, <1>5, <1>6, <1>7, <1>8 DEF Next, Step, Catalog!Next

(* The registry implements the catalog: seen through the static ids, the   *)
(* outermost call and the last answer, every behaviour is one of the       *)
(* catalog's, however registrations nest inside it.                        *)
THEOREM RegistryImplementsCatalog == Spec => ImplementsCatalog
<1>1. Init => Catalog!Init
  BY CatalogInit
<1>2. IInv /\ [Next]_vars => [Catalog!Next]_(Catalog!vars)
  BY CatalogStep DEF Catalog!vars, CatalogVars, CatalogCaller
<1> QED
  BY <1>1, <1>2, Inductive, PTL DEF Spec, ImplementsCatalog, Catalog!Spec

-----------------------------------------------------------------------------
(* The end of a registration. *)

(* What is left of a frame: the ids its initialiser has to receive, and    *)
(* the places of RegisterType it has to go through.                        *)
FrameLeft(f) ==
  CASE f.pc = "register" -> Len(Deps[f.type]) + 2
    [] f.pc = "create"   -> Len(Deps[f.type]) + 1 - Len(f.inners)
    [] OTHER             -> 0

(* The call stack is never deeper than there are types, and one more, and  *)
(* in each frame a natural number of things is left.                       *)
StackBounded ==
  /\ Depth <= Cardinality(Types) + 1
  /\ \A i \in 1 .. Depth : FrameLeft(stack[i]) \in Nat

(* Every step of a registration stops the process, ends the call, or       *)
(* leaves less in a frame and changes none below it, where a frame that is *)
(* not there counts for more than any that is.                             *)
StackWindsDown ==
  \/ status' # "running"
  \/ stack' = <<>>
  \/ \E k \in 1 .. Depth' :
       /\ \A i \in 1 .. k - 1 : stack'[i] = stack[i]
       /\ k > Depth \/ FrameLeft(stack'[k]) < FrameLeft(stack[k])
RegistrationWindsDown == [][Step => StackWindsDown]_vars

(* No initialiser receives more ids than it names types. *)
Collecting == \A i \in 1 .. Depth : Len(stack[i].inners) <= Len(Deps[stack[i].type])

(* How a step changes a frame that stays. *)
Advanced(f, g) ==
  /\ g.type = f.type
  /\ \/ f.pc = "register" /\ g.pc \in {"create", "emplace"} /\ g.inners = f.inners
     \/ f.pc = "create" /\ g.pc = "emplace" /\ g.inners = f.inners
     \/ /\ f.pc = "create" /\ g.pc = "create" /\ Len(f.inners) < Len(Deps[f.type])
        /\ \E id \in TypeIDs : g.inners = Append(f.inners, id)

LEMMA AdvancedLeavesLess ==
  ASSUME NEW f \in Frames, NEW g \in Frames, Advanced(f, g),
         Len(f.inners) <= Len(Deps[f.type])
  PROVE  /\ FrameLeft(g) < FrameLeft(f)
         /\ Len(g.inners) <= Len(Deps[g.type])
<1> DEFINE n == Len(f.inners)
           d == Len(Deps[f.type])
<1>1. f.type \in Types /\ g.type = f.type /\ f.inners \in Seq(TypeIDs)
  BY DEF Frames, Advanced
<1>2. n \in Nat /\ d \in Nat /\ n <= d
  BY <1>1, DepsAssumption, LenProperties
<1>3. FrameLeft(f) = IF f.pc = "register" THEN d + 2 ELSE IF f.pc = "create" THEN d + 1 - n ELSE 0
  BY DEF FrameLeft
<1>4. FrameLeft(g) = IF g.pc = "register" THEN d + 2
                     ELSE IF g.pc = "create" THEN d + 1 - Len(g.inners) ELSE 0
  BY <1>1 DEF FrameLeft
<1> DEFINE m == Len(g.inners)
<1>5. Len(Deps[g.type]) = d
  BY <1>1
<1> HIDE DEF n, d, m
<1>6. CASE f.pc = "register" /\ g.pc \in {"create", "emplace"} /\ g.inners = f.inners
  <2>1. m = n
    BY <1>6 DEF m, n
  <2>2. FrameLeft(f) = d + 2 /\ FrameLeft(g) \in {d + 1 - n, 0}
    BY <1>3, <1>4, <1>6, <2>1 DEF m
  <2> QED
    BY <1>2, <1>5, <2>1, <2>2 DEF m
<1>7. CASE f.pc = "create" /\ g.pc = "emplace" /\ g.inners = f.inners
  <2>1. m = n
    BY <1>7 DEF m, n
  <2>2. FrameLeft(f) = d + 1 - n /\ FrameLeft(g) = 0
    BY <1>3, <1>4, <1>7
  <2> QED
    BY <1>2, <1>5, <2>1, <2>2 DEF m
<1>8. CASE /\ f.pc = "create" /\ g.pc = "create" /\ n < d
           /\ \E id \in TypeIDs : g.inners = Append(f.inners, id)
  <2>1. m = n + 1
    BY <1>1, <1>8 DEF m, n
  <2>2. FrameLeft(f) = d + 1 - n /\ FrameLeft(g) = d + 1 - m
    BY <1>3, <1>4, <1>8 DEF m
  <2> QED
    BY <1>2, <1>5, <1>8, <2>1, <2>2 DEF m
<1> QED
  BY <1>6, <1>7, <1>8 DEF Advanced, n, d

(* The top frame's ReflectID<T>() ends the call, stops the process or hands *)
(* an id to the frame below.                                                *)
LEMMA ReturnAdvances ==
  ASSUME IInv, Busy,
         \/ \E id \in TypeIDs : ReturnID(id)
         \/ \E e \in ReflectErrors : ReturnError(e)
  PROVE  \/ status' # "running" /\ stack' = stack
         \/ stack' = <<>>
         \/ /\ Depth > 1 /\ stack' \in Seq(Frames) /\ Len(stack') = Depth - 1
            /\ \A i \in 1 .. Depth - 2 : stack'[i] = stack[i]
            /\ Advanced(stack[Depth - 1], stack'[Depth - 1])
<1>1. CASE Depth > 1 /\ \E id \in TypeIDs : ReturnToCaller(id)
  <2>1. PICK id \in TypeIDs : ReturnToCaller(id)
    BY <1>1
  <2>2. /\ stack' \in Seq(Frames)
        /\ Len(stack') = Depth - 1
        /\ \A i \in 1 .. Depth - 2 : stack'[i] = stack[i]
        /\ stack'[Depth - 1] = Received(stack[Depth - 1], id)
    BY <1>1, <2>1, PoppedStack DEF IInv, TypeOK
  <2>3. Depth - 1 \in 1 .. Depth - 1
    BY <1>1, TopFrame DEF IInv, TypeOK
  <2>4. /\ stack[Depth - 1].pc = "create"
        /\ Len(stack[Depth - 1].inners) < Len(Deps[stack[Depth - 1].type])
    BY <2>3 DEF IInv, StackOK, Callers
  <2>5. Advanced(stack[Depth - 1], stack'[Depth - 1])
    BY <2>2, <2>4 DEF Advanced, Received
  <2> QED
    BY <1>1, <2>2, <2>5
<1>2. CASE stack' = <<>>
  BY <1>2
<1>3. CASE status' = "aborted" /\ stack' = stack
  BY <1>3
<1> QED
  BY <1>1, <1>2, <1>3, GarbageAssumption DEF ReturnID, ReturnError

(* Every step of a registration stops the process, ends the call, advances *)
(* the top frame, calls, or returns.                                       *)
LEMMA StepAdvances ==
  ASSUME IInv, Step
  PROVE  \/ status' # "running" /\ stack' = stack
         \/ stack' = <<>>
         \/ /\ stack' \in Seq(Frames) /\ Len(stack') = Depth
            /\ \A i \in 1 .. Depth - 1 : stack'[i] = stack[i]
            /\ Advanced(stack[Depth], stack'[Depth])
         \/ /\ stack' \in Seq(Frames) /\ Len(stack') = Depth + 1
            /\ \A i \in 1 .. Depth : stack'[i] = stack[i]
            /\ \E u \in Types : stack'[Depth + 1] = NewFrame(u)
         \/ /\ Depth > 1 /\ stack' \in Seq(Frames) /\ Len(stack') = Depth - 1
            /\ \A i \in 1 .. Depth - 2 : stack'[i] = stack[i]
            /\ Advanced(stack[Depth - 1], stack'[Depth - 1])
<1>1. Busy /\ stack \in Seq(Frames) /\ stack # <<>> /\ Top \in Frames /\ Top = stack[Depth]
  BY TopFrame
     DEF IInv, TypeOK, Busy, Step, RegisterType, ReflectInner, FinishCreate, CreateThrows, Emplace,
         EmplaceThrows
<1>2. ASSUME NEW f \in Frames, SetTop(f), Advanced(Top, f)
      PROVE  /\ stack' \in Seq(Frames) /\ Len(stack') = Depth
             /\ \A i \in 1 .. Depth - 1 : stack'[i] = stack[i]
             /\ Advanced(stack[Depth], stack'[Depth])
  BY <1>1, <1>2, ReplacedTop
<1>3. CASE RegisterType
  <2>1. \A pc \in {"create", "emplace"} :
          Goto(Top, pc) \in Frames /\ (Top.pc = "register" => Advanced(Top, Goto(Top, pc)))
    BY <1>1 DEF Frames, Goto, Advanced
  <2>2. CASE \E pc \in {"create", "emplace"} : SetTop(Goto(Top, pc))
    BY <1>2, <1>3, <2>1, <2>2 DEF RegisterType
  <2>3. CASE \E e \in ReflectErrors : ReturnError(e)
    BY <1>1, <2>3, ReturnAdvances
  <2>4. CASE status' \in {"hung", "aborted"} /\ stack' = stack
    BY <2>4
  <2> QED
    BY <1>3, <2>2, <2>3, <2>4 DEF RegisterType, ReflectErrors
<1>4. CASE ReflectInner
  <2>1. /\ Top.pc = "create" /\ Len(Top.inners) < Len(Deps[Top.type])
        /\ NextDep \in Types \cup {Void}
    BY <1>1, <1>4, DepTypes DEF ReflectInner, MoreDeps, IInv
  <2>2. CASE SetTop(Received(Top, KnownID(NextDep)))
    <3>1. KnownID(NextDep) \in TypeIDs
      BY <2>1, IdModulusPositive DEF KnownID, IInv, TypeOK
    <3>2. Received(Top, KnownID(NextDep)) \in Frames
      BY <1>1, <3>1 DEF Received, Frames
    <3>3. Advanced(Top, Received(Top, KnownID(NextDep)))
      BY <2>1, <3>1 DEF Received, Advanced
    <3> QED
      BY <1>2, <2>2, <3>2, <3>3
  <2>3. CASE ~Known(NextDep) /\ Push(NewFrame(NextDep))
    <3>1. NextDep \in Types
      BY <2>1, <2>3 DEF Known
    <3>2. NewFrame(NextDep) \in Frames
      BY <3>1, EmptySeq DEF NewFrame, Frames
    <3> QED
      BY <1>1, <2>3, <3>1, <3>2, PushedStack
  <2> QED
    BY <1>4, <2>2, <2>3 DEF ReflectInner
<1>5. CASE FinishCreate
  <2>1. Goto(Top, "emplace") \in Frames /\ SetTop(Goto(Top, "emplace"))
    BY <1>1, <1>5 DEF Frames, Goto, FinishCreate
  <2>2. Advanced(Top, Goto(Top, "emplace"))
    BY <1>5 DEF Goto, Advanced, FinishCreate
  <2> QED
    BY <1>2, <2>1, <2>2
<1>6. CASE CreateThrows
  <2>1. CASE ReturnError("CreationFailed")
    BY <1>1, <2>1, ReturnAdvances DEF ReflectErrors
  <2>2. CASE status' = "aborted" /\ stack' = stack
    BY <2>2
  <2> QED
    BY <1>6, <2>1, <2>2 DEF CreateThrows
<1>7. CASE Emplace
  <2>1. NextID \in TypeIDs
    BY LenProperties, IdModulusPositive DEF NextID, TypeIDs, IInv, TypeOK
  <2> QED
    BY <1>1, <1>7, <2>1, ReturnAdvances DEF Emplace
<1>8. CASE EmplaceThrows
  BY <1>1, <1>8, ReturnAdvances DEF EmplaceThrows, ReflectErrors
<1> QED
  BY <1>3, <1>4, <1>5, <1>6, <1>7, <1>8 DEF Step

(* Steps keep the count of the ids received. *)
LEMMA CollectingStep ==
  ASSUME IInv, IInv', Collecting, [Next]_vars
  PROVE  Collecting'
<1>1. Depth \in Nat /\ stack \in Seq(Frames) /\ \A i \in 1 .. Depth : stack[i] \in Frames
  BY ElementOfSeq, LenProperties DEF Depth, IInv, TypeOK
<1>2. Depth' = Len(stack')
  BY DEF Depth
<1>3. CASE stack' = stack
  BY <1>3 DEF Collecting, Depth
<1>4. CASE stack' = <<>>
  BY <1>2, <1>4 DEF Collecting
<1>5. ASSUME NEW u \in Types, stack' \in Seq(Frames), Len(stack') = Depth + 1,
             \A i \in 1 .. Depth : stack'[i] = stack[i],
             stack'[Depth + 1] = NewFrame(u)
      PROVE  Collecting'
  <2>1. Len(NewFrame(u).inners) = 0 /\ Len(Deps[NewFrame(u).type]) \in Nat
    BY DepsAssumption, LenProperties DEF NewFrame
  <2>2. ASSUME NEW i \in 1 .. Depth'
        PROVE  Len(stack'[i].inners) <= Len(Deps[stack'[i].type])
    <3>1. CASE i \in 1 .. Depth
      BY <1>5, <3>1 DEF Collecting
    <3>2. CASE i = Depth + 1
      BY <1>5, <2>1, <3>2
    <3> QED
      BY <1>1, <1>2, <1>5, <3>1, <3>2
  <2> QED
    BY <2>2 DEF Collecting
<1>6. ASSUME NEW k \in 1 .. Depth, stack' \in Seq(Frames), Len(stack') = k,
             \A i \in 1 .. k - 1 : stack'[i] = stack[i],
             Advanced(stack[k], stack'[k])
      PROVE  Collecting'
  <2>1. stack[k] \in Frames /\ stack'[k] \in Frames
    BY <1>1, <1>6, ElementOfSeq
  <2>2. Len(stack'[k].inners) <= Len(Deps[stack'[k].type])
    BY <1>6, <2>1, AdvancedLeavesLess DEF Collecting
  <2>3. ASSUME NEW i \in 1 .. Depth'
        PROVE  Len(stack'[i].inners) <= Len(Deps[stack'[i].type])
    <3>1. CASE i \in 1 .. k - 1
      <4>1. i \in 1 .. Depth
        BY <1>1, <3>1
      <4> QED
        BY <1>6, <3>1, <4>1 DEF Collecting
    <3>2. CASE i = k
      BY <2>2, <3>2
    <3> QED
      BY <1>1, <1>2, <1>6, <3>1, <3>2
  <2> QED
    BY <2>3 DEF Collecting
<1>7. CASE Step
  BY <1>1, <1>3, <1>4, <1>5, <1>6, <1>7, StepAdvances
<1>8. ASSUME NEW t \in Types, ReflectID(t) PROVE Collecting'
  <2>1. CASE Push(NewFrame(t))
    <3>1. NewFrame(t) \in Frames
      BY EmptySeq DEF NewFrame, Frames
    <3> QED
      BY <1>1, <1>5, <2>1, <3>1, PushedStack
  <2> QED
    BY <1>3, <1>8, <2>1 DEF ReflectID
<1> QED
  BY <1>3, <1>7, <1>8 DEF Next, Stopped, vars

LEMMA AlwaysCollecting == Spec => []Collecting
<1>1. Init => Collecting
  BY EmptySeq DEF Init, Collecting, Depth
<1>2. IInv /\ IInv' /\ Collecting /\ [Next]_vars => Collecting'
  BY CollectingStep
<1> QED
  BY <1>1, <1>2, Inductive, PTL DEF Spec

(* The frames below the top are inside initialisers of different types.    *)
LEMMA NoDeeperThanTypes == IInv => Depth <= Cardinality(Types) + 1
<1> SUFFICES ASSUME IInv PROVE Depth <= Cardinality(Types) + 1
  OBVIOUS
<1> DEFINE S == 1 .. Depth - 1
           f == [i \in S |-> stack[i].type]
<1>1. Depth \in Nat /\ \A i \in S : stack[i].type \in Types
  <2>1. Depth \in Nat
    BY LenProperties DEF Depth, IInv, TypeOK
  <2>2. \A i \in S : i \in 1 .. Depth
    BY <2>1
  <2>3. \A i \in S : stack[i] \in Frames
    BY <2>2, ElementOfSeq DEF Depth, IInv, TypeOK
  <2> QED
    BY <2>1, <2>3 DEF Frames
<1>2. \A i, j \in S : f[i] = f[j] => i = j
  <2>1. \A i \in S : i \in 1 .. Depth /\ stack[i].pc = "create"
    BY <1>1 DEF IInv, StackOK, Callers
  <2> QED
    BY <2>1 DEF IInv, StackOK, Creating
<1>3. f \in Injection(S, Types)
  BY <1>1, <1>2 DEF Injection, IsInjective
<1>4. Cardinality(S) <= Cardinality(Types)
  BY <1>3, TypesAssumption, FS_Injection
<1>5. Cardinality(S) = IF 1 > Depth - 1 THEN 0 ELSE Depth - 1 - 1 + 1
  <2>1. 1 \in Int /\ Depth - 1 \in Int
    BY <1>1
  <2> QED
    BY <2>1, FS_Interval
<1>6. Cardinality(Types) \in Nat
  BY TypesAssumption, FS_CardinalityType
<1> QED
  BY <1>1, <1>4, <1>5, <1>6

LEMMA StacksAreBounded == IInv /\ Collecting => StackBounded
<1> SUFFICES ASSUME IInv, Collecting PROVE StackBounded
  OBVIOUS
<1>1. ASSUME NEW i \in 1 .. Depth PROVE FrameLeft(stack[i]) \in Nat
  <2>1. stack[i].type \in Types /\ stack[i].inners \in Seq(TypeIDs)
    <3>1. stack[i] \in Frames
      BY ElementOfSeq DEF Depth, IInv, TypeOK
    <3> QED
      BY <3>1 DEF Frames
  <2> DEFINE n == Len(stack[i].inners)
             d == Len(Deps[stack[i].type])
  <2>2. n \in Nat /\ d \in Nat /\ n <= d
    BY <2>1, DepsAssumption, LenProperties DEF Collecting
  <2>3. FrameLeft(stack[i]) \in {d + 2, d + 1 - n, 0}
    BY DEF FrameLeft
  <2> HIDE DEF n, d
  <2> QED
    BY <2>2, <2>3
<1> QED
  BY <1>1, NoDeeperThanTypes DEF StackBounded

LEMMA StepWindsDown ==
  ASSUME IInv, Collecting, Step
  PROVE  StackWindsDown
<1>1. Depth \in Nat /\ Depth' = Len(stack') /\ \A i \in 1 .. Depth : stack[i] \in Frames
  BY ElementOfSeq, LenProperties DEF Depth, IInv, TypeOK
<1>2. Depth # 0
  BY TopFrame
     DEF IInv, TypeOK, Step, RegisterType, ReflectInner, FinishCreate, CreateThrows, Emplace,
         EmplaceThrows
<1>3. ASSUME NEW k \in 1 .. Depth, stack' \in Seq(Frames), Len(stack') = k,
             \A i \in 1 .. k - 1 : stack'[i] = stack[i],
             Advanced(stack[k], stack'[k])
      PROVE  StackWindsDown
  <2>1. stack[k] \in Frames /\ stack'[k] \in Frames /\ k \in 1 .. Depth'
    BY <1>1, <1>3, ElementOfSeq
  <2>2. FrameLeft(stack'[k]) < FrameLeft(stack[k])
    BY <1>3, <2>1, AdvancedLeavesLess DEF Collecting
  <2> QED
    BY <1>3, <2>1, <2>2 DEF StackWindsDown
<1>4. ASSUME Len(stack') = Depth + 1, \A i \in 1 .. Depth : stack'[i] = stack[i]
      PROVE  StackWindsDown
  <2>1. Depth + 1 \in 1 .. Depth' /\ Depth + 1 > Depth /\ (Depth + 1) - 1 = Depth
    BY <1>1, <1>4
  <2> QED
    BY <1>4, <2>1 DEF StackWindsDown
<1>5. Depth \in 1 .. Depth /\ (Depth > 1 => Depth - 1 \in 1 .. Depth /\ (Depth - 1) - 1 = Depth - 2)
  BY <1>1, <1>2
<1>6. CASE status' # "running" \/ stack' = <<>>
  BY <1>6 DEF StackWindsDown
<1> QED
  BY <1>3, <1>4, <1>5, <1>6, StepAdvances

(* A registration ends, in both builds, also when types name each other in *)
(* a cycle: each step stops the process, ends the call, or leaves less of  *)
(* the innermost frame it touches, and there are never more frames than    *)
(* types and one.  What remains of CallReturns is that steps are taken.    *)
THEOREM RegistrationsWindDown == Spec => []StackBounded /\ RegistrationWindsDown
<1>1. IInv /\ Collecting /\ [Next]_vars => [Step => StackWindsDown]_vars
  BY StepWindsDown
<1> QED
  BY <1>1, StacksAreBounded, AlwaysCollecting, Inductive, PTL DEF Spec, RegistrationWindsDown
=============================================================================
