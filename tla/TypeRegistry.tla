---------------------------- MODULE TypeRegistry ----------------------------
(***************************************************************************)
(* The type registry of refl-cpp: ReflectionDatabase, the static id of     *)
(* TypeInstance<T> and the static TypeData of ReflectData<T>.              *)
(*                                                                         *)
(* ReflectID<T>() registers T the first time it is called.  Registration   *)
(* builds the TypeData of T, whose initialiser (CreateImpl) calls          *)
(* ReflectID<U>().value() for every base and inner type U it names, so     *)
(* registrations nest: `stack` is the C++ call stack of the registrations  *)
(* in progress, outermost first.  The database checks its limit before the *)
(* nested registrations and computes the id after them.                    *)
(*                                                                         *)
(* A TypeData names types only through bases and inners; both are          *)
(* evaluated in order and kept here as the one sequence `inners`.          *)
(*                                                                         *)
(* Operators with an underscore in their name are faulty variants of the   *)
(* operator of that name, used to see that the properties notice the fault.*)
(***************************************************************************)
EXTENDS Naturals, Sequences, FiniteSets

CONSTANTS
  Types,      (* the types that have a ReflectData                         *)
  Void,       (* void: answered by TypeInstance<void>, never registered    *)
  Deps,       (* Deps[t]: the types the initialiser of t's TypeData names  *)
  IdModulus,  (* a TypeID is a uint32_t: 2^32                              *)
  SizeMax,    (* SIZE_MAX                                                  *)
  Garbage     (* the ids a release build can read from a failed result     *)

TypeIDs == 0 .. IdModulus - 1

ASSUME TypesAssumption    == IsFiniteSet(Types) /\ Void \notin Types
ASSUME DepsAssumption     == Deps \in [Types -> Seq(Types \cup {Void})]
ASSUME IdsFitAssumption   == IdModulus \in Nat /\ Cardinality(Types) < IdModulus
ASSUME SizeMaxAssumption  == SizeMax \in Nat
ASSUME GarbageAssumption  == Garbage \subseteq TypeIDs

VARIABLES
  types,    (* ReflectionDatabase::types_                                  *)
  cached,   (* TypeInstance<T>::ID()'s static id, 0 until T is registered  *)
  built,    (* the types whose static TypeData is initialised              *)
  inners,   (* TypeData::bases and TypeData::inners of the built types     *)
  stack,    (* the registrations in progress, outermost first              *)
  status,   (* running, aborted or hung                                    *)
  build,    (* debug or release: whether res-cpp checks value()            *)
  answer    (* what the last outermost ReflectID<T>() returned             *)

vars == <<types, cached, built, inners, stack, status, build, answer>>

-----------------------------------------------------------------------------
(* Results of ReflectID<T>(): rescpp::result<TypeID, ReflectError>. *)

ReflectErrors == {"MaxLimitReached", "CreationFailed", "OutOfMemory"}
Success(id)   == [error |-> "None", id |-> id]
Failure(e)    == [error |-> e, id |-> 0]
Results       == [error : ReflectErrors \cup {"None"}, id : TypeIDs]

(* TypeInstance<U>::ID() without a registration: void has the id 0, which  *)
(* is also TypeID::Invalid(); any other type answers its static id.        *)
Known(u)   == u # Void => cached[u] # 0
KnownID_SignedInvalid(u) == IF u = Void THEN 0 - 1 ELSE cached[u]
KnownID(u) == IF u = Void THEN 0 ELSE cached[u]

(* ReflectionDatabase::GetType, with the position in types_ for the Type&. *)
GetType(id) ==
  CASE id = 0          -> "InvalidID"
    [] id > Len(types) -> "NotFound"
    [] OTHER           -> types[id].type

-----------------------------------------------------------------------------
(* The call stack. *)

Frames == [type : Types, pc : {"register", "create", "emplace"}, inners : Seq(TypeIDs)]

Busy      == stack # <<>> /\ status = "running"
Depth     == Len(stack)
Top       == stack[Depth]

NewFrame(t)      == [type |-> t, pc |-> "register", inners |-> <<>>]
Goto(f, pc)      == [type |-> f.type, pc |-> pc, inners |-> f.inners]
Received(f, id)  == [type |-> f.type, pc |-> f.pc, inners |-> Append(f.inners, id)]

(* The type whose TypeData the top frame has to reflect next. *)
NextDep   == Deps[Top.type][Len(Top.inners) + 1]
MoreDeps  == Len(Top.inners) < Len(Deps[Top.type])

(* T's magic static is being initialised further down the stack. *)
Recursive_AnyNesting == Depth > 1
Recursive == \E i \in 1 .. Depth - 1 : stack[i].type = Top.type /\ stack[i].pc = "create"

Push(f)   == stack' = Append(stack, f)
SetTop(f) == stack' = [stack EXCEPT ![Depth] = f]

(* The caller's CreateImpl goes on with `id` as the next base or inner.    *)
ReturnToCaller(id) ==
  stack' = SubSeq([stack EXCEPT ![Depth - 1] = Received(@, id)], 1, Depth - 1)

(* The top frame's ReflectID<T>() succeeds. *)
ReturnID(id) ==
  \/ /\ Depth = 1
     /\ stack' = <<>>
     /\ answer' = Success(id)
  \/ /\ Depth > 1
     /\ ReturnToCaller(id)
     /\ UNCHANGED answer

ReturnError_RetriesInner(e) ==
  \/ /\ Depth = 1
     /\ stack' = <<>>
     /\ answer' = Failure(e)
     /\ UNCHANGED status
  \/ /\ Depth > 1
     /\ stack' = SubSeq(stack, 1, Depth - 1)
     /\ UNCHANGED <<status, answer>>

(* The top frame's ReflectID<T>() fails.  An outermost caller gets the     *)
(* error; a CreateImpl calls value() on it, which a debug build of res-cpp *)
(* checks (the process ends) and a release build does not (it reads        *)
(* whatever the result holds).                                             *)
ReturnError(e) ==
  \/ /\ Depth = 1
     /\ stack' = <<>>
     /\ answer' = Failure(e)
     /\ UNCHANGED status
  \/ /\ Depth > 1
     /\ build = "debug"
     /\ status' = "aborted"
     /\ UNCHANGED <<stack, answer>>
  \/ /\ Depth > 1
     /\ build = "release"
     /\ \E id \in Garbage : ReturnToCaller(id)
     /\ UNCHANGED <<status, answer>>

-----------------------------------------------------------------------------
(* Actions. *)

Init ==
  /\ types = <<>>
  /\ cached = [t \in Types |-> 0]
  /\ built = {}
  /\ inners = [t \in Types |-> <<>>]
  /\ stack = <<>>
  /\ status = "running"
  /\ build \in {"debug", "release"}
  /\ answer = Success(0)

ReflectID_IgnoresStaticId(t) ==
  /\ stack = <<>>
  /\ status = "running"
  /\ Push(NewFrame(t))
  /\ UNCHANGED <<types, cached, built, inners, status, build, answer>>

(* The program calls ReflectID<t>(): the static id answers, or t has to be *)
(* registered.                                                             *)
ReflectID(t) ==
  /\ stack = <<>>
  /\ status = "running"
  /\ \/ /\ cached[t] # 0
        /\ answer' = Success(cached[t])
        /\ UNCHANGED stack
     \/ /\ cached[t] = 0
        /\ Push(NewFrame(t))
        /\ UNCHANGED answer
  /\ UNCHANGED <<types, cached, built, inners, status, build>>

(* RegisterType<T>: the limit, then the magic static of                    *)
(* ReflectData<T>::Create().  Entering the initialiser of a static that is *)
(* being initialised is undefined: the runtimes wait for ever, throw       *)
(* recursive_init_error or abort.                                          *)
RegisterType ==
  /\ Busy
  /\ Top.pc = "register"
  /\ \/ /\ Len(types) = SizeMax
        /\ ReturnError("MaxLimitReached")
     \/ /\ Len(types) # SizeMax
        /\ Top.type \in built
        /\ SetTop(Goto(Top, "emplace"))
        /\ UNCHANGED <<status, answer>>
     \/ /\ Len(types) # SizeMax
        /\ Top.type \notin built
        /\ ~Recursive
        /\ SetTop(Goto(Top, "create"))
        /\ UNCHANGED <<status, answer>>
     \/ /\ Len(types) # SizeMax
        /\ Recursive
        /\ \/ status' \in {"hung", "aborted"} /\ UNCHANGED <<stack, answer>>
           \/ ReturnError("CreationFailed")
  /\ UNCHANGED <<types, cached, built, inners, build>>

ReflectInner_WithoutRegistering ==
  /\ Busy
  /\ Top.pc = "create"
  /\ MoreDeps
  /\ SetTop(Received(Top, KnownID(NextDep)))
  /\ UNCHANGED <<types, cached, built, inners, status, build, answer>>

(* CreateImpl reaches the next ReflectID<U>().value(). *)
ReflectInner ==
  /\ Busy
  /\ Top.pc = "create"
  /\ MoreDeps
  /\ \/ /\ Known(NextDep)
        /\ SetTop(Received(Top, KnownID(NextDep)))
     \/ /\ ~Known(NextDep)
        /\ Push(NewFrame(NextDep))
  /\ UNCHANGED <<types, cached, built, inners, status, build, answer>>

FinishCreate_WithoutInners ==
  /\ Busy
  /\ Top.pc = "create"
  /\ ~MoreDeps
  /\ built' = built \cup {Top.type}
  /\ SetTop(Goto(Top, "emplace"))
  /\ UNCHANGED <<types, cached, inners, status, build, answer>>

(* CreateImpl returns: the static TypeData is initialised. *)
FinishCreate ==
  /\ Busy
  /\ Top.pc = "create"
  /\ ~MoreDeps
  /\ built' = built \cup {Top.type}
  /\ inners' = [inners EXCEPT ![Top.type] = Top.inners]
  /\ SetTop(Goto(Top, "emplace"))
  /\ UNCHANGED <<types, cached, status, build, answer>>

(* CreateImpl throws: a std::exception is CreationFailed, anything else    *)
(* leaves a noexcept function.  The static stays uninitialised.            *)
CreateThrows ==
  /\ Busy
  /\ Top.pc = "create"
  /\ \/ ReturnError("CreationFailed")
     \/ status' = "aborted" /\ UNCHANGED <<stack, answer>>
  /\ UNCHANGED <<types, cached, built, inners, build>>

(* The id is one more than the number of registered types, as a uint32_t;  *)
(* the type is stored, and TypeInstance<T>::ID() keeps and returns the id. *)
NextID_FromZero == Len(types) % IdModulus
NextID == (Len(types) + 1) % IdModulus

Emplace_IdNotKept ==
  /\ Busy
  /\ Top.pc = "emplace"
  /\ Len(types) < SizeMax
  /\ types' = Append(types, [id |-> NextID, type |-> Top.type])
  /\ ReturnID(NextID)
  /\ UNCHANGED <<cached, built, inners, status, build>>

Emplace ==
  /\ Busy
  /\ Top.pc = "emplace"
  /\ Len(types) < SizeMax
  /\ types' = Append(types, [id |-> NextID, type |-> Top.type])
  /\ cached' = [cached EXCEPT ![Top.type] = NextID]
  /\ ReturnID(NextID)
  /\ UNCHANGED <<built, inners, status, build>>

EmplaceThrows_IdKept ==
  /\ Busy
  /\ Top.pc = "emplace"
  /\ cached' = [cached EXCEPT ![Top.type] = NextID]
  /\ ReturnError("OutOfMemory")
  /\ UNCHANGED <<types, built, inners, build>>

(* make_unique or the vector throws: nothing is stored, the TypeData stays. *)
EmplaceThrows ==
  /\ Busy
  /\ Top.pc = "emplace"
  /\ ReturnError("OutOfMemory")
  /\ UNCHANGED <<types, cached, built, inners, build>>

(* The process has aborted or waits for ever. *)
Stopped ==
  /\ status # "running"
  /\ UNCHANGED vars

Step == RegisterType \/ ReflectInner \/ FinishCreate \/ CreateThrows \/ Emplace \/ EmplaceThrows

Next == (\E t \in Types : ReflectID(t)) \/ Step \/ Stopped

(* The program is sequential: a call that has begun keeps the processor;   *)
(* nothing obliges it to make a call.                                      *)
Spec == Init /\ [][Next]_vars

FairSpec == Spec /\ WF_vars(Step)

-----------------------------------------------------------------------------
(* Properties. *)

TypeOK ==
  /\ types \in Seq([id : TypeIDs, type : Types])
  /\ cached \in [Types -> TypeIDs]
  /\ built \subseteq Types
  /\ inners \in [Types -> Seq(TypeIDs)]
  /\ stack \in Seq(Frames)
  /\ status \in {"running", "aborted", "hung"}
  /\ build \in {"debug", "release"}
  /\ answer \in Results

(* The static ids and the database agree however registrations nested and  *)
(* failed: entry i has the id i, each type has at most one entry, and a    *)
(* type is registered exactly if its static id resolves to it through      *)
(* ReflectionDatabase::GetType.                                            *)
IdsMatchEntries ==
  /\ \A i \in 1 .. Len(types) : types[i].id = i /\ cached[types[i].type] = i
  /\ \A t \in Types : cached[t] # 0 => GetType(cached[t]) = t

(* With checked results, the inner ids a registered type carries resolve   *)
(* to the types its CreateImpl named, in that order (0 for void), and are  *)
(* smaller than its own id, so that following them (as the printers do)    *)
(* ends.                                                                   *)
ResolvesTo(ids, id, u) == IF u = Void THEN id = 0 ELSE id # 0 /\ id = ids[u]

InnersPrecede ==
  build = "debug" =>
    \A t \in Types : cached[t] # 0 =>
      /\ Len(inners[t]) = Len(Deps[t])
      /\ \A k \in 1 .. Len(inners[t]) :
           ResolvesTo(cached, inners[t][k], Deps[t][k]) /\ inners[t][k] < cached[t]

(* No step moves or drops an entry, changes a static id that was handed    *)
(* out, or rebuilds a TypeData that entries point to: a TypeID and a Type& *)
(* stay good for ever, after failed and retried registrations too.         *)
Stable ==
  /\ \A i \in 1 .. Len(types) : i <= Len(types') /\ types'[i] = types[i]
  /\ \A t \in Types : cached[t] # 0 => cached'[t] = cached[t]
  /\ \A t \in built : t \in built' /\ inners'[t] = inners[t]
NeverRevoked == [][Stable]_vars

(* A registration waits for ever on its own static only when the types     *)
(* depend on each other in a cycle: the type at the top of the stack is    *)
(* below it too, and each type of the loop names the next one.             *)
Names(t, u) == \E k \in 1 .. Len(Deps[t]) : Deps[t][k] = u
HangNeedsCycle ==
  status = "hung" =>
    \E i \in 1 .. Depth - 1 :
      /\ stack[i].type = Top.type
      /\ \A j \in i .. Depth - 1 : Names(stack[j].type, stack[j + 1].type)

(* The registry implements the catalog: a nested registration is an id     *)
(* issued on the way, the outermost frame is the caller.                   *)
Catalog == INSTANCE TypeCatalog WITH
  NoCaller <- Void,
  ids      <- cached,
  caller   <- IF stack = <<>> THEN Void ELSE stack[1].type,
  reply    <- answer
ImplementsCatalog == Catalog!Spec

(* Every call returns or stops the process, whatever throws on the way and *)
(* however deep the types nest: no registration goes on for ever.          *)
CallReturns == (stack # <<>>) ~> (stack = <<>> \/ status # "running")
=============================================================================
