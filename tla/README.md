# A TLA+ model of refl-cpp

refl-cpp is a C++20 runtime reflection library. A program registers types, and
then reads and writes fields, calls methods and passes values through a
type-erased `Variant`. This directory holds TLA+ modules that model the library
under `src/include/refl-cpp` and its code generator, TLC configurations that
check them on small programs, and machine-checked proofs that the safety
properties hold for programs of any size.

Paths below are relative to `src/include/refl-cpp/` unless they start with
`src/`.

## 1. Inventory

### 1.1 Components

| Component | Files | State it keeps | Operations |
|---|---|---|---|
| Type registry | `database.hpp`, `type_instance.hpp`, `type_data.hpp`, `reflect.hpp`, `declare_reflect.hpp`, `type_id.hpp`, `meta/*.hpp` | `types_`, a static id per type, a static `TypeData` per type | `ReflectID<T>`, `RegisterType<T>`, `ReflectData<T>::Create`, `GetType` |
| Variant | `variant.hpp`, `impl/variant*.hpp`, `impl/variant_matcher/*` | a wrapper shared by copies, and the `TypeID` it was created with | `Create`, `Void`, copy, destroy, `CanGet`, `CheckGet`, `Get` |
| Field access | `field.hpp`, `field_wrapper.hpp`, `field_traits.hpp`, `field_data.hpp` | a member or static pointer | `GetValue`, `GetRef`, `SetValue` |
| Method dispatch | `method.hpp`, `method_func*.hpp`, `method_data.hpp`, `function_wrapper.hpp`, `argument.hpp` | the functions of a method | both forms of `Invoke`, `CanInvokeWithArgs` |
| Argument information | `function_traits.hpp`, `method_func.hpp` | two static vectors, filled on first use | `GetArgs` |
| Type and printer | `type.hpp`, `reflect_printer.hpp`, `type_flags.hpp`, printers in `meta/` | none (a view of the registry) | `Reflect<T>`, `GetInner`, lookup of fields and methods by name, `Print` through inner types |
| Traits and helpers | `common/*` | none | compile-time traits |
| Generator | `src/generator/src/*` | the classes found in the translation units (`G_ReflectData`), the files of earlier runs | visiting declarations, grouping into output files, writing them |
| Method wrapper | `method_wrapper.hpp` | none | nothing uses it |
| Build files, example | `src/CMakeLists.txt`, `src/cmake`, `src/example` | none | the build type decides whether res-cpp checks `value()` |

### 1.2 How they interact

- `TypeInstance<T>::ID()` calls `ReflectionDatabase::RegisterType<T>()`, which
  builds the static `TypeData` of `T`. Its initialiser (`CreateImpl`) calls
  `ReflectID<U>().value()` for each base and inner type. Registration is
  therefore re-entered from the inside, at a point where the limit has been
  checked and the id has not been computed.
- `Variant::Create<T>` and every comparison of a type id (`TypeID::Equals<R>`)
  call `ReflectID`. `Get` and `CanGet` can so register types, and fail to.
- `FieldWrapper` gets the instance and the new value from Variants with `Get`
  and makes Variants with `Create`.
- `Method::Invoke` asks each `FunctionWrapper` whether the arguments fit
  (`CheckGet` on each) and then lets it check again, get the values with
  `Get(..).value()`, call, and make a Variant of the result.
- `Reflect<T>()` registers and then looks the id up with `value()`. The printers
  follow `TypeData::inners` through `GetType(id).value()`, one call of
  `Type::Print` inside another.
- The generator is a program of its own. It talks to the library only through
  the code it writes, and to its next run through the files it leaves.

The library has no threads and no locks. What is hard about it is re-entrance,
failure half way (`MaxLimitReached`, exceptions from a `CreateImpl`,
`bad_alloc`) followed by a retry, storage that several Variants refer to, and
rules (const, form of reference, wrapper kind) that are spread over many files
and must agree. PROJECT.json lists the places under `hazards`.

### 1.3 What makes each component correct

- *Registry*: static ids and database entries agree after every nesting and
  failure; inner ids resolve to the named types and precede their owner; what
  was handed out stays good; a call ends unless types form a cycle.
- *Variant*: the value a wrapper owns lives exactly as long as a Variant shares
  it; const is never dropped; what a Variant can be got as is decided by the
  type it was created with and nothing else.
- *Fields*: const is never written; storage changes only through a Variant that
  grants it.
- *Method dispatch*: the checks suffice for what is done afterwards; a function
  runs at most once and only on arguments and an object it may use; an error
  that is not a failed registration means nothing was run; `Invoke` ends.
- *Argument information*: a list handed out does not change, agrees with the
  signature, and is complete unless a caller was told of a failure.
- *Type and printer*: the `Type&` handed out is that of the type asked for and
  stays so; printing ends, reads only ids that resolve, and says what the type
  is; a member that is found has the name asked for.
- *Generator*: every sighting of a marked class becomes one definition in the
  group of its file; what is on disk after a run is determined by that run or
  left as it was.

## 2. Modules

| Module | Models | Variables |
|---|---|---|
| `TypeCatalog` | what the registry promises: ids issued once, to one type, never taken back | `ids`, `caller`, `reply` |
| `TypeRegistry` | how the registry does it | `types`, `cached`, `built`, `inners`, `stack`, `status`, `build`, `answer` |
| `FirstFit` | what `Method::Invoke` promises: one function decides a call, in one step | `asked`, `offer`, `ran`, `answer` |
| `SharedValues` | what `Variant` promises: values, shared by copies, and references, readable by type | `store`, `ref`, `answer` |
| `VariantTypes` | the rules of `Create` and `Get` that types alone decide (no state) | |
| `VariantAccess` | Variants, the storage they own or refer to, late registration | `cell`, `variant`, `registered`, `got` |
| `FieldAccess` | the three operations of a field on instances in Variants | `store`, `variant`, `error` |
| `MethodDispatch` | the loop of `Invoke` and the call of a function | `funcs`, `call`, `index`, `ran`, `outcome` |
| `ArgumentInfo` | the static argument lists | `typeArgs`, `infoArgs`, `registered`, `call`, `outcome`, `told` |
| `TypeView` | `Reflect`, navigation, lookup and printing, on top of `TypeRegistry` | those of the registry, and `asked`, `view`, `walk`, `out`, `outcome`, `found` |
| `Generator` | the generator, run again and again | `project`, `unit`, `parsed`, `pc`, `data`, `next`, `groups`, `dirs`, `files`, `before` |
| `*Proofs` | theorems about the module of that name (`PrintedTextProofs`: more about `TypeView`) | |
| `MC*` | small programs for TLC | |

`VariantAccess`, `FieldAccess` and `MethodDispatch` extend `VariantTypes`: the
matchers are written once, as in the code. `TypeRegistry` instantiates
`TypeCatalog`, `VariantAccess` instantiates `SharedValues` and `MethodDispatch`
instantiates `FirstFit`, under refinement mappings. `TypeView` extends `TypeRegistry` and takes its actions as they are: a
`Reflect<T>()` is a call of `ReflectID` whose steps are followed by the lookup.

Operators whose name has an underscore (`Emplace_IdNotKept`) are faulty versions
of the operator named before the underscore. No specification uses them; put in
the place of the real one, each makes a property fail, which shows that the
property depends on the code.

### 2.1 TypeRegistry

`stack` is the C++ call stack of registrations in progress. A frame is a type,
the place `RegisterType` has reached (`register`: before the limit check,
`create`: inside the initialiser of the `TypeData`, `emplace`: before the entry
is stored) and the ids the initialiser has collected. One action stands for one
stretch of code without a nested call:

| Action | Code |
|---|---|
| `ReflectID(t)` | `reflect.hpp:9-19`, `type_instance.hpp:9-16`: the static id answers or registration begins |
| `RegisterType` | `database.hpp:44-60`: the limit, an already built `TypeData`, entry of the initialiser, re-entry of it |
| `ReflectInner` | `ReflectID<U>().value()` in the `CreateImpl`s of `meta/` |
| `FinishCreate` | the initialiser of the static returns |
| `CreateThrows` | `type_data.hpp:44-56`, `database.hpp:51-60` |
| `Emplace`, `EmplaceThrows` | `database.hpp:61-75` |

Two kinds of undefined behaviour are choices: re-entering the initialiser of a
static hangs, aborts or throws; `value()` on a failed result aborts in a debug
build and yields some id (`Garbage`) in a release build. `SizeMax` and
`IdModulus` keep the two integer widths apart.

The abstract `TypeCatalog` sees only the static ids, the outermost caller and
the last answer. `RegisterType`, `FinishCreate` and the like are stutters of it,
a nested `Emplace` issues an id on the way, an outermost one grants the call.

### 2.2 VariantAccess

Storage is a finite set of cells with a lifetime. Objects of the program can end
at any time, so a Variant may refer to a dead one; cells owned by wrappers die
with the last Variant that shares the wrapper. `Get` and `CanGet` register the
type they compare with, or fail to. `got` is what the last `Get` was asked for,
and what it handed out; `Assign` writes through it while it designates live
storage. (Using it afterwards is undefined and not modelled.)

`SharedValues` is the same component as its user would like to think of it. A
handle holds nothing, void, a value it shares with the handles copied from it,
or a reference. Whether it can be read as `R` is a relation between two types,
and there are no wrappers, matchers or registered types. The refinement mapping
hides the wrapper kind behind `holds`, the class of a cell, where a value was
copied from, and `registered`. `CanGet` and whatever is registered on the way
are stutters. What the refinement says is that none of this is observable:
not which of the nine wrappers was chosen, not which of the matchers answered,
not when a type was registered or that it could not be.

### 2.3 FieldAccess

A root is an object with its fields as parts, or a plain value; a Variant
designates a root or a part. `GetValue`, `GetRef` and `SetValue` follow
`field_wrapper.hpp` in the order of its checks, with the errors as converted at
`field_wrapper.hpp:13-72`. Sharing of wrappers and late registration are in
`VariantAccess`; here Variants are not copied.

### 2.4 MethodDispatch

`index` is where the loop of `Method::Invoke` is. `Skip` goes on to the next
function, `Refuse` and `Run` are `FunctionWrapper::Invoke`, `Exhausted` is the
end of the loop. A function is chosen by *its* parameters, so a list that is
too long fits a prefix and is then refused, and a list that is too short is read
past its end (`ReadPastEnd`, outcome `Undefined`). `call.limited` says that
registering a type may fail during the call. Methods and Variants keep nothing
from a call, so a behaviour is one call.

`FirstFit` is the same call without the loop. What it knows of the functions is
the offer, by index: those the call suits (object and arguments can be used as
the function declares them), those of them that surely run, those that may be
passed over, and those that want more arguments than there are. The first that
is not passed over decides, whatever comes behind it: if the call suits it, it
may be run, once, and the answer is success or the failure to register its
result; unless it surely runs it may be refused, and then nothing is run.
`Skip` is a stutter of it.

### 2.5 ArgumentInfo

`FunctionTraits` keeps a static list of parameter types and `MethodFuncWrapper` a
static list of types with names, both per signature. `LookAtInfo` and
`LookAtTypes` are the checks for a list that is not empty, `Collect` and
`CollectFails` one step of the recursion in `GetArgsImplImpl`, `FillInfo` the
loop of `GetArgs`. `told` records which lists callers hold references to and
which they were refused. `FillInfo` reads a name for each type without looking
at how many names there are; reading past the end is the outcome `Undefined`.

### 2.6 TypeView

`view` is the `Type&` a program holds, `walk` the C++ call stack of
`Type::Print`, `out` what has been written, as tokens. A type has one of the
forms of `meta/common.hpp` (`const T`, `volatile T`, `T*`, `T* const`, `T&`,
`T&&`) or a name of its own.

| Action | Code |
|---|---|
| `Reflect(t)`, `Registering`, `FinishReflect` | `reflect.hpp:9-13`, `type_instance.hpp:21-25`: register, then `GetType(id).value()` |
| `GetInner` | `type.hpp:61-84` with an index the program has checked |
| `LookUp` | `type.hpp:108-131`: the first member whose name is the same pointer |
| `PrintView`, `PrintName`, `PrintInner`, `PrintAfter` | `type.hpp:151-176` and the printers in `meta/`: the part before, the inner type's printer, the part behind |

`GetField` and `GetMethod` compare the addresses of literals. Which equal
literals share an address is up to the compiler, so a lookup chooses among
`Layouts`. `value()` of a failed result is what it is in `TypeRegistry`: it
aborts in a debug build and is undefined in a release build. Garbage that a
release build has stored as an inner id may lead a printer to any type, itself
included; then the call stack (`StackLimit`) overflows.

### 2.7 Generator

A translation unit is the sequence of class declarations a traversal meets.
`ParseUnit` takes the next unit, of which an error may leave any part unseen,
`Visit` is `VisitCXXRecordDecl`, `Group` one turn of the loop that fills
`file_to_types`, `WriteFile` one turn of the loop over its keys in the order of
`std::map`. `RunAgain` is a later build: the project may have changed and `files`
is what the run before left. `create_directories` can throw, which nobody
catches. `parsed` and `before` exist for the properties only.

The output path is `std::format("%s/%s", output_dir, filename)`. The format has
no `{}`, so the result is the text `%s/%s` whatever the arguments
(`OutputPath`); the stream opens only if a directory of that name exists.

## 3. Runs

| Run | Properties | Distinct states |
|---|---|---|
| `registry` | `TypeOK`, `IdsMatchEntries`, `InnersPrecede`, `HangNeedsCycle`, `NeverRevoked`, `ImplementsCatalog`, `CallReturns` | 791,717 |
| `variant_values` | `TypeOK`, `OwnedStorage`, `ConstKept`, `ImplementsSharedValues` | 56,267 |
| `variant_refs` | `ConstKept`, `GetDecides` | 135,844 |
| `fields` | `TypeOK`, `ConstKept`, `Confined` | 90,692 |
| `dispatch` | `TypeOK`, `NeverAborts`, `RunsWhatFits`, `FindsWhatFits`, `AnswersByFirstFit`, `InvokeReturns` | 259,663 |
| `argument_info` | `TypeOK`, `ListsAgree`, `ShortOnlyAfterFailure`, `HandedOutStays`, `NamesReadInRange` | 46,526 |
| `type_view` | `ViewTypeOK`, `ViewResolves`, `WalkDescends`, `InnerExists`, `PrintsTheType`, `FailsOnlyUponVoid`, `FindsByName`, `PrintEnds` | 1,319,247 |
| `generator` | `TypeOK`, `GroupsFilter`, `DefinedPerSighting`, `LastGroupStays`, `RunEnds` | 108,042 |
| `variant_original` | `WriteReachesOriginal` is violated | |
| `variant_temporary` | `RValueAlive` is violated | |
| `field_void_instance` | `VoidInstanceReported` is violated | |
| `generator_output` | `FilePerSource` is violated | |

### 3.1 Bounds, and why they are enough

- `registry`: five types, namely one without inner types, `void*` (whose inner
  id is the 0 that also means invalid), a class that names two others, and two
  that name each other, so that nesting is three deep and both acyclic and
  cyclic dependencies occur. `SizeMax = 4` is below the number of types,
  so the limit is met, at top level and nested; `IdModulus = 8` exceeds it, as
  `IdsFitAssumption` demands. Nothing else is bounded: retries after failures
  go on for ever.
- `variant_values`, `variant_refs`: two Variants suffice for sharing and for
  separate creation, three cells for an object, a copy of it and a second one.
  The types are split over two runs because `registered` doubles the state space
  with each of them; no wrapper kind of one half has a matcher for a type of the
  other. `Pinned`, which can be neither copied nor moved and is adopted by
  reference, is in `variant_refs`.
- `fields`: an instance field, a const one, a static one, and a static one that
  has no copy assignment; instances by value, by reference and by const
  reference.
- `dispatch`: methods of one and two functions over six parameter lists of
  length 0 to 2, argument lists of length 0 to 2, so that lists are too short,
  equal and too long; objects void, const, not const and rvalue. Two functions
  are enough for "an earlier one hides a later one".
- `argument_info`: two functions of one signature with two parameters and
  different names, one with fewer names than parameters, one without parameters;
  every set of parameter types registered before. Calls go on without bound.
- `type_view`: `int` with two members of one name, `const int`, `const int*`,
  `const int* volatile` and `void*`, so that walks are up to four types deep,
  qualifiers stand before and behind, and one chain ends at `void`. Both builds;
  `SizeMax = 4` makes a registration fail after the others succeeded; `Garbage`
  is the invalid id and the id of some type; `StackLimit = 5` is the least that
  `StackAssumption` allows. Two layouts of four literals: equal ones pooled, or
  not all of them.
- `generator`: projects of up to three units out of three, in any order and
  repeated; two paths with the same file name; a header met in two units; a
  class without a path, one unmarked, one only declared; the directory `%s`
  there or not. Runs go on without bound.

Symmetry is used in the `variant_*` and `fields` runs only, over cells or roots
and handles: these are model values that no constant or `CHOOSE` tells apart,
and those runs have no liveness property.

All runs check deadlock. `registry`, `dispatch`, `argument_info` and `type_view`
have an explicit stutter for a stopped process and a call that is over.

### 3.2 Fairness

`FairSpec` in `TypeRegistry` and `MethodDispatch` is weak fairness of `Step`,
the steps of a call in progress. The library is sequential and does not wait for
anything: a call that has begun keeps the processor. Nothing obliges a program
to begin a call, so `ReflectID` is not fair (and `Invoke`, though harmless, is
not either). In the same way `FairViewSpec` is weak fairness of the steps of a
`Print` and of a `Reflect` in progress, and `FairSpec` in `Generator` of the steps
of a run; nothing obliges anybody to print or to run the generator again. `CallReturns` allows a call to end by stopping the process, since
re-entering a static does that.

### 3.3 Findings

- `variant_original`: `src/tests/variant.cpp:50` says of a Variant created by
  value that "Modifying through reference should modify the original". The
  wrapper owns a copy (`impl/variant_wrapper.hpp:185`); writing changes the copy.
- `variant_temporary`: `src/tests/variant.cpp:106-110` creates a Variant with
  `Create<int&&>(42)` and reads 42 from it in a later statement. The wrapper
  keeps a reference to the temporary (`impl/variant_wrapper.hpp:100`), which is
  gone by then.
- `field_void_instance`: `field_wrapper.hpp:152-154` makes an
  `InstanceIsVoid` failure but does not return it; the caller gets
  `NewValueIsVoid`.
- `generator_output`: `src/generator/src/generate_reflect_data.cpp:29` says
  "Generate a file for each source file". All groups go to the one path `%s/%s`,
  outside the directory given with `-o`, and the last one overwrites the others.

### 3.4 Behaviour the properties leave room for

`MethodDispatch` reaches the outcome `Undefined` (a list shorter than the
parameters of a function whose first parameters it fits), returns
`IncorrectNumberOfArguments` although a later function fits, and returns
`ObjectIsVoid` from the form without an object although a later static function
fits. No document says otherwise, so these are stated as what the code does:
`FindsWhatFits` holds only for functions of one arity that all accept the
object, and says so in its premise; `AnswersByFirstFit` is about every call and
says which function decides it, the wrong one included.

`ArgumentInfo` likewise: after a failed registration the list of types stays
short for good and later calls return it as a success, and a function can be
given the names of another one with its signature. `ShortOnlyAfterFailure` and
`ListsAgree` state what is true of these lists all the same. A function declared
with fewer names than parameters has names read past their end, unless another
one of its signature filled the list before (`NamesReadInRange`).

In `TypeView`, printing a type built upon `void` aborts a debug build, because the
id of `void` resolves to nothing, although `void` has a printer; a volatile
pointer prints as a pointer to volatile; without pooling of literals a member may
not be found by its name, or the second of two equal names may be found. The
properties name these exceptions and hold for the rest.

In `Generator`, a class has as many definitions as there are units that include
its header, which the compiler of the generated code would refuse; a class whose
name a macro made has none; a parse error does not stop a run; and a run that
writes nothing leaves the files of an earlier one.

## 4. Proofs

TLAPS proves the following for all values of the constants that meet the
assumptions.

| Module | Theorem | Statement |
|---|---|---|
| `TypeRegistryProofs` | `TypeCorrect` | `Spec => []TypeOK` |
| | `IdsMatch` | `Spec => []IdsMatchEntries` |
| | `InnersResolve` | `Spec => []InnersPrecede` |
| | `HangsOnlyOnCycles` | `Spec => []HangNeedsCycle` |
| | `NothingRevoked` | `Spec => NeverRevoked` |
| | `RegistryImplementsCatalog` | `Spec => ImplementsCatalog` |
| | `RegistrationsWindDown` | `Spec => []StackBounded /\ RegistrationWindsDown` |
| `TypeViewProofs` | `ViewTypeCorrect` | `ViewSpec => []ViewTypeOK` |
| | `ViewsResolve` | `ViewSpec => []ViewResolves` |
| | `WalksDescend` | `ViewSpec => []WalkDescends` |
| | `InnersExist` | `ViewSpec => []InnerExists` |
| | `PrintsFailOnlyUponVoid` | `ViewSpec => []FailsOnlyUponVoid` |
| | `LookupFindsName` | `ViewSpec => []FindsByName` |
| | `PrintsWindDown` | `ViewSpec => [](PrintStepsLeft \in Nat /\ PrintGoesOn) /\ PrintWindsDown` |
| `PrintedTextProofs` | `TextReadsAsType` | `ViewSpec => []PrintsTheType` |
| `VariantAccessProofs` | `MatchersImplementIntent` | the matchers accept `R` for a value held as `T` exactly if `Intended(T, R)` |
| | `TypeCorrect` | `Spec => []TypeOK` |
| | `ValuesLiveWithVariants` | `Spec => []OwnedStorage` |
| | `ConstIsKept` | `Spec => ConstKept` |
| | `CreatedTypeDecides` | `Spec => GetDecides` |
| | `VariantsAreSharedValues` | `Spec => ImplementsSharedValues` |
| `FieldAccessProofs` | `TypeCorrect` | `Spec => []TypeOK` |
| | `ConstIsKept` | `Spec => ConstKept` |
| | `WritesAreConfined` | `Spec => Confined` |
| `MethodDispatchProofs` | `TypeCorrect` | `Spec => []TypeOK` |
| | `NoCallAborts` | `Spec => []NeverAborts` |
| | `OnlyWhatFitsRuns` | `Spec => []RunsWhatFits` |
| | `FirstFitRuns` | `Spec => []FindsWhatFits` |
| | `CallsAreFirstFit` | `Spec => AnswersByFirstFit` |
| | `CallsWindDown` | `Spec => [](StepsLeft \in Nat /\ CallGoesOn) /\ CallWindsDown` |
| `ArgumentInfoProofs` | `TypeCorrect` | `Spec => []TypeOK` |
| | `HandedOutNeverChanges` | `Spec => HandedOutStays` |
| | `ListsStayAgreed` | `Spec => []ListsAgree` |
| | `ShortListsWereRefused` | `Spec => []ShortOnlyAfterFailure` |
| | `NamesReadOnlyInRange` | `Spec => NamesReadInRange` |
| `GeneratorProofs` | `TypeCorrect` | `Spec => []TypeOK` |
| | `GroupsAreFilters` | `Spec => []GroupsFilter` |
| | `EachSightingDefined` | `Spec => []DefinedPerSighting` |
| | `LastGroupOnDisk` | `Spec => []LastGroupStays` |
| | `RunsWindDown` | `Spec => [](WorkLeft \in Nat \X Nat \X Nat) /\ RunWindsDown` |

Every invariant and every action property that a passing run checks is stated by
one of these theorems, and so are the three refinements. The four `...WindDown`
theorems are the part of the four liveness properties that is about single steps.

### 4.1 Assumptions

The registry:

- `TypesAssumption`: a program has finitely many types; `void` is not one that
  registers.
- `DepsAssumption`: the initialiser of a type names a sequence of types.
- `IdsFitAssumption`: there are fewer types than ids. This is needed: the code
  compares the number of types with `SIZE_MAX` but the id is a `uint32_t`, so
  the id of the 2^32nd type would be 0.
- `SizeMaxAssumption`, `GarbageAssumption`: the limit is a natural number, and
  an id read from a failed result is some id.

Cycles of types are allowed, except where a theorem's conclusion is about them.

`TypeView` adds: a compound type's initialiser names an inner type
(`FormAssumption`; all six of `meta/common.hpp` do); `const` and `volatile` are
put around a name only, or `volatile` around a pointer that is not const, the
other combinations having a form of their own or none that compiles
(`QualifierAssumption`); `NoType` is not a type and no type is called `*` or
`const` (`NoTypeAssumption`); literals at one address say the same (`MembersAssumption`);
the call stack holds a printer for each type (`StackAssumption`).

The others assume what the C++ type system gives. Copyable and movable classes
are classes (`TraitsAssumption`), the program names types of them
(`ExprsAssumption`), there are a class and a value (`ContentsAssumption`), and
`Null` is nothing else (`NullAssumption`). In `FieldAccess`, a field has the type
of a class that can be copied and is not the struct itself (`StructAssumption`,
`FieldsAssumption`), and the storage of statics is their own
(`StorageAssumption`). In `MethodDispatch`, methods are sequences of functions and
arguments are Variants (`MethodsAssumption`, `VariantsAssumption`,
`MaxArgsAssumption`). In `ArgumentInfo`, a function has a signature, a sequence
of parameter types and a sequence of names, of any length each
(`SignatureAssumption`, `ParamsAssumption`, `NamesAssumption`). In `Generator`,
projects are sequences of sequences of declarations, the empty path is no path,
each path has an output name, and the keys of the map are ordered without
repetition (`ProjectsAssumption`, `NamesAssumption`).

### 4.2 The inductive invariants

None of the properties is inductive alone.

**TypeRegistry.** `IdsMatchEntries` says nothing about
the call stack, and `Emplace` on a frame whose type has meanwhile been
registered would break it. `IInv`, proved by `Inductive`, adds:

- `EntriesOK` and `CachedOK`: entry *i* has id *i* and its type caches *i*; a
  non-zero cached id is the position of its type. With `IdsFitAssumption` the
  modulus in `NextID` never takes effect, since the entries inject into `Types`.
- `StackOK`: a frame's type is not registered yet (`Pending`); a frame below
  another is inside its initialiser, waiting for exactly the type above it
  (`Callers`); a frame inside its initialiser is of a type not built, and the
  frames inside initialisers are of different types (`Creating`); a frame before
  `emplace` is of a built type (`Storing`). So a nested registration never
  registers the type of a frame below: it would have to enter the initialiser
  of that type's static, which is the re-entry the code cannot survive.
- `InnersOK`: in a debug build the ids a frame has collected, and those of a
  built type, resolve to the types named (`FramesResolve`, `BuiltResolve`), and
  those of a registered type are smaller than its id (`InnersSmaller`).

Each of these is preserved by each action, one step per action; what the
three changes of the stack (push, change of the top, return to the caller) do to
`StackOK` and `InnersOK` is stated in lemmas that the actions share. `RegistryImplementsCatalog` uses
`IInv` on both sides of a step: a nested `Emplace` issues an id for a type other
than the caller, because the bottom frame's type is pending and the stack's
types differ where it matters.

`RegistrationsWindDown` is a lexicographic argument. Each step of a registration
that neither ends it nor stops the process leaves less in one frame
(`FrameLeft`: ids to receive, places to go through) and changes none below it. A
push adds a frame where there was none, which counts as more than any frame. The
sequences so compared have at most one place more than there are types, because
the frames below the top are inside initialisers of different types (`Creating`);
so there is no infinite descent, with cyclic types and in release builds too.

**TypeView.** `VInv` is the registry's `IInv` and: a built type has an inner id
for each type its initialiser named, in release builds too (`BuiltComplete`);
the bottom frame of a registration is of the type asked for, whose static id is
the answer at its end (`Asking`); the types of the view and of all printers are
registered (`Held`, `Walking`); in a debug build each printer on the stack was
called for what its caller's type is put around, and has a smaller id
(`Descending`). Ids go down by one at least at each call and start at most at the
number of entries, which is at most the number of types: so the stack never
overflows, and what fails to resolve can only be `void`, at the end of the chain
that the stack spells out. That the first match of a lookup exists uses that
natural numbers are well-founded.

`PrintsWindDown` needs two more: every printer but the top one has called and
waits to write its part behind (`Waiting`), and there is never more than one
call beyond what the call stack holds (`OnStack`). With them a number that falls
at each step of a `Print` is easily given; it does not use that ids descend, and
so holds of garbage too.

`PrintsTheType` compares the text with `Layers`, the type taken apart from the
inside out by a recursive function. `PrintedTextProofs` first shows that this
function exists and is its own unfolding (no number of layers is the least
without one), and that it takes enough layers because ids get smaller. `TextInv`
then says what a print in progress has done: the layers of the view are those of
each printer's type and then some (`Inside`), nothing but the qualifier next to
the name is written on the way in, and on the way out the text describes the
layers whose printers have returned (`Written`). By `QualifierAssumption` at most
one qualifier is written before a name, so what is read first is the innermost
layer; a volatile pointer breaks this and is excepted.

**VariantAccess.** `VariantsOK` says that a Variant's wrapper is the one
`MakeWrapper` makes for its type, that its type is registered, and that what it
owns or refers to has its class and is const only if its type is; `GotOK` says
the latter of what `Get` handed out; `NotLeaked` and `OneWrapper` are the two
directions of ownership. The rule spread over eight matcher files enters through
`MatchersImplementIntent`, proved by the form of the type, and everything about
`Get` follows from it. That the type is registered is why a comparison of ids can
fail to register only a type that would not have matched. The proof of
`VariantsAreSharedValues` maps each action: `Create` to `HoldCopy` or `Refer`
according to the kind of wrapper, `Get` to `Read`, and `CanGet` to a stutter.

**FieldAccess.** What a Variant designates has, as long as it lives, the class of
its type, and is not const unless that type is (`VariantsOK`); statics never go
away (`StaticsOK`).

**MethodDispatch.** Nothing has run before the call is over (`NotRunYet`); the
functions the loop has gone past may be passed over (`PassedOver`). `PassedIsGot`, that the
matcher that accepts a parameter type accepts what the argument is then got as,
is why `value()` never aborts. `CallsAreFirstFit` maps `Invoke` to `Ask`, `Skip`
to a stutter and each other action to the answer of the function the loop is at:
`PassedOver` makes that one the function that decides (`AtFunctionDecides`), and
a function that surely runs is neither skipped nor refused, because the checks of
the loop, those of `FunctionWrapper::Invoke` and the gets that follow agree
(`OffersAreSound`).

**ArgumentInfo.** Per signature: the list of types is a prefix of the parameters
(`TypesAgree`), the list with names has the same types and the names of one
function (`InfosAgree`), a list handed out is not one that will be filled
(`HeldFilled`), and a short one is being filled or was refused (`ShortTold`);
`CallOK` says what the call in progress has found out.

**Generator.** A loop stays in its range and groups are empty before it
(`Phases`); what is left of a unit is its end (`Traversal`); there are as many
records of a class as sightings of it so far (`Counted`); what is on disk is
`before` or the group last written (`OnDisk`). `DefinedPerSighting` follows: the
groups have each record with a path once, which is a bijection, and the records
are as many as the sightings. `WorkLeft` (the phases, the units, the rest of the
loop) falls lexicographically at each step.

### 4.3 What is only model-checked

- `CallReturns`, `InvokeReturns`, `PrintEnds` and `RunEnds`: liveness under
  fairness, and that a step is ENABLED, are outside what the prover handles. What
  rules out an infinite sequence of steps is proved (the `...WindDown` theorems:
  naturals, and tuples of them of bounded length, do not fall for ever); TLC adds
  that a step can be taken until the end, and the temporal conclusion.
- The properties of the `violation` runs, which do not hold.

## 5. Not modelled

- `volatile` in Variants, which multiplies each rule without changing it, null
  pointers and pointers to pointers, and use of storage that is gone (undefined).
- Arrays: the `ReflectData<T[]>` of `meta/common.hpp` cannot be instantiated, as
  `const volatile T` cannot (two specialisations match equally well), and
  `Type::Is<T>()` (`type.hpp:145-149`) does not compile when it is used.
- The flags of types, fields and methods: constant data without operations that
  change them.
- What methods and constructors of the program do.
- In the generator: parsing (libclang), the command line, and the bases, fields
  and methods it records but never writes; the wording of the generated code.
- `method_wrapper.hpp` (nothing uses it), compile-time traits
  (`common/type_traits.hpp`), formatting helpers, build files and the example.

## 6. Plan

Done, in this order, because every other component asks the registry and the
Variant: `TypeCatalog` and `TypeRegistry`; `VariantTypes`, `VariantAccess` and
`FieldAccess`; `MethodDispatch`; `ArgumentInfo`; `TypeView` on top of the
registry; `Generator`; `SharedValues` and `FirstFit`; and the proofs about each
of them.

Left:

- The composition of `FieldAccess` with the sharing of wrappers of
  `VariantAccess`; both are modelled, but not an instance that is shared while a
  field of it is referred to.

## 7. Running

    tlc -config MCTypeRegistry.cfg MCTypeRegistry.tla
    tlapm TypeRegistryProofs.tla

and in the same way for the other `MC*` configurations and `*Proofs` modules.

PROJECT.json lists every run with its module and configuration, the source lines
each definition models, and the hazards with the properties that cover them.
