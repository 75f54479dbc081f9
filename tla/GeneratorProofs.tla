--------------------------- MODULE GeneratorProofs --------------------------
(***************************************************************************)
(* Theorems about the generator, for every set of projects, however many   *)
(* units, classes, paths and output names there are, and however often the *)
(* generator is run.                                                       *)
(***************************************************************************)
EXTENDS Generator, TLAPS, SequenceTheorems, FunctionTheorems, FiniteSetTheorems

(* A run goes through its phases in order: only the traversal has a unit,  *)
(* groups are empty before it ends, and the loops stay in range.           *)
Phases ==
  /\ pc \in {"parse", "crashed"} => next = 1 /\ groups = Ungrouped
  /\ pc = "group" => next <= Len(data) + 1
  /\ pc \in {"write", "done"} => next <= Len(Sorted) + 1
  /\ pc # "parse" => unit = <<>>
  /\ pc = "done" => Left = {}

(* What is left of a unit is its end.                                      *)
LastUnit == parsed[Len(parsed)]

Traversal ==
  unit # <<>> =>
    /\ parsed # <<>>
    /\ Len(unit) <= Len(LastUnit)
    /\ \A i \in 1 .. Len(unit) : unit[i] = LastUnit[Len(LastUnit) - Len(unit) + i]

(* There are as many records of a class as it has been sighted so far, in  *)
(* the units parsed but for what is left of the last one.                  *)
VisitedIn(units, left, u) ==
  IF u = Len(units) THEN Len(units[u]) - left ELSE Len(units[u])

SightedIn(units, left, c) ==
  {s \in (1 .. Len(units)) \X Nat :
     /\ s[2] >= 1 /\ s[2] <= VisitedIn(units, left, s[1])
     /\ Sighting(units[s[1]][s[2]], c)}

RecordsIn(records, c) ==
  {k \in 1 .. Len(records) : records[k].class = c /\ records[k].path # NoPath}

Equinumerous(S, T) == IsFiniteSet(S) /\ IsFiniteSet(T) /\ Cardinality(S) = Cardinality(T)

Counted ==
  \A c \in Classes : Equinumerous(RecordsIn(data, c), SightedIn(parsed, Len(unit), c))

(* What is on disk: what was there before, or the group written last.      *)
OnePath == [dir |-> PercentS, name |-> PercentS]
Done    == {k \in Keys : k < next}

OnDisk ==
  /\ DOMAIN files \subseteq {OnePath}
  /\ IF pc \in {"write", "done"} /\ PercentS \in dirs /\ Done # {}
     THEN /\ DOMAIN files = {OnePath}
          /\ files[OnePath] = Content(groups[Sorted[Last(Done)]])
     ELSE files = before

IInv == TypeOK /\ Phases /\ Traversal /\ Counted /\ GroupsFilter /\ OnDisk

Record == [class : Classes, path : Paths \cup {NoPath}]

-----------------------------------------------------------------------------
(* Facts about a state. *)

LEMMA StateFacts ==
  ASSUME TypeOK
  PROVE  /\ Len(data) \in Nat /\ Len(Sorted) \in Nat /\ next \in Nat /\ next >= 1
         /\ Len(parsed) \in Nat /\ Len(unit) \in Nat /\ DOMAIN parsed = 1 .. Len(parsed)
         /\ \A u \in 1 .. Len(parsed) :
              /\ parsed[u] \in Seq(Declarations) /\ Len(parsed[u]) \in Nat
              /\ DOMAIN parsed[u] = 1 .. Len(parsed[u])
         /\ \A k \in 1 .. Len(data) : data[k] \in Record
         /\ \A o \in OutputNames :
              /\ groups[o] \in Seq(1 .. Len(data)) /\ Len(groups[o]) \in Nat
              /\ DOMAIN groups[o] = 1 .. Len(groups[o])
<1>1. data \in Seq(Record) /\ parsed \in Seq(Seq(Declarations)) /\ unit \in Seq(Declarations)
  BY DEF TypeOK, Record
<1>2. Len(data) \in Nat /\ Len(Sorted) \in Nat
  BY <1>1, LenProperties, NamesAssumption
<1>3. next \in Nat /\ next >= 1
  BY <1>2 DEF TypeOK
<1>4. Len(parsed) \in Nat /\ Len(unit) \in Nat /\ DOMAIN parsed = 1 .. Len(parsed)
  BY <1>1, LenProperties
<1>5. ASSUME NEW u \in 1 .. Len(parsed)
      PROVE  /\ parsed[u] \in Seq(Declarations) /\ Len(parsed[u]) \in Nat
             /\ DOMAIN parsed[u] = 1 .. Len(parsed[u])
  <2>1. parsed[u] \in Seq(Declarations)
    BY <1>1, ElementOfSeq
  <2> QED
    BY <2>1, LenProperties
<1>6. ASSUME NEW k \in 1 .. Len(data)
      PROVE  data[k] \in Record
  BY <1>1, ElementOfSeq
<1>7. ASSUME NEW o \in OutputNames
      PROVE  /\ groups[o] \in Seq(1 .. Len(data)) /\ Len(groups[o]) \in Nat
             /\ DOMAIN groups[o] = 1 .. Len(groups[o])
  <2>1. groups[o] \in Seq(1 .. Len(data))
    BY DEF TypeOK
  <2> QED
    BY <2>1, LenProperties
<1> QED
  BY <1>2, <1>3, <1>4, <1>5, <1>6, <1>7

(* The output name of a record with a path is a key.                       *)
LEMMA OutputIsName ==
  ASSUME NEW r \in Record, r.path # NoPath
  PROVE  OutputOf(r) \in OutputNames
<1>1. r.path \in Paths
  BY DEF Record
<1> QED
  BY <1>1, NamesAssumption DEF OutputOf

LEMMA SortedAreNames == \A k \in 1 .. Len(Sorted) : Sorted[k] \in OutputNames
  BY DEF OutputNames

(* A non-empty set of natural numbers has a least element.                 *)
LEMMA Least ==
  ASSUME NEW S, S \subseteq Nat, S # {}
  PROVE  \E i \in S : \A j \in S : i <= j
<1> DEFINE less == OpToRel(<, Nat)
<1>1. IsWellFoundedOn(less, Nat)
  BY NatLessThanWellFounded
<1>2. PICK i \in S : \A j \in S : ~(<<j, i>> \in less)
  BY <1>1, WFMin
<1>3. ASSUME NEW j \in S PROVE i <= j
  <2>1. less = {pair \in Nat \X Nat : pair[1] < pair[2]}
    BY DEF OpToRel
  <2> HIDE DEF less
  <2>2. i \in Nat /\ j \in Nat
    OBVIOUS
  <2>3. <<j, i>> \in less <=> j < i
    BY <2>1, <2>2
  <2> QED
    BY <1>2, <2>2, <2>3
<1> QED
  BY <1>3

(* A non-empty set of places has a first and a last one.                   *)
LEMMA FirstAndLast ==
  ASSUME NEW K, K \subseteq 1 .. Len(Sorted), K # {}
  PROVE  /\ First(K) \in K /\ \A j \in K : First(K) <= j
         /\ Last(K) \in K /\ \A j \in K : Last(K) >= j
<1>1. Len(Sorted) \in Nat
  BY LenProperties, NamesAssumption
<1>2. \E k \in K : \A j \in K : k <= j
  <2>1. K \subseteq Nat
    BY <1>1
  <2> QED
    BY <2>1, Least
<1>3. \E k \in K : \A j \in K : k >= j
  <2> DEFINE R == {n \in Nat : Len(Sorted) - n \in K}
  <2>1. PICK i \in K : TRUE
    OBVIOUS
  <2>2. Len(Sorted) - i \in R
    <3>1. i \in Int /\ i <= Len(Sorted)
      BY <1>1
    <3> QED
      BY <1>1, <2>1, <3>1
  <2>3. PICK r \in R : \A j \in R : r <= j
    BY <2>2, Least
  <2>4. Len(Sorted) - r \in K /\ r \in Nat
    OBVIOUS
  <2>5. ASSUME NEW j \in K PROVE Len(Sorted) - r >= j
    <3>1. j \in Int /\ j <= Len(Sorted)
      BY <1>1
    <3>2. Len(Sorted) - j \in R
      BY <1>1, <3>1
    <3>3. r <= Len(Sorted) - j
      BY <2>3, <3>2
    <3> QED
      BY <1>1, <2>4, <3>1, <3>3
  <2> QED
    BY <2>4, <2>5
<1> QED
  BY <1>2, <1>3 DEF First, Last

-----------------------------------------------------------------------------
(* Parsing. *)

(* Empty groups are right as long as nothing is sorted.                    *)
LEMMA GroupsEmpty ==
  /\ groups = Ungrouped /\ Seen = 0 => GroupsFilter
  /\ groups' = Ungrouped /\ Seen' = 0 => GroupsFilter'
<1>1. \A o \in OutputNames : Ungrouped[o] = <<>> /\ DOMAIN Ungrouped[o] = {}
  BY DEF Ungrouped
<1>2. 1 .. 0 = {}
  OBVIOUS
<1>3. groups = Ungrouped /\ Seen = 0 => GroupsFilter
  BY <1>1, <1>2 DEF GroupsFilter
<1>4. groups' = Ungrouped /\ Seen' = 0 => GroupsFilter'
  BY <1>1, <1>2 DEF GroupsFilter
<1> QED
  BY <1>3, <1>4

LEMMA InitOK == Init => IInv
<1> SUFFICES ASSUME Init PROVE IInv
  OBVIOUS
<1>1. TypeOK
  <2>1. groups \in [OutputNames -> Seq(1 .. Len(data))]
    BY EmptySeq DEF Init, Ungrouped
  <2>2. next \in 1 .. Len(data) + Len(Sorted) + 1
    BY LenProperties, NamesAssumption DEF Init
  <2> QED
    BY <2>1, <2>2, ProjectsAssumption, EmptySeq DEF Init, TypeOK
<1>2. Phases /\ Traversal
  BY DEF Init, Phases, Traversal
<1>3. Counted
  <2>1. Len(data) = 0 /\ Len(parsed) = 0 /\ 1 .. 0 = {}
    BY DEF Init
  <2>2. \A c : RecordsIn(data, c) = {} /\ SightedIn(parsed, Len(unit), c) = {}
    BY <2>1 DEF RecordsIn, SightedIn
  <2> QED
    BY <2>2, FS_EmptySet DEF Counted, Equinumerous
<1>4. GroupsFilter
  BY GroupsEmpty DEF Init, Seen
<1>5. OnDisk
  BY DEF Init, OnDisk
<1> QED
  BY <1>1, <1>2, <1>3, <1>4, <1>5 DEF IInv

(* In a unit newly opened nothing is visited, the ones before it are done. *)
LEMMA OpenUnit ==
  ASSUME NEW units \in Seq(Seq(Declarations)), NEW new \in Seq(Declarations), NEW c
  PROVE  SightedIn(Append(units, new), Len(new), c) = SightedIn(units, 0, c)
<1> DEFINE more == Append(units, new)
<1>1. /\ Len(units) \in Nat /\ Len(new) \in Nat /\ Len(more) = Len(units) + 1
      /\ more[Len(units) + 1] = new
      /\ \A u \in 1 .. Len(units) : more[u] = units[u] /\ Len(units[u]) \in Nat
  BY AppendProperties, LenProperties, ElementOfSeq
<1> HIDE DEF more
<1>2. VisitedIn(more, Len(new), Len(units) + 1) = 0
  BY <1>1 DEF VisitedIn
<1>3. \A u \in 1 .. Len(units) : VisitedIn(more, Len(new), u) = VisitedIn(units, 0, u)
  BY <1>1 DEF VisitedIn
<1>4. ASSUME NEW s \in SightedIn(more, Len(new), c) PROVE s \in SightedIn(units, 0, c)
  <2>1. s[1] # Len(units) + 1
    BY <1>2 DEF SightedIn
  <2>2. s[1] \in 1 .. Len(units)
    BY <1>1, <2>1 DEF SightedIn
  <2> QED
    BY <1>1, <1>3, <2>2 DEF SightedIn
<1>5. ASSUME NEW s \in SightedIn(units, 0, c) PROVE s \in SightedIn(more, Len(new), c)
  BY <1>1, <1>3 DEF SightedIn
<1> QED
  BY <1>4, <1>5 DEF more

(* Visiting a declaration sights its class, if that is what it does.       *)
LEMMA Advance ==
  ASSUME NEW units \in Seq(Seq(Declarations)), units # <<>>, NEW c,
         NEW left \in 1 .. Len(units[Len(units)])
  PROVE  LET place == <<Len(units), Len(units[Len(units)]) - left + 1>> IN
           /\ place \notin SightedIn(units, left, c)
           /\ SightedIn(units, left - 1, c) =
                IF Sighting(units[place[1]][place[2]], c)
                THEN SightedIn(units, left, c) \cup {place}
                ELSE SightedIn(units, left, c)
<1> DEFINE last  == Len(units)
           d     == Len(units[last]) - left + 1
           place == <<last, d>>
<1>1. last \in Nat /\ last >= 1 /\ last \in 1 .. last
  BY EmptySeq, LenProperties
<1>2. Len(units[last]) \in Nat /\ \A u \in 1 .. last : Len(units[u]) \in Nat
  BY <1>1, ElementOfSeq, LenProperties
<1>3. left \in Nat /\ left >= 1 /\ left <= Len(units[last]) /\ d \in Nat /\ d >= 1
  BY <1>2
<1>4. /\ \A u \in 1 .. last : u # last => VisitedIn(units, left - 1, u) = VisitedIn(units, left, u)
      /\ VisitedIn(units, left, last) = d - 1 /\ VisitedIn(units, left - 1, last) = d
  BY <1>2, <1>3 DEF VisitedIn
<1> HIDE DEF last, d
<1>5. place \in (1 .. last) \X Nat /\ place[1] = last /\ place[2] = d
  BY <1>1, <1>3
<1> HIDE DEF place
<1>6. place \notin SightedIn(units, left, c)
  BY <1>3, <1>4, <1>5 DEF SightedIn
<1>7. ASSUME NEW s \in SightedIn(units, left, c) PROVE s \in SightedIn(units, left - 1, c)
  <2>1. s \in (1 .. last) \X Nat /\ s[1] \in 1 .. last /\ s[2] \in Nat
    BY DEF SightedIn, last
  <2>2. s[2] <= VisitedIn(units, left - 1, s[1])
    <3>1. s[2] <= VisitedIn(units, left, s[1])
      BY DEF SightedIn
    <3>2. CASE s[1] = last
      BY <1>3, <1>4, <2>1, <3>1, <3>2
    <3>3. CASE s[1] # last
      BY <1>4, <2>1, <3>1, <3>3
    <3> QED
      BY <3>2, <3>3
  <2> QED
    BY <2>1, <2>2 DEF SightedIn, last
<1>8. ASSUME NEW s \in SightedIn(units, left - 1, c), s # place
      PROVE  s \in SightedIn(units, left, c)
  <2>1. s \in (1 .. last) \X Nat /\ s[1] \in 1 .. last /\ s[2] \in Nat
    BY DEF SightedIn, last
  <2>2. s = <<s[1], s[2]>>
    BY <2>1
  <2>3. s[2] <= VisitedIn(units, left, s[1])
    <3>1. s[2] <= VisitedIn(units, left - 1, s[1])
      BY DEF SightedIn
    <3>2. s[1] = last => s[2] # d
      BY <1>8, <2>2 DEF place
    <3> QED
      BY <1>3, <1>4, <2>1, <3>1, <3>2
  <2> QED
    BY <2>1, <2>3 DEF SightedIn, last
<1>9. place \in SightedIn(units, left - 1, c) <=> Sighting(units[place[1]][place[2]], c)
  BY <1>3, <1>4, <1>5 DEF SightedIn, last
<1>10. SightedIn(units, left - 1, c) =
         IF Sighting(units[place[1]][place[2]], c)
         THEN SightedIn(units, left, c) \cup {place}
         ELSE SightedIn(units, left, c)
  <2> DEFINE S == SightedIn(units, left, c)
             T == SightedIn(units, left - 1, c)
             P == Sighting(units[place[1]][place[2]], c)
  <2>1. S \subseteq T /\ T \subseteq S \cup {place} /\ place \notin S /\ (place \in T <=> P)
    BY <1>6, <1>7, <1>8, <1>9
  <2> HIDE DEF S, T, P
  <2>2. T = IF P THEN S \cup {place} ELSE S
    <3>1. CASE P
      BY <2>1, <3>1
    <3>2. CASE ~P
      <4>1. place \notin T
        BY <2>1, <3>2, Zenon
      <4>2. T = S
        BY <2>1, <4>1
      <4> QED
        BY <3>2, <4>2, Zenon
    <3> QED
      BY <3>1, <3>2
  <2> QED
    BY <2>2 DEF S, T, P
<1> QED
  BY <1>6, <1>10 DEF place, last, d

(* A unit newly opened is not visited yet, and the last one was to its end. *)
LEMMA ParseUnitOK == IInv /\ ParseUnit => IInv'
<1> SUFFICES ASSUME IInv, ParseUnit PROVE IInv'
  OBVIOUS
<1> USE DEF IInv
<1>1. PICK n \in 0 .. Len(Head(project)) : unit' = SubSeq(Head(project), 1, n)
  BY DEF ParseUnit
<1>2. Head(project) \in Seq(Declarations) /\ project' \in Seq(Seq(Declarations))
  BY HeadTailProperties DEF ParseUnit, TypeOK
<1>3. unit' \in Seq(Declarations)
  <2>1. Len(Head(project)) \in Nat
    BY <1>2, LenProperties
  <2>2. \A i \in 1 .. n : Head(project)[i] \in Declarations
    BY <1>2, <2>1, ElementOfSeq
  <2> QED
    BY <1>1, <2>1, <2>2, SubSeqProperties
<1>4. /\ parsed' \in Seq(Seq(Declarations)) /\ Len(parsed') = Len(parsed) + 1
      /\ parsed'[Len(parsed) + 1] = unit'
      /\ \A u \in 1 .. Len(parsed) : parsed'[u] = parsed[u]
  BY <1>3, AppendProperties DEF ParseUnit, TypeOK
<1>5. TypeOK'
  BY <1>2, <1>3, <1>4 DEF TypeOK, ParseUnit
<1>6. Phases'
  BY DEF Phases, ParseUnit
<1>7. Traversal'
  BY <1>3, <1>4, <1>5, StateFacts, LenProperties DEF Traversal, LastUnit
<1>8. Counted'
  <2>1. parsed' = Append(parsed, unit') /\ Len(unit) = 0 /\ data' = data
    BY DEF ParseUnit
  <2>2. \A c : SightedIn(parsed', Len(unit'), c) = SightedIn(parsed, Len(unit), c)
    BY <1>3, <2>1, OpenUnit DEF TypeOK
  <2> QED
    BY <2>1, <2>2 DEF Counted
<1>9. GroupsFilter'
  BY GroupsEmpty DEF Phases, Seen, ParseUnit
<1>10. OnDisk'
  BY DEF OnDisk, ParseUnit
<1> QED
  BY <1>5, <1>6, <1>7, <1>8, <1>9, <1>10

(* One more of each keeps two finite sets equally large.                   *)
LEMMA OneMore ==
  ASSUME NEW S, NEW T, Equinumerous(S, T), NEW x, NEW y, x \notin S, y \notin T
  PROVE  Equinumerous(S \cup {x}, T \cup {y})
<1>1. IsFiniteSet(S) /\ IsFiniteSet(T) /\ Cardinality(S) = Cardinality(T)
  BY DEF Equinumerous
<1>2. IsFiniteSet(S \cup {x}) /\ Cardinality(S \cup {x}) = Cardinality(S) + 1
  BY <1>1, FS_AddElement
<1>3. IsFiniteSet(T \cup {y}) /\ Cardinality(T \cup {y}) = Cardinality(T) + 1
  BY <1>1, FS_AddElement
<1> QED
  BY <1>1, <1>2, <1>3 DEF Equinumerous

(* A declaration visited is a sighting of its class if it is recorded with *)
(* a path, and of no class otherwise.                                      *)
LEMMA VisitOK == IInv /\ Visit => IInv'
<1> SUFFICES ASSUME IInv, Visit PROVE IInv'
  OBVIOUS
<1> USE DEF IInv
<1> DEFINE decl == Head(unit)
<1>1. /\ decl \in Declarations /\ unit' = Tail(unit) /\ unit' \in Seq(Declarations)
      /\ unit \in Seq(Declarations) /\ Len(unit) \in Nat /\ Len(unit) >= 1
      /\ Len(unit') = Len(unit) - 1 /\ decl = unit[1]
      /\ \A i \in 1 .. Len(unit') : unit'[i] = unit[i + 1]
  BY HeadTailProperties, LenProperties, EmptySeq DEF Visit, Remaining, TypeOK
<1>2. data \in Seq(Record) /\ [class |-> decl.class, path |-> decl.path] \in Record
  BY <1>1 DEF TypeOK, Record, Declarations
<1>3. data' \in Seq(Record) /\ Len(data') >= Len(data) /\ Len(data) \in Nat /\ Len(data') \in Nat
  BY <1>2, AppendProperties, LenProperties DEF Visit
<1>4. groups = Ungrouped /\ groups' = Ungrouped /\ pc = "parse" /\ pc' = "parse" /\ next' = 1 /\ next = 1
  BY DEF Visit, Phases
<1>5. TypeOK'
  <2>1. groups' \in [OutputNames -> Seq(1 .. Len(data'))]
    BY <1>4, EmptySeq DEF Ungrouped
  <2>2. next' \in 1 .. Len(data') + Len(Sorted) + 1
    BY <1>3, <1>4, StateFacts
  <2> QED
    BY <1>1, <1>3, <2>1, <2>2 DEF TypeOK, Visit, Record
<1>6. Phases'
  BY <1>4 DEF Phases
<1>7. /\ parsed # <<>> /\ Len(unit) \in 1 .. Len(parsed[Len(parsed)])
      /\ parsed' = parsed /\ LastUnit' = LastUnit
      /\ Len(parsed) >= 1 /\ Len(LastUnit) \in Nat /\ LastUnit = parsed[Len(parsed)]
      /\ decl = parsed[Len(parsed)][Len(parsed[Len(parsed)]) - Len(unit) + 1]
  <2>1. parsed # <<>> /\ Len(parsed) >= 1 /\ Len(parsed) \in 1 .. Len(parsed)
    BY EmptySeq, LenProperties DEF Visit, Traversal, TypeOK
  <2>2. Len(LastUnit) \in Nat
    BY <2>1, StateFacts DEF LastUnit
  <2> QED
    BY <1>1, <2>1, <2>2 DEF Visit, Traversal, LastUnit
<1>8. Traversal'
  BY <1>1, <1>7 DEF Traversal, LastUnit
<1>9. Counted'
  <2> SUFFICES ASSUME NEW c \in Classes
               PROVE  Equinumerous(RecordsIn(data', c), SightedIn(parsed', Len(unit'), c))
    BY DEF Counted
  <2> DEFINE place == <<Len(parsed), Len(parsed[Len(parsed)]) - Len(unit) + 1>>
             S == RecordsIn(data, c)
             T == SightedIn(parsed, Len(unit), c)
  <2>1. Equinumerous(S, T)
    BY DEF Counted
  <2>2. /\ place \notin T
        /\ SightedIn(parsed', Len(unit'), c) = IF Sighting(decl, c) THEN T \cup {place} ELSE T
    BY <1>1, <1>7, Advance DEF TypeOK
  <2>3. CASE Sighting(decl, c)
    <3>1. /\ data' = Append(data, [class |-> decl.class, path |-> decl.path])
          /\ decl.class = c /\ decl.path # NoPath
      BY <2>3 DEF Visit, Marked, Sighting
    <3>2. RecordsIn(data', c) = S \cup {Len(data) + 1} /\ Len(data) + 1 \notin S
      BY <1>2, <1>3, <3>1, AppendProperties DEF RecordsIn
    <3> HIDE DEF S, T, place
    <3> QED
      BY <2>1, <2>2, <2>3, <3>2, OneMore
  <2>4. CASE ~Sighting(decl, c)
    <3>1. RecordsIn(data', c) = S
      <4>1. CASE Marked(decl)
        <5>1. /\ data' = Append(data, [class |-> decl.class, path |-> decl.path])
              /\ ~(decl.class = c /\ decl.path # NoPath)
          BY <2>4, <4>1 DEF Visit, Marked, Sighting
        <5> QED
          BY <1>2, <1>3, <5>1, AppendProperties DEF RecordsIn
      <4>2. CASE ~Marked(decl)
        BY <4>2 DEF Visit
      <4> QED
        BY <4>1, <4>2
    <3> QED
      BY <2>1, <2>2, <2>4, <3>1
  <2> QED
    BY <2>3, <2>4
<1>10. GroupsFilter'
  BY <1>4, GroupsEmpty DEF Seen
<1>11. OnDisk'
  BY <1>4 DEF OnDisk, Visit
<1> QED
  BY <1>5, <1>6, <1>8, <1>9, <1>10, <1>11

LEMMA StartGeneratingOK == IInv /\ StartGenerating => IInv'
<1> SUFFICES ASSUME IInv, StartGenerating PROVE IInv'
  OBVIOUS
<1> USE DEF IInv
<1>1. /\ groups' = Ungrouped /\ next' = 1 /\ pc' \in {"group", "crashed"} /\ pc = "parse"
      /\ UNCHANGED <<parsed, unit, data, files, before>>
  BY DEF StartGenerating, Phases
<1>2. TypeOK'
  BY DEF TypeOK, StartGenerating
<1>3. Phases' /\ Traversal'
  BY <1>1, StateFacts DEF Phases, Traversal, LastUnit, StartGenerating
<1>4. Counted'
  BY <1>1 DEF Counted
<1>5. GroupsFilter'
  BY <1>1, GroupsEmpty DEF Seen
<1>6. OnDisk'
  BY <1>1 DEF OnDisk
<1> QED
  BY <1>2, <1>3, <1>4, <1>5, <1>6

LEMMA RunAgainOK == IInv /\ RunAgain => IInv'
<1> SUFFICES ASSUME IInv, RunAgain PROVE IInv'
  OBVIOUS
<1> USE DEF IInv
<1>1. /\ groups' = Ungrouped /\ next' = 1 /\ pc' = "parse" /\ unit' = <<>> /\ parsed' = <<>>
      /\ data' = <<>> /\ files' = files /\ before' = files /\ dirs' = dirs
  BY DEF RunAgain
<1>2. TypeOK'
  <2>1. groups' \in [OutputNames -> Seq(1 .. Len(data'))]
    BY <1>1, EmptySeq DEF Ungrouped
  <2>2. next' \in 1 .. Len(data') + Len(Sorted) + 1
    BY <1>1, StateFacts
  <2> QED
    BY <1>1, <2>1, <2>2, ProjectsAssumption, EmptySeq DEF TypeOK, RunAgain
<1>3. Phases' /\ Traversal'
  BY <1>1 DEF Phases, Traversal
<1>4. Counted'
  <2>1. Len(data') = 0 /\ Len(parsed') = 0 /\ 1 .. 0 = {}
    BY <1>1
  <2>2. \A c : RecordsIn(data', c) = {} /\ SightedIn(parsed', Len(unit'), c) = {}
    BY <2>1 DEF RecordsIn, SightedIn
  <2> QED
    BY <2>2, FS_EmptySet DEF Counted, Equinumerous
<1>5. GroupsFilter'
  BY <1>1, GroupsEmpty DEF Seen
<1>6. OnDisk'
  BY <1>1 DEF OnDisk
<1> QED
  BY <1>2, <1>3, <1>4, <1>5, <1>6

-----------------------------------------------------------------------------
(* Sorting and writing. *)

(* A step that leaves parsing alone keeps what was counted.                *)
LEMMA ParsingDone ==
  Counted /\ UNCHANGED <<parsed, unit, data>> => Counted'
BY DEF Counted

LEMMA GroupOK == IInv /\ Group => IInv'
<1> SUFFICES ASSUME IInv, Group PROVE IInv'
  OBVIOUS
<1> USE DEF IInv
<1> DEFINE r == data[next]
           here == OutputOf(r)
<1>1. /\ pc = "group" /\ pc' = "group" /\ next' = next + 1 /\ next <= Len(data) /\ unit = <<>>
      /\ UNCHANGED <<project, parsed, unit, data, dirs, files, before>>
      /\ next \in 1 .. Len(data) /\ Len(data) \in Nat /\ next \in Nat
  BY StateFacts DEF Group, Phases
<1>2. r \in Record
  BY <1>1, StateFacts
<1>3. \A o \in OutputNames :
        groups'[o] = IF r.path # NoPath /\ here = o THEN Append(groups[o], next) ELSE groups[o]
  BY OutputIsName, <1>2 DEF Group, Added, TypeOK
<1>4. \A o \in OutputNames :
        /\ groups[o] \in Seq(1 .. Len(data)) /\ Len(groups[o]) \in Nat
        /\ DOMAIN groups[o] = 1 .. Len(groups[o])
  BY StateFacts
<1>5. \A o \in OutputNames : Append(groups[o], next) \in Seq(1 .. Len(data))
  BY <1>1, <1>4, AppendProperties
<1>6. TypeOK'
  <2>1. groups' \in [OutputNames -> Seq(1 .. Len(data))]
    <3>1. DOMAIN groups' = OutputNames /\ groups' = [o \in OutputNames |-> groups'[o]]
      BY DEF Group, TypeOK
    <3>2. \A o \in OutputNames : groups'[o] \in Seq(1 .. Len(data))
      BY <1>3, <1>4, <1>5
    <3> QED
      BY <3>1, <3>2
  <2>2. next' \in 1 .. Len(data') + Len(Sorted) + 1
    BY <1>1, StateFacts
  <2> QED
    BY <1>1, <2>1, <2>2 DEF TypeOK
<1>7. Phases' /\ Traversal' /\ Counted'
  BY <1>1, ParsingDone DEF Phases, Traversal
<1>8. GroupsFilter'
  <2> SUFFICES ASSUME NEW o \in OutputNames
               PROVE  /\ {groups'[o][k] : k \in DOMAIN groups'[o]} =
                           {i \in 1 .. Seen' : data[i].path # NoPath /\ OutputOf(data[i]) = o}
                      /\ \A j, k \in DOMAIN groups'[o] : j < k => groups'[o][j] < groups'[o][k]
    BY <1>1, Zenon DEF GroupsFilter, OutputOf
  <2> DEFINE g == groups[o]
             In(i) == data[i].path # NoPath /\ OutputOf(data[i]) = o
  <2>1. Seen = next - 1 /\ Seen' = next
    BY <1>1 DEF Seen
  <2>2. /\ {g[k] : k \in DOMAIN g} = {i \in 1 .. next - 1 : In(i)}
        /\ \A j, k \in DOMAIN g : j < k => g[j] < g[k]
    BY <2>1 DEF GroupsFilter
  <2>3. g \in Seq(1 .. Len(data)) /\ Len(g) \in Nat /\ DOMAIN g = 1 .. Len(g)
    BY <1>4
  <2>4. groups'[o] = IF In(next) THEN Append(g, next) ELSE g
    BY <1>3
  <2>5. \A i : i \in 1 .. next <=> i \in 1 .. next - 1 \/ i = next
    BY <1>1
  <2> HIDE DEF In
  <2>6. CASE ~In(next)
    <3>1. {i \in 1 .. next : In(i)} = {i \in 1 .. next - 1 : In(i)}
      BY <2>5, <2>6
    <3>2. groups'[o] = g
      BY <2>4, <2>6
    <3> QED
      BY <2>1, <2>2, <3>1, <3>2 DEF In
  <2>7. CASE In(next)
    <3> DEFINE h == Append(g, next)
    <3>1. /\ Len(h) = Len(g) + 1 /\ h[Len(g) + 1] = next
          /\ \A k \in 1 .. Len(g) : h[k] = g[k]
          /\ DOMAIN h = 1 .. Len(g) + 1
      BY <1>1, <2>3, AppendProperties, LenProperties
    <3> HIDE DEF h, g
    <3>2. \A k : k \in DOMAIN h <=> k \in DOMAIN g \/ k = Len(g) + 1
      BY <2>3, <3>1
    <3>3. {h[k] : k \in DOMAIN h} = {g[k] : k \in DOMAIN g} \cup {next}
      BY <2>3, <3>1, <3>2
    <3>4. {i \in 1 .. next : In(i)} = {i \in 1 .. next - 1 : In(i)} \cup {next}
      BY <2>5, <2>7
    <3>5. \A k \in DOMAIN g : g[k] < next
      <4>1. \A k \in DOMAIN g : g[k] \in {i \in 1 .. next - 1 : In(i)}
        BY <2>2
      <4> QED
        BY <1>1, <4>1
    <3>6. \A j, k \in DOMAIN h : j < k => h[j] < h[k]
      BY <2>2, <2>3, <3>1, <3>2, <3>5
    <3>7. groups'[o] = h
      BY <2>4, <2>7 DEF h, g
    <3> QED
      BY <2>1, <2>2, <3>3, <3>4, <3>6, <3>7 DEF In
  <2> QED
    BY <2>6, <2>7
<1>9. OnDisk'
  BY <1>1 DEF OnDisk
<1> QED
  BY <1>6, <1>7, <1>8, <1>9

LEMMA StartWritingOK == IInv /\ StartWriting => IInv'
<1> SUFFICES ASSUME IInv, StartWriting PROVE IInv'
  OBVIOUS
<1> USE DEF IInv
<1>1. /\ pc = "group" /\ pc' = "write" /\ next' = 1 /\ next = Len(data) + 1
      /\ UNCHANGED <<project, parsed, unit, data, groups, dirs, files, before>>
      /\ unit = <<>> /\ Len(data) \in Nat /\ Len(Sorted) \in Nat
  BY StateFacts DEF StartWriting, Phases
<1>2. TypeOK' /\ Phases' /\ Traversal' /\ Counted'
  BY <1>1, ParsingDone DEF TypeOK, Phases, Traversal
<1>3. GroupsFilter'
  <2>1. Seen = Len(data) /\ Seen' = Len(data)
    BY <1>1 DEF Seen
  <2> QED
    BY <1>1, <2>1 DEF GroupsFilter, OutputOf
<1>4. OnDisk'
  <2>1. Done' = {}
    BY <1>1 DEF Done, Keys
  <2> QED
    BY <1>1, <2>1 DEF OnDisk
<1> QED
  BY <1>2, <1>3, <1>4

LEMMA WriteFileOK == IInv /\ WriteFile => IInv'
<1> SUFFICES ASSUME IInv, WriteFile PROVE IInv'
  OBVIOUS
<1> USE DEF IInv
<1>1. PICK k : k = First(Left)
  OBVIOUS
<1>2. /\ pc = "write" /\ pc' = "write" /\ Left # {} /\ next' = k + 1 /\ unit = <<>>
      /\ UNCHANGED <<project, parsed, unit, data, groups, dirs, before>>
      /\ files' = IF PercentS \in dirs
                  THEN Written(OnePath, Content(groups[Sorted[k]])) ELSE files
  BY <1>1 DEF WriteFile, Phases, OutputPath, OnePath, Opens
<1>3. /\ k \in Left /\ k \in Keys /\ k \in 1 .. Len(Sorted) /\ k >= next
      /\ \A j \in Left : k <= j
      /\ next \in Nat /\ Len(Sorted) \in Nat /\ Len(data) \in Nat /\ next >= 1
  BY <1>1, <1>2, FirstAndLast, StateFacts DEF Left, Keys
<1>4. TypeOK' /\ Phases' /\ Traversal' /\ Counted'
  BY <1>2, <1>3, ParsingDone DEF TypeOK, Phases, Traversal
<1>5. GroupsFilter'
  BY <1>2 DEF GroupsFilter, OutputOf, Seen
<1>6. OnDisk'
  <2>1. Done' = Done \cup {k}
    <3>1. Keys' = Keys /\ Keys \subseteq 1 .. Len(Sorted)
      BY <1>2 DEF Keys
    <3>2. \A j \in Keys : j < k + 1 <=> j < next \/ j = k
      BY <1>3, <3>1 DEF Left
    <3> QED
      BY <1>2, <1>3, <3>1, <3>2 DEF Done
  <2>2. Last(Done)' = k
    <3>1. PICK D : D = Done'
      OBVIOUS
    <3>2. D \subseteq 1 .. Len(Sorted) /\ k \in D /\ \A j \in D : j <= k
      BY <1>3, <2>1, <3>1 DEF Done, Keys
    <3>3. Last(D) \in D /\ Last(D) >= k
      BY <3>2, FirstAndLast
    <3>4. Last(D) = k
      <4>1. Last(D) \in 1 .. Len(Sorted) /\ Last(D) <= k
        BY <3>2, <3>3
      <4> QED
        BY <1>3, <3>3, <4>1
    <3> QED
      BY <3>1, <3>4 DEF Last
  <2>3. Content(groups[Sorted[Last(Done)]])' = Content(groups[Sorted[k]])
    BY <1>2, <2>2 DEF Content
  <2>4. CASE PercentS \in dirs
    <3>1. DOMAIN files' = {OnePath} /\ files'[OnePath] = Content(groups[Sorted[k]])
      BY <1>2, <2>4 DEF Written, OnDisk
    <3> QED
      BY <1>2, <2>1, <2>3, <2>4, <3>1 DEF OnDisk, OnePath
  <2>5. CASE PercentS \notin dirs
    BY <1>2, <2>5 DEF OnDisk, OnePath
  <2> QED
    BY <2>4, <2>5
<1> QED
  BY <1>4, <1>5, <1>6

LEMMA ExitOK == IInv /\ Exit => IInv'
<1> SUFFICES ASSUME IInv, Exit PROVE IInv'
  OBVIOUS
<1> USE DEF IInv
<1>1. /\ pc = "write" /\ pc' = "done" /\ Left = {} /\ Left' = {} /\ Done' = Done
      /\ UNCHANGED <<project, parsed, unit, data, next, groups, dirs, files, before>>
  BY DEF Exit, Left, Done, Keys
<1>2. TypeOK' /\ Phases' /\ Traversal' /\ Counted'
  BY <1>1, ParsingDone DEF TypeOK, Phases, Traversal
<1>3. GroupsFilter'
  BY <1>1 DEF GroupsFilter, OutputOf, Seen
<1>4. OnDisk'
  BY <1>1 DEF OnDisk, Content
<1> QED
  BY <1>2, <1>3, <1>4

LEMMA StutterOK == IInv /\ UNCHANGED vars => IInv'
<1> SUFFICES ASSUME IInv, UNCHANGED vars PROVE IInv'
  OBVIOUS
<1> USE DEF IInv, vars
<1>1. TypeOK'
  BY DEF TypeOK
<1>2. Phases'
  BY DEF Phases, Left, Keys
<1>3. Traversal' /\ Counted'
  BY DEF Traversal, LastUnit, Counted
<1>4. GroupsFilter'
  BY DEF GroupsFilter, OutputOf, Seen
<1>5. OnDisk'
  BY DEF OnDisk, Done, Keys, Content
<1> QED
  BY <1>1, <1>2, <1>3, <1>4, <1>5

LEMMA Inductive == Spec => []IInv
<1>1. IInv /\ [Next]_vars => IInv'
  BY ParseUnitOK, VisitOK, StartGeneratingOK, GroupOK, StartWritingOK, WriteFileOK, ExitOK,
     RunAgainOK, StutterOK DEF Next, Step
<1> QED
  BY InitOK, <1>1, PTL DEF Spec

-----------------------------------------------------------------------------
(* The variables of the generator keep their types: no loop leaves its     *)
(* range.                                                                  *)
THEOREM TypeCorrect == Spec => []TypeOK
  BY Inductive, PTL DEF IInv

(* The loop over the records sorts as filtering would, for any names.      *)
THEOREM GroupsAreFilters == Spec => []GroupsFilter
  BY Inductive, PTL DEF IInv

LEMMA LastStays == IInv => LastGroupStays
<1> SUFFICES ASSUME IInv, Over PROVE LastGroupStays
  BY DEF LastGroupStays
<1> USE DEF IInv
<1>1. CASE pc = "crashed"
  <2>1. Keys = {}
    BY <1>1, SortedAreNames DEF Phases, Keys, Ungrouped
  <2> QED
    BY <1>1, <2>1 DEF LastGroupStays, OnDisk
<1>2. CASE pc = "done"
  <2>1. Done = Keys
    <3>1. Keys \subseteq 1 .. Len(Sorted) /\ next \in Nat
      BY StateFacts DEF Keys
    <3>2. \A k \in Keys : k < next
      BY <1>2, <3>1 DEF Phases, Left
    <3> QED
      BY <3>2 DEF Done
  <2> QED
    BY <1>2, <2>1 DEF LastGroupStays, OnDisk, OnePath
<1> QED
  BY <1>1, <1>2 DEF Over

(* However often it is run and whatever fails, the generator leaves the    *)
(* group it wrote last or what was there before.                           *)
THEOREM LastGroupOnDisk == Spec => []LastGroupStays
  BY Inductive, LastStays, PTL

(* Each record with a path is in the groups once.                          *)
LEMMA DefinitionsAreRecords ==
  ASSUME IInv, Seen = Len(data), NEW c \in Classes
  PROVE  Cardinality(Definitions(c)) = Cardinality(RecordsIn(data, c))
<1> USE DEF IInv
<1> DEFINE D == Definitions(c)
           R == RecordsIn(data, c)
           f == [d \in D |-> groups[d[1]][d[2]]]
<1>1. \A d : d \in D <=> \E o \in OutputNames : \E k \in DOMAIN groups[o] :
                           d = <<o, k>> /\ data[groups[o][k]].class = c
  BY DEF Definitions, Defines
<1>2. ASSUME NEW o \in OutputNames, NEW k \in DOMAIN groups[o]
      PROVE  /\ groups[o][k] \in 1 .. Len(data)
             /\ data[groups[o][k]].path # NoPath /\ OutputOf(data[groups[o][k]]) = o
  BY DEF GroupsFilter
<1>3. f \in [D -> R]
  BY <1>1, <1>2 DEF RecordsIn
<1>4. ASSUME NEW d \in D, NEW e \in D, f[d] = f[e] PROVE d = e
  <2>1. PICK o \in OutputNames : \E k \in DOMAIN groups[o] : d = <<o, k>>
    BY <1>1
  <2>2. PICK p \in OutputNames : \E j \in DOMAIN groups[p] : e = <<p, j>>
    BY <1>1
  <2>3. PICK k \in DOMAIN groups[o] : d = <<o, k>>
    BY <2>1
  <2>4. PICK j \in DOMAIN groups[p] : e = <<p, j>>
    BY <2>2
  <2>5. groups[o][k] = groups[p][j]
    BY <1>4, <2>3, <2>4
  <2>6. o = p
    BY <1>2, <2>5
  <2>7. k \in Nat /\ j \in Nat /\ groups[o][k] \in Nat
    BY <1>2, <2>6, StateFacts
  <2>8. ~(k < j) /\ ~(j < k)
    BY <1>2, <2>5, <2>6, <2>7 DEF GroupsFilter
  <2> QED
    BY <2>3, <2>4, <2>6, <2>7, <2>8
<1>5. ASSUME NEW i \in R PROVE \E d \in D : f[d] = i
  <2>1. i \in 1 .. Len(data) /\ data[i].class = c /\ data[i].path # NoPath
    BY DEF RecordsIn
  <2>2. OutputOf(data[i]) \in OutputNames
    BY <2>1, StateFacts, OutputIsName
  <2>3. PICK k \in DOMAIN groups[OutputOf(data[i])] : groups[OutputOf(data[i])][k] = i
    BY <2>1, <2>2 DEF GroupsFilter
  <2>4. <<OutputOf(data[i]), k>> \in D
    BY <1>1, <2>1, <2>2, <2>3
  <2> QED
    BY <2>3, <2>4
<1>6. f \in Bijection(D, R)
  BY <1>3, <1>4, <1>5, Fun_IsBij
<1>7. IsFiniteSet(R)
  BY DEF Counted, Equinumerous
<1> HIDE DEF D, R, f
<1>8. ExistsBijection(R, D)
  BY <1>6, Fun_ExistsBijSymmetric DEF ExistsBijection
<1> QED
  BY <1>7, <1>8, FS_Bijection DEF D, R

(* Once all units are visited, those sighted so far are all there are.     *)
LEMMA AllSighted ==
  ASSUME TypeOK, unit = <<>>, NEW c
  PROVE  SightedIn(parsed, Len(unit), c) = Sightings(c)
<1>1. /\ Len(unit) = 0 /\ Len(parsed) \in Nat /\ DOMAIN parsed = 1 .. Len(parsed)
      /\ \A u \in 1 .. Len(parsed) :
           Len(parsed[u]) \in Nat /\ DOMAIN parsed[u] = 1 .. Len(parsed[u])
  BY StateFacts
<1>2. \A u \in 1 .. Len(parsed) : VisitedIn(parsed, Len(unit), u) = Len(parsed[u])
  BY <1>1 DEF VisitedIn
<1>3. \A s : s \in Sightings(c) <=>
        \E u \in 1 .. Len(parsed) : \E d \in 1 .. Len(parsed[u]) :
          s = <<u, d>> /\ Sighting(parsed[u][d], c)
  <2>1. \A s : s \in Positions <=>
          \E u \in 1 .. Len(parsed) : \E d \in 1 .. Len(parsed[u]) : s = <<u, d>>
    <3>1. \A s : s \in Positions <=>
            \E u \in DOMAIN parsed : \E d \in DOMAIN parsed[u] : s = <<u, d>>
      BY DEF Positions
    <3>2. DOMAIN parsed = 1 .. Len(parsed)
          /\ \A u \in 1 .. Len(parsed) : DOMAIN parsed[u] = 1 .. Len(parsed[u])
      BY <1>1
    <3> QED
      BY <3>1, <3>2, Zenon
  <2>2. \A s : s \in Sightings(c) <=> s \in Positions /\ Sighting(parsed[s[1]][s[2]], c)
    BY DEF Sightings
  <2>3. ASSUME NEW s, NEW u, NEW d, s = <<u, d>>
        PROVE  Sighting(parsed[s[1]][s[2]], c) <=> Sighting(parsed[u][d], c)
    <3>1. s[1] = u /\ s[2] = d
      BY <2>3
    <3> QED
      BY <3>1
  <2>4. ASSUME NEW s \in Sightings(c)
        PROVE  \E u \in 1 .. Len(parsed) : \E d \in 1 .. Len(parsed[u]) :
                 s = <<u, d>> /\ Sighting(parsed[u][d], c)
    BY <2>1, <2>2, <2>3, Zenon
  <2>5. ASSUME NEW u \in 1 .. Len(parsed), NEW d \in 1 .. Len(parsed[u]),
               Sighting(parsed[u][d], c)
        PROVE  <<u, d>> \in Sightings(c)
    BY <2>1, <2>2, <2>3, <2>5, Zenon
  <2> QED
    BY <2>4, <2>5, Zenon
<1>4. ASSUME NEW s \in SightedIn(parsed, Len(unit), c) PROVE s \in Sightings(c)
  <2>1. s = <<s[1], s[2]>> /\ s[1] \in 1 .. Len(parsed) /\ s[2] \in Nat
    BY DEF SightedIn
  <2>2. s[2] \in 1 .. Len(parsed[s[1]]) /\ Sighting(parsed[s[1]][s[2]], c)
    BY <1>1, <1>2, <2>1 DEF SightedIn
  <2> QED
    BY <1>3, <2>1, <2>2
<1>5. ASSUME NEW s \in Sightings(c) PROVE s \in SightedIn(parsed, Len(unit), c)
  <2>1. PICK u \in 1 .. Len(parsed) :
          \E d \in 1 .. Len(parsed[u]) : s = <<u, d>> /\ Sighting(parsed[u][d], c)
    BY <1>3
  <2>2. PICK d \in 1 .. Len(parsed[u]) : s = <<u, d>> /\ Sighting(parsed[u][d], c)
    BY <2>1
  <2>3. d \in Nat /\ d >= 1 /\ d <= VisitedIn(parsed, Len(unit), u)
    BY <1>1, <1>2
  <2> QED
    BY <2>2, <2>3 DEF SightedIn
<1> QED
  BY <1>4, <1>5

LEMMA Defined == IInv => DefinedPerSighting
<1> SUFFICES ASSUME IInv, pc \in {"write", "done"}, NEW c \in Classes
             PROVE  Cardinality(Definitions(c)) = Cardinality(Sightings(c))
  BY DEF DefinedPerSighting
<1> USE DEF IInv
<1>1. Cardinality(Definitions(c)) = Cardinality(RecordsIn(data, c))
  BY DefinitionsAreRecords DEF Seen
<1>2. SightedIn(parsed, Len(unit), c) = Sightings(c)
  BY AllSighted DEF Phases
<1> QED
  BY <1>1, <1>2 DEF Counted, Equinumerous

(* A class has one definition for each unit in which it was sighted, for   *)
(* any projects: none is lost and none added on the way to its group.      *)
THEOREM EachSightingDefined == Spec => []DefinedPerSighting
  BY Inductive, Defined, PTL

-----------------------------------------------------------------------------
(* The end of a run. *)

(* What is left of a run: its phases, the units not parsed, and the rest   *)
(* of the loop it is in.                                                   *)
PhasesLeft ==
  CASE pc = "parse" -> 3 [] pc = "group" -> 2 [] pc = "write" -> 1 [] OTHER -> 0
LoopLeft ==
  CASE pc = "parse" -> Len(unit)
    [] pc = "group" -> Len(data) + 1 - next
    [] pc = "write" -> Len(Sorted) + 1 - next
    [] OTHER        -> 0
WorkLeft == <<PhasesLeft, Len(project), LoopLeft>>

(* Lexicographic order. *)
Less(s, t) ==
  \/ s[1] < t[1]
  \/ s[1] = t[1] /\ s[2] < t[2]
  \/ s[1] = t[1] /\ s[2] = t[2] /\ s[3] < t[3]

(* Every step of a run leaves less of it. *)
RunWindsDown == [][Step => Less(WorkLeft', WorkLeft)]_vars

LEMMA WorkIsNumbers == IInv => WorkLeft \in Nat \X Nat \X Nat
<1> SUFFICES ASSUME IInv PROVE WorkLeft \in Nat \X Nat \X Nat
  OBVIOUS
<1>1. /\ Len(unit) \in Nat /\ Len(data) \in Nat /\ Len(Sorted) \in Nat /\ next \in Nat
      /\ pc \in {"parse", "group", "write", "done", "crashed"}
  BY StateFacts DEF IInv, TypeOK
<1>2. Len(project) \in Nat
  BY LenProperties DEF IInv, TypeOK
<1>3. LoopLeft \in Nat
  BY <1>1 DEF LoopLeft, IInv, Phases
<1>4. PhasesLeft \in Nat
  BY <1>1 DEF PhasesLeft
<1> QED
  BY <1>2, <1>3, <1>4 DEF WorkLeft

LEMMA StepWindsDown ==
  ASSUME IInv, IInv', Step
  PROVE  Less(WorkLeft', WorkLeft)
<1>1. /\ Len(unit) \in Nat /\ Len(data) \in Nat /\ Len(Sorted) \in Nat /\ next \in Nat
      /\ pc \in {"parse", "group", "write", "done", "crashed"}
      /\ Len(project) \in Nat /\ unit \in Seq(Declarations) /\ project \in Seq(Seq(Declarations))
  BY StateFacts, LenProperties DEF IInv, TypeOK
<1>2. /\ WorkLeft[1] = PhasesLeft /\ WorkLeft[2] = Len(project) /\ WorkLeft[3] = LoopLeft
      /\ WorkLeft'[1] = PhasesLeft' /\ WorkLeft'[2] = Len(project') /\ WorkLeft'[3] = LoopLeft'
  BY DEF WorkLeft
<1>3. CASE ParseUnit
  <2>1. project # <<>> /\ project' = Tail(project) /\ pc = "parse" /\ pc' = "parse"
    BY <1>3 DEF ParseUnit
  <2>2. Len(project') < Len(project)
    BY <1>1, <2>1, EmptySeq, HeadTailProperties
  <2>3. PhasesLeft' = PhasesLeft
    BY <2>1 DEF PhasesLeft
  <2> QED
    BY <1>2, <2>2, <2>3 DEF Less
<1>4. CASE Visit
  <2>1. /\ unit # <<>> /\ unit' = Tail(unit) /\ pc = "parse" /\ pc' = "parse"
        /\ project' = project
    BY <1>4 DEF Visit, Remaining
  <2>2. Len(unit') < Len(unit)
    BY <1>1, <2>1, EmptySeq, HeadTailProperties
  <2>3. PhasesLeft' = PhasesLeft /\ LoopLeft = Len(unit) /\ LoopLeft' = Len(unit')
    BY <2>1 DEF PhasesLeft, LoopLeft
  <2> QED
    BY <1>2, <2>1, <2>2, <2>3 DEF Less
<1>5. CASE StartGenerating \/ StartWriting \/ Exit
  <2>1. \/ pc = "parse" /\ pc' \in {"group", "crashed"}
        \/ pc = "group" /\ pc' = "write"
        \/ pc = "write" /\ pc' = "done"
    BY <1>5 DEF StartGenerating, StartWriting, Exit
  <2>2. PhasesLeft' < PhasesLeft
    BY <2>1 DEF PhasesLeft
  <2> QED
    BY <1>2, <2>2 DEF Less
<1>6. CASE Group
  <2>1. /\ pc = "group" /\ pc' = "group" /\ next <= Len(data) /\ next' = next + 1
        /\ data' = data /\ project' = project
    BY <1>6 DEF Group
  <2>2. PhasesLeft' = PhasesLeft /\ LoopLeft' < LoopLeft
    BY <1>1, <2>1 DEF PhasesLeft, LoopLeft
  <2> QED
    BY <1>2, <2>1, <2>2 DEF Less
<1>7. CASE WriteFile
  <2>1. /\ pc = "write" /\ pc' = "write" /\ Left # {} /\ next' = First(Left) + 1
        /\ project' = project
    BY <1>7 DEF WriteFile
  <2>2. First(Left) \in 1 .. Len(Sorted) /\ First(Left) >= next
    <3>1. Left \subseteq 1 .. Len(Sorted) /\ \A k \in Left : k >= next
      BY DEF Left, Keys
    <3> QED
      BY <2>1, <3>1, FirstAndLast
  <2>3. PhasesLeft' = PhasesLeft
    BY <2>1 DEF PhasesLeft
  <2>4. LoopLeft = Len(Sorted) + 1 - next /\ LoopLeft' = Len(Sorted) + 1 - next'
    BY <2>1 DEF LoopLeft
  <2>5. LoopLeft' < LoopLeft
    BY <1>1, <2>1, <2>2, <2>4
  <2> QED
    BY <1>2, <2>1, <2>3, <2>5 DEF Less
<1> QED
  BY <1>3, <1>4, <1>5, <1>6, <1>7 DEF Step

(* A run ends: every step leaves fewer phases, fewer units, or less of the *)
(* loop it is in, for any projects and any units that fail.                *)
THEOREM RunsWindDown == Spec => [](WorkLeft \in Nat \X Nat \X Nat) /\ RunWindsDown
<1>1. IInv /\ IInv' /\ [Next]_vars => [Step => Less(WorkLeft', WorkLeft)]_vars
  BY StepWindsDown
<1> QED
  BY <1>1, WorkIsNumbers, Inductive, PTL DEF Spec, RunWindsDown
=============================================================================
