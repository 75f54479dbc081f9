--------------------------- MODULE PrintedTextProofs ---------------------------
(***************************************************************************)
(* The text of a print reads as the type it was printed for: PrintsTheType *)
(* of TypeView, for every set of types.                                    *)
(*                                                                         *)
(* Layers takes a type apart layer after layer.  With checked results each *)
(* layer has a smaller id than the one around it, so that this ends; that  *)
(* is where the registry's invariant enters.  While printers return, what  *)
(* they have written describes the layers taken off so far.                *)
(***************************************************************************)
EXTENDS TypeViewProofs

-----------------------------------------------------------------------------
(* LayersUpTo exists, and is what its definition says of it. *)

Count == Cardinality(Types)

(* What one more layer adds to what is known of all types. *)
OneMore(known) ==
  [u \in Types \cup {Void} |->
     IF ~Compound(u) THEN <<u>> ELSE known[Deps[u][1]] \o Around(Form[u])]

Bare == [u \in Types \cup {Void} |-> <<u>>]

UpTo(k, f) ==
  f = [n \in 0 .. k |-> IF n = 0 THEN Bare ELSE OneMore(f[n - 1])]

LEMMA CountIsNat == Count \in Nat
  BY TypesAssumption, FS_CardinalityType DEF Count

(* For every number of layers there is such a function: otherwise there    *)
(* would be a least number without, and one less would have one.           *)
LEMMA UpToExists == \A k \in Nat : \E f : UpTo(k, f)
<1> DEFINE S == {k \in Nat : ~ \E f : UpTo(k, f)}
<1> SUFFICES ASSUME S # {} PROVE FALSE
  OBVIOUS
<1>1. PICK k \in S : \A j \in S : k <= j
  BY FirstPosition
<1>2. k \in Nat /\ ~ \E f : UpTo(k, f)
  BY <1>1
<1>3. k # 0
  <2> SUFFICES ASSUME k = 0 PROVE FALSE
    OBVIOUS
  <2> DEFINE f == [n \in 0 .. 0 |-> Bare]
  <2>1. f = [n \in 0 .. 0 |-> IF n = 0 THEN Bare ELSE OneMore(f[n - 1])]
    <3>1. \A n \in 0 .. 0 : n = 0
      OBVIOUS
    <3> QED
      BY <3>1
  <2>2. UpTo(0, f)
    BY <2>1 DEF UpTo
  <2> HIDE DEF f
  <2> QED
    BY <1>2, <2>2
<1>4. k - 1 \in Nat /\ k - 1 \notin S
  BY <1>1, <1>2, <1>3
<1>5. PICK g : UpTo(k - 1, g)
  BY <1>4
<1> DEFINE f == [n \in 0 .. k |-> IF n < k THEN g[n] ELSE OneMore(g[k - 1])]
           h == [n \in 0 .. k |-> IF n = 0 THEN Bare ELSE OneMore(f[n - 1])]
<1>6. ASSUME NEW n \in 0 .. k PROVE f[n] = h[n]
  <2>1. CASE n = k
    <3>1. f[n] = OneMore(g[k - 1]) /\ f[n - 1] = g[k - 1]
      BY <1>2, <1>3, <2>1
    <3> QED
      BY <1>3, <2>1, <3>1
  <2>2. CASE n < k
    <3>1. n \in 0 .. k - 1 /\ f[n] = g[n]
      BY <1>2, <2>2
    <3>2. g[n] = IF n = 0 THEN Bare ELSE OneMore(g[n - 1])
      BY <1>5, <3>1 DEF UpTo
    <3>3. n # 0 => f[n - 1] = g[n - 1]
      BY <1>2, <2>2
    <3> QED
      BY <3>1, <3>2, <3>3
  <2> QED
    BY <1>2, <2>1, <2>2
<1>7. f = h
  BY <1>6
<1>8. UpTo(k, f)
  BY <1>7 DEF UpTo
<1> HIDE DEF f
<1> QED
  BY <1>2, <1>8

(* The two ways to write it are one. *)
LEMMA LayersUpToUnfolds == UpTo(Count, LayersUpTo)
<1> DEFINE Unfolds(f) ==
             f = [n \in 0 .. Cardinality(Types) |->
                    [u \in Types \cup {Void} |->
                       IF n = 0 \/ ~Compound(u) THEN <<u>>
                       ELSE f[n - 1][Deps[u][1]] \o Around(Form[u])]]
<1>1. PICK f : UpTo(Count, f)
  BY CountIsNat, UpToExists
<1>2. ASSUME NEW g, NEW n
      PROVE  [u \in Types \cup {Void} |->
                IF n = 0 \/ ~Compound(u) THEN <<u>>
                ELSE g[n - 1][Deps[u][1]] \o Around(Form[u])]
             = IF n = 0 THEN Bare ELSE OneMore(g[n - 1])
  BY DEF Bare, OneMore
<1>3. \A g : Unfolds(g) <=> UpTo(Count, g)
  BY <1>2 DEF UpTo, Count
<1>4. LayersUpTo = CHOOSE g : Unfolds(g)
  BY DEF LayersUpTo
<1> HIDE DEF Unfolds
<1>5. Unfolds(LayersUpTo)
  BY <1>1, <1>3, <1>4
<1> QED
  BY <1>3, <1>5

LEMMA LayerByLayer ==
  ASSUME NEW u \in Types \cup {Void}, NEW n \in 0 .. Count
  PROVE  LayersUpTo[n][u] = IF n = 0 \/ ~Compound(u) THEN <<u>>
                            ELSE LayersUpTo[n - 1][Deps[u][1]] \o Around(Form[u])
<1>1. LayersUpTo[n] = IF n = 0 THEN Bare ELSE OneMore(LayersUpTo[n - 1])
  BY LayersUpToUnfolds DEF UpTo
<1> QED
  BY <1>1 DEF Bare, OneMore

-----------------------------------------------------------------------------
(* The layers of a type. *)

Words == Types \cup {Void} \cup Tokens

LEMMA AroundIsTokens ==
  ASSUME NEW form \in CompoundForms
  PROVE  Around(form) \in Seq(Tokens)
<1>1. /\ <<"const">> \in Seq(Tokens) /\ <<"volatile">> \in Seq(Tokens)
      /\ <<"*">> \in Seq(Tokens) /\ <<"*", "const">> \in Seq(Tokens)
      /\ <<"&">> \in Seq(Tokens) /\ <<"&&">> \in Seq(Tokens)
  BY DEF Tokens
<1>2. CASE form = "const"
  BY <1>1, <1>2 DEF Around
<1>3. CASE form = "volatile"
  BY <1>1, <1>3 DEF Around
<1>4. CASE form = "pointer"
  BY <1>1, <1>4 DEF Around
<1>5. CASE form = "const pointer"
  BY <1>1, <1>5 DEF Around
<1>6. CASE form = "lvalue ref"
  BY <1>1, <1>6 DEF Around
<1>7. CASE form = "rvalue ref"
  BY <1>1, <1>7 DEF Around
<1> QED
  BY <1>2, <1>3, <1>4, <1>5, <1>6, <1>7 DEF CompoundForms

LEMMA TokensAreWords ==
  ASSUME NEW s \in Seq(Tokens)
  PROVE  s \in Seq(Words)
BY SeqMonotonic DEF Words

LEMMA BuiltUpon ==
  ASSUME NEW t \in Types, Compound(t)
  PROVE  Deps[t][1] \in Types \cup {Void} /\ Form[t] \in CompoundForms
<1>1. Deps[t] \in Seq(Types \cup {Void}) /\ Deps[t] # <<>>
  BY DepsAssumption, FormAssumption
<1>2. 1 \in 1 .. Len(Deps[t])
  BY <1>1, EmptySeq, LenProperties
<1> QED
  BY <1>1, <1>2, ElementOfSeq DEF Compound

LEMMA CompoundIsType ==
  ASSUME NEW t \in Types \cup {Void}, Compound(t)
  PROVE  t \in Types
BY DEF Compound

LEMMA LayersAreWords ==
  \A n \in 0 .. Count : \A u \in Types \cup {Void} : LayersUpTo[n][u] \in Seq(Words)
<1> DEFINE Bad(n) == n \in 0 .. Count /\ \E u \in Types \cup {Void} : LayersUpTo[n][u] \notin Seq(Words)
           S == {n \in Nat : Bad(n)}
<1> SUFFICES ASSUME S # {} PROVE FALSE
  BY CountIsNat
<1>1. PICK n \in S : \A j \in S : n <= j
  BY FirstPosition
<1>2. PICK u \in Types \cup {Void} : LayersUpTo[n][u] \notin Seq(Words)
  BY <1>1
<1>3. n \in Nat /\ n \in 0 .. Count
  BY <1>1
<1>4. n # 0 /\ Compound(u)
  <2>1. <<u>> \in Seq(Words)
    BY DEF Words
  <2> QED
    BY <1>2, <1>3, <2>1, LayerByLayer
<1>5. /\ LayersUpTo[n][u] = LayersUpTo[n - 1][Deps[u][1]] \o Around(Form[u])
      /\ Deps[u][1] \in Types \cup {Void}
      /\ Around(Form[u]) \in Seq(Words)
  <2>1. u \in Types /\ Deps[u][1] \in Types \cup {Void} /\ Form[u] \in CompoundForms
    BY <1>4, BuiltUpon, CompoundIsType
  <2>2. Around(Form[u]) \in Seq(Tokens)
    BY <2>1, AroundIsTokens
  <2>3. Around(Form[u]) \in Seq(Words)
    BY <2>2, TokensAreWords
  <2> QED
    BY <1>3, <1>4, <2>1, <2>3, LayerByLayer
<1>6. n - 1 \in Nat /\ n - 1 \in 0 .. Count /\ n - 1 \notin S
  BY <1>1, <1>3, <1>4, CountIsNat
<1>7. LayersUpTo[n - 1][Deps[u][1]] \in Seq(Words)
  BY <1>5, <1>6
<1> HIDE DEF S
<1> QED
  BY <1>2, <1>5, <1>7, ConcatProperties

(* With checked results, what a registered type is built upon is void or   *)
(* has a smaller id.                                                       *)
LEMMA UponSmaller ==
  ASSUME VInv, build = "debug", NEW t \in Types, cached[t] # 0, Compound(t)
  PROVE  \/ Deps[t][1] = Void
         \/ /\ Deps[t][1] \in Types
            /\ cached[Deps[t][1]] \in 1 .. cached[t] - 1
<1>1. /\ Deps[t][1] \in Types \cup {Void}
      /\ ResolvesTo(cached, inners[t][1], Deps[t][1])
      /\ inners[t][1] < cached[t]
      /\ inners[t][1] \in TypeIDs
  BY FirstInner DEF VInv
<1>2. TypeIDs \subseteq Nat
  BY DEF TypeIDs
<1>3. cached[t] \in Nat
  BY OwnID DEF VInv
<1> SUFFICES ASSUME Deps[t][1] # Void PROVE cached[Deps[t][1]] \in 1 .. cached[t] - 1
  BY <1>1
<1>4. cached[Deps[t][1]] = inners[t][1] /\ inners[t][1] # 0
  <2> DEFINE id == inners[t][1]
             w  == Deps[t][1]
  <2>1. ResolvesTo(cached, id, w) /\ w # Void
    BY <1>1
  <2> HIDE DEF id, w
  <2>2. id # 0 /\ id = cached[w]
    BY <2>1 DEF ResolvesTo
  <2> QED
    BY <2>2 DEF id, w
<1>5. cached[Deps[t][1]] \in Nat /\ cached[Deps[t][1]] # 0
  BY <1>1, <1>2, <1>4
<1> QED
  BY <1>1, <1>3, <1>4, <1>5

LEMMA OwnIdSmall ==
  ASSUME VInv, NEW t \in Types, cached[t] # 0
  PROVE  cached[t] \in 1 .. Count
<1>1. cached[t] \in 1 .. Len(types)
  BY OwnID DEF VInv
<1> QED
  BY <1>1, EntriesFit, CountIsNat DEF VInv, Count

(* A type has no more layers than its id tells. *)
LEMMA DeepEnough ==
  ASSUME VInv, build = "debug"
  PROVE  \A u \in Types : cached[u] # 0 =>
           \A n \in cached[u] .. Count : LayersUpTo[n][u] = LayersUpTo[cached[u]][u]
<1> DEFINE Bad(k) == \E u \in Types : /\ cached[u] = k /\ k # 0
                                      /\ \E n \in k .. Count : LayersUpTo[n][u] # LayersUpTo[k][u]
           S == {k \in Nat : Bad(k)}
<1> SUFFICES ASSUME S # {} PROVE FALSE
  <2>1. \A u \in Types : cached[u] # 0 => cached[u] \in Nat
    BY OwnIdSmall
  <2> QED
    BY <2>1
<1>1. PICK k \in S : \A j \in S : k <= j
  BY FirstPosition
<1>2. PICK u \in Types : /\ cached[u] = k /\ k # 0
                         /\ \E n \in k .. Count : LayersUpTo[n][u] # LayersUpTo[k][u]
  BY <1>1
<1>3. PICK n \in k .. Count : LayersUpTo[n][u] # LayersUpTo[k][u]
  BY <1>2
<1>4. /\ k \in 1 .. Count /\ n \in 1 .. Count /\ n >= k
      /\ k \in 0 .. Count /\ n \in 0 .. Count
      /\ k - 1 \in 0 .. Count /\ n - 1 \in 0 .. Count /\ n # 0
  BY <1>2, <1>3, OwnIdSmall, CountIsNat
<1> HIDE DEF S
<1>5. Compound(u)
  BY <1>3, <1>4, LayerByLayer
<1>6. /\ LayersUpTo[n][u] = LayersUpTo[n - 1][Deps[u][1]] \o Around(Form[u])
      /\ LayersUpTo[k][u] = LayersUpTo[k - 1][Deps[u][1]] \o Around(Form[u])
  BY <1>2, <1>4, <1>5, LayerByLayer
<1>7. CASE Deps[u][1] = Void
  <2>1. ~Compound(Void)
    BY DEF Compound
  <2>2. LayersUpTo[n - 1][Void] = <<Void>> /\ LayersUpTo[k - 1][Void] = <<Void>>
    BY <1>4, <2>1, LayerByLayer
  <2> QED
    BY <1>3, <1>6, <1>7, <2>2
<1>8. CASE Deps[u][1] \in Types /\ cached[Deps[u][1]] \in 1 .. cached[u] - 1
  <2> DEFINE w == Deps[u][1]
  <2>1. cached[w] \in Nat /\ cached[w] # 0 /\ cached[w] < k
    BY <1>2, <1>4, <1>8
  <2>2. cached[w] \notin S
    BY <1>1, <1>4, <2>1
  <2>3. \A m \in cached[w] .. Count : LayersUpTo[m][w] = LayersUpTo[cached[w]][w]
    BY <1>8, <2>1, <2>2 DEF S
  <2>4. n - 1 \in cached[w] .. Count /\ k - 1 \in cached[w] .. Count
    BY <1>4, <2>1
  <2>5. LayersUpTo[n - 1][w] = LayersUpTo[k - 1][w]
    BY <2>3, <2>4
  <2> QED
    BY <1>3, <1>6, <2>5
<1> QED
  BY <1>2, <1>5, <1>7, <1>8, UponSmaller

LEMMA NoLayers ==
  ASSUME NEW u \in Types \cup {Void}, ~Compound(u)
  PROVE  Layers(u) = <<u>>
<1>1. Count \in 0 .. Count
  BY CountIsNat
<1> QED
  BY <1>1, LayerByLayer DEF Layers, Count

(* With checked results, the layers of a registered type are those of what *)
(* it is built upon and its own.                                           *)
LEMMA OneLayer ==
  ASSUME VInv, build = "debug", NEW t \in Types, cached[t] # 0, Compound(t)
  PROVE  Layers(t) = Layers(Deps[t][1]) \o Around(Form[t])
<1> DEFINE w == Deps[t][1]
<1>1. /\ Count \in 0 .. Count /\ Count # 0 /\ Count - 1 \in 0 .. Count
      /\ cached[t] \in 1 .. Count /\ Count \in Nat
  BY OwnIdSmall, CountIsNat
<1>2. LayersUpTo[Count][t] = LayersUpTo[Count - 1][w] \o Around(Form[t])
  BY <1>1, LayerByLayer
<1>3. LayersUpTo[Count - 1][w] = LayersUpTo[Count][w]
  <2>1. CASE w = Void
    <3>1. ~Compound(Void)
      BY DEF Compound
    <3> QED
      BY <1>1, <2>1, <3>1, LayerByLayer
  <2>2. CASE w \in Types /\ cached[w] \in 1 .. cached[t] - 1
    <3>1. /\ cached[w] # 0
          /\ Count - 1 \in cached[w] .. Count /\ Count \in cached[w] .. Count
      BY <1>1, <2>2
    <3> QED
      BY <2>2, <3>1, DeepEnough
  <2> QED
    BY <2>1, <2>2, UponSmaller
<1> QED
  BY <1>2, <1>3 DEF Layers, Count

-----------------------------------------------------------------------------
(* What a text describes. *)

(* The text names nm, with pre before the name and post behind it; the     *)
(* layers are nm, then those.                                              *)
ReadsAs(text, layers, nm, pre, post) ==
  /\ nm \in Types \cup {Void} /\ pre \in Seq(Tokens) /\ post \in Seq(Tokens)
  /\ text   = (pre \o <<nm>>) \o post
  /\ layers = (<<nm>> \o pre) \o post

Describes(text, layers) == \E nm, pre, post : ReadsAs(text, layers, nm, pre, post)

(* Where the parts of a text are. *)
LEMMA TextParts ==
  ASSUME NEW nm \in Words, NEW pre \in Seq(Tokens), NEW post \in Seq(Tokens),
         NEW text, text = (pre \o <<nm>>) \o post
  PROVE  /\ text \in Seq(Words)
         /\ Len(pre) \in Nat /\ Len(post) \in Nat
         /\ Len(text) = Len(pre) + 1 + Len(post)
         /\ \A i \in 1 .. Len(pre) : text[i] = pre[i] /\ pre[i] \in Tokens
         /\ text[Len(pre) + 1] = nm
         /\ \A i \in 1 .. Len(post) : text[Len(pre) + 1 + i] = post[i] /\ post[i] \in Tokens
<1> DEFINE one == <<nm>>
           p   == pre \o one
<1>1. one \in Seq(Words) /\ Len(one) = 1 /\ one[1] = nm
  OBVIOUS
<1>2. pre \in Seq(Words) /\ post \in Seq(Words)
  BY TokensAreWords
<1>3. /\ Len(pre) \in Nat /\ Len(post) \in Nat
      /\ \A i \in 1 .. Len(pre) : pre[i] \in Tokens
      /\ \A i \in 1 .. Len(post) : post[i] \in Tokens
  BY LenProperties, ElementOfSeq
<1> HIDE DEF one
<1>4. /\ p \in Seq(Words) /\ Len(p) = Len(pre) + 1
      /\ \A i \in 1 .. Len(pre) + 1 : p[i] = IF i <= Len(pre) THEN pre[i] ELSE one[i - Len(pre)]
  <2>1. /\ pre \o one \in Seq(Words) /\ Len(pre \o one) = Len(pre) + Len(one)
        /\ \A i \in 1 .. Len(pre) + Len(one) :
             (pre \o one)[i] = IF i <= Len(pre) THEN pre[i] ELSE one[i - Len(pre)]
    BY <1>1, <1>2, ConcatProperties
  <2> QED
    BY <1>1, <2>1
<1> HIDE DEF p
<1>5. text = p \o post
  BY DEF p, one
<1>6. /\ text \in Seq(Words) /\ Len(text) = Len(p) + Len(post)
      /\ \A i \in 1 .. Len(p) + Len(post) : text[i] = IF i <= Len(p) THEN p[i] ELSE post[i - Len(p)]
  BY <1>2, <1>4, <1>5, ConcatProperties
<1>7. ASSUME NEW i \in 1 .. Len(pre) PROVE text[i] = pre[i]
  BY <1>3, <1>4, <1>6
<1>8. text[Len(pre) + 1] = nm
  <2> DEFINE m == Len(pre) + 1
  <2>1. m \in 1 .. Len(pre) + 1 /\ ~(m <= Len(pre)) /\ m - Len(pre) = 1
    BY <1>3
  <2>2. m \in 1 .. Len(p) + Len(post) /\ m <= Len(p)
    BY <1>3, <1>4
  <2> HIDE DEF m
  <2>3. p[m] = one[1]
    BY <1>4, <2>1
  <2>4. text[m] = p[m]
    BY <1>6, <2>2
  <2> QED
    BY <1>1, <2>3, <2>4 DEF m
<1>9. ASSUME NEW i \in 1 .. Len(post) PROVE text[Len(pre) + 1 + i] = post[i]
  BY <1>3, <1>4, <1>6
<1> QED
  BY <1>3, <1>4, <1>6, <1>7, <1>8, <1>9

(* Such a text reads as the layers. *)
LEMMA DescriptionReads ==
  ASSUME NEW text, NEW layers, Describes(text, layers)
  PROVE  Reading(text) = layers
<1>1. PICK nm, pre, post : ReadsAs(text, layers, nm, pre, post)
  BY DEF Describes
<1>2. /\ nm \in Types \cup {Void} /\ pre \in Seq(Tokens) /\ post \in Seq(Tokens)
      /\ text   = (pre \o <<nm>>) \o post
      /\ layers = (<<nm>> \o pre) \o post
  BY <1>1 DEF ReadsAs
<1> DEFINE k == Len(pre) + 1
<1>3. /\ text \in Seq(Words)
      /\ Len(pre) \in Nat /\ Len(post) \in Nat
      /\ Len(text) = Len(pre) + 1 + Len(post)
      /\ \A i \in 1 .. Len(pre) : text[i] = pre[i] /\ pre[i] \in Tokens
      /\ text[Len(pre) + 1] = nm
      /\ \A i \in 1 .. Len(post) : text[Len(pre) + 1 + i] = post[i] /\ post[i] \in Tokens
  BY <1>2, TextParts DEF Words
<1>4. k \in DOMAIN text /\ text[k] \in Types \cup {Void}
  <2>1. DOMAIN text = 1 .. Len(text)
    BY <1>3, LenProperties
  <2> QED
    BY <1>2, <1>3, <2>1
<1>5. ASSUME NEW i \in DOMAIN text, text[i] \in Types \cup {Void} PROVE i = k
  <2>1. i \in 1 .. Len(pre) + 1 + Len(post)
    BY <1>3, LenProperties
  <2>2. i \notin 1 .. Len(pre)
    BY <1>3, <1>5, NoTypeAssumption
  <2>3. ~(i > k)
    <3> SUFFICES ASSUME i > k PROVE FALSE
      OBVIOUS
    <3>1. i - k \in 1 .. Len(post) /\ k + (i - k) = i
      BY <1>3, <2>1
    <3>2. text[i] \in Tokens
      BY <1>3, <3>1
    <3> QED
      BY <1>5, <3>2, NoTypeAssumption
  <2> QED
    BY <1>3, <2>1, <2>2, <2>3
<1>6. (CHOOSE i \in DOMAIN text : text[i] \in Types \cup {Void}) = k
  BY <1>4, <1>5
<1>7. SubSeq(text, 1, k - 1) = pre
  <2> DEFINE sub == SubSeq(text, 1, k - 1)
  <2>1. /\ sub \in Seq(Words)
        /\ Len(sub) = Len(pre)
        /\ \A i \in 1 .. Len(pre) : sub[i] = text[i]
    <3> DEFINE n == k - 1
    <3>1. n = Len(pre) /\ n \in Nat
      BY <1>3
    <3>2. \A i \in 1 .. n : text[i] \in Words
      BY <1>3, <3>1 DEF Words
    <3> HIDE DEF n, k
    <3>3. /\ SubSeq(text, 1, n) \in Seq(Words)
          /\ Len(SubSeq(text, 1, n)) = IF 1 <= n THEN n - 1 + 1 ELSE 0
          /\ \A i \in 1 .. n - 1 + 1 : SubSeq(text, 1, n)[i] = text[1 + i - 1]
      BY <3>1, <3>2, SubSeqProperties
    <3>4. Len(SubSeq(text, 1, n)) = n
      BY <3>1, <3>3
    <3>5. ASSUME NEW i \in 1 .. n PROVE SubSeq(text, 1, n)[i] = text[i]
      BY <3>1, <3>3
    <3> QED
      BY <3>1, <3>3, <3>4, <3>5 DEF n
  <2>2. pre \in Seq(Words)
    BY <1>2, TokensAreWords
  <2> HIDE DEF sub
  <2>3. sub = pre
    BY <1>3, <2>1, <2>2, SeqEqual
  <2> QED
    BY <2>3 DEF sub
<1>8. SubSeq(text, k + 1, Len(text)) = post
  <2> DEFINE m == k + 1
             n == Len(text)
             sub == SubSeq(text, m, n)
  <2>1. m \in Nat /\ n \in Nat /\ m = Len(pre) + 2 /\ n = Len(pre) + 1 + Len(post)
    BY <1>3
  <2>2. \A i \in m .. n : text[i] \in Words
    <3>1. \A i \in 1 .. n : text[i] \in Words
      BY <1>3, ElementOfSeq
    <3> QED
      BY <1>3, <2>1, <3>1
  <2>3. /\ SubSeq(text, m, n) \in Seq(Words)
        /\ Len(SubSeq(text, m, n)) = IF m <= n THEN n - m + 1 ELSE 0
        /\ \A i \in 1 .. n - m + 1 : SubSeq(text, m, n)[i] = text[m + i - 1]
    <3> HIDE DEF m, n
    <3> QED
      BY <2>1, <2>2, SubSeqProperties
  <2>4. sub \in Seq(Words) /\ Len(sub) = Len(post)
    BY <1>3, <2>1, <2>3
  <2>5. ASSUME NEW i \in 1 .. Len(post) PROVE sub[i] = post[i]
    <3>1. i \in 1 .. n - m + 1 /\ m + i - 1 = Len(pre) + 1 + i
      BY <1>3, <2>1
    <3>2. sub[i] = text[Len(pre) + 1 + i]
      BY <2>3, <3>1
    <3> QED
      BY <1>3, <3>2
  <2>6. post \in Seq(Words)
    BY <1>2, TokensAreWords
  <2> HIDE DEF sub
  <2>7. sub = post
    BY <2>4, <2>5, <2>6, SeqEqual
  <2> QED
    BY <2>7 DEF sub
<1> HIDE DEF k
<1>9. Reading(text) = (<<text[k]>> \o SubSeq(text, 1, k - 1)) \o SubSeq(text, k + 1, Len(text))
  BY <1>6 DEF Reading
<1> QED
  BY <1>2, <1>3, <1>7, <1>8, <1>9 DEF k

(* What is written behind a name is put around what the text describes.    *)
LEMMA DescribeMore ==
  ASSUME NEW text, NEW layers, Describes(text, layers), NEW more \in Seq(Tokens)
  PROVE  Describes(text \o more, layers \o more)
<1>1. PICK nm, pre, post : ReadsAs(text, layers, nm, pre, post)
  BY DEF Describes
<1>2. /\ nm \in Types \cup {Void} /\ pre \in Seq(Tokens) /\ post \in Seq(Tokens)
      /\ text   = (pre \o <<nm>>) \o post
      /\ layers = (<<nm>> \o pre) \o post
  BY <1>1 DEF ReadsAs
<1> DEFINE one == <<nm>>
           p == pre \o one
           q == one \o pre
<1>3. /\ one \in Seq(Words) /\ pre \in Seq(Words) /\ post \in Seq(Words) /\ more \in Seq(Words)
      /\ post \o more \in Seq(Tokens)
  <2>1. post \o more \in Seq(Tokens)
    BY <1>2, ConcatProperties
  <2> QED
    BY <1>2, <2>1, TokensAreWords DEF Words
<1> HIDE DEF one
<1>4. p \in Seq(Words) /\ q \in Seq(Words)
  BY <1>3, ConcatProperties
<1>5. text = p \o post /\ layers = q \o post
  BY <1>2 DEF one
<1> HIDE DEF p, q
<1>6. text \o more = p \o (post \o more) /\ layers \o more = q \o (post \o more)
  <2>1. (p \o post) \o more = p \o (post \o more)
    BY <1>3, <1>4, ConcatAssociative
  <2>2. (q \o post) \o more = q \o (post \o more)
    BY <1>3, <1>4, ConcatAssociative
  <2> QED
    BY <1>5, <2>1, <2>2
<1>7. ReadsAs(text \o more, layers \o more, nm, pre, post \o more)
  BY <1>2, <1>3, <1>6 DEF ReadsAs, p, q, one
<1> QED
  BY <1>7 DEF Describes

-----------------------------------------------------------------------------
(* The invariant: in a debug build, and unless the text is that of a       *)
(* volatile pointer, what is written describes the layers taken off.       *)

(* The layers of what is being printed are the first ones of the view.     *)
Inside == \A i \in 1 .. Len(walk) :
            \E rest \in Seq(Tokens) : Layers(view) = Layers(walk[i].type) \o rest

(* What is written when the innermost printer begins, or goes on. *)
Written ==
  /\ Printer.pc = "enter" =>
       out = IF Len(walk) = 1 \/ Compound(Printer.type) THEN <<>>
             ELSE Before(walk[Len(walk) - 1].type)
  /\ Printer.pc = "leave" =>
       Describes(out, Layers(Deps[Printer.type][1]) \o Before(Printer.type))

TextInv ==
  build = "debug" =>
    /\ asked # NoType => outcome # "printed"
    /\ PrintsTheType
    /\ walk # <<>> => Inside
    /\ walk # <<>> /\ status = "running" /\ ~VolatilePointer(view) => Written

LEMMA BeforeAfter ==
  ASSUME NEW t \in Types, Compound(t)
  PROVE  /\ Before(t) \in Seq(Tokens) /\ After(t) \in Seq(Tokens)
         /\ Around(Form[t]) = Before(t) \o After(t)
         /\ Form[t] \notin {"const", "volatile"} => Before(t) = <<>>
<1>1. Form[t] \in CompoundForms
  BY BuiltUpon
<1>2. /\ <<"const">> \in Seq(Tokens) /\ <<"volatile">> \in Seq(Tokens)
      /\ <<"*">> \in Seq(Tokens) /\ <<"*", "const">> \in Seq(Tokens)
      /\ <<"&">> \in Seq(Tokens) /\ <<"&&">> \in Seq(Tokens)
      /\ <<>> \in Seq(Tokens)
  BY DEF Tokens
<1>3. \A s \in Seq(Tokens) : s \o <<>> = s /\ <<>> \o s = s
  BY ConcatEmptySeq
<1>4. CASE Form[t] = "const"
  <2>1. Before(t) = <<"const">> /\ After(t) = <<>> /\ Around(Form[t]) = <<"const">>
    BY <1>4 DEF Before, After, Around
  <2> QED
    BY <1>2, <1>3, <1>4, <2>1
<1>5. CASE Form[t] = "volatile"
  <2>1. Before(t) = <<"volatile">> /\ After(t) = <<>> /\ Around(Form[t]) = <<"volatile">>
    BY <1>5 DEF Before, After, Around
  <2> QED
    BY <1>2, <1>3, <1>5, <2>1
<1>6. CASE Form[t] = "pointer"
  <2>1. Before(t) = <<>> /\ After(t) = <<"*">> /\ Around(Form[t]) = <<"*">>
    BY <1>6 DEF Before, After, Around
  <2> QED
    BY <1>2, <1>3, <2>1
<1>7. CASE Form[t] = "const pointer"
  <2>1. Before(t) = <<>> /\ After(t) = <<"*", "const">> /\ Around(Form[t]) = <<"*", "const">>
    BY <1>7 DEF Before, After, Around
  <2> QED
    BY <1>2, <1>3, <2>1
<1>8. CASE Form[t] = "lvalue ref"
  <2>1. Before(t) = <<>> /\ After(t) = <<"&">> /\ Around(Form[t]) = <<"&">>
    BY <1>8 DEF Before, After, Around
  <2> QED
    BY <1>2, <1>3, <2>1
<1>9. CASE Form[t] = "rvalue ref"
  <2>1. Before(t) = <<>> /\ After(t) = <<"&&">> /\ Around(Form[t]) = <<"&&">>
    BY <1>9 DEF Before, After, Around
  <2> QED
    BY <1>2, <1>3, <2>1
<1> QED
  BY <1>1, <1>4, <1>5, <1>6, <1>7, <1>8, <1>9 DEF CompoundForms

LEMMA LayersOfAll ==
  ASSUME NEW t \in Types \cup {Void}
  PROVE  Layers(t) \in Seq(Words)
<1>1. Count \in 0 .. Count
  BY CountIsNat
<1> QED
  BY <1>1, LayersAreWords DEF Layers, Count

(* A volatile that is put around a pointer shows in the layers of          *)
(* everything that is built upon it.                                       *)
LEMMA VolatileShows ==
  ASSUME NEW t, NEW base \in Seq(Words), NEW rest \in Seq(Words),
         Layers(t) = ((base \o <<"*">>) \o <<"volatile">>) \o rest
  PROVE  VolatilePointer(t)
<1> DEFINE star == <<"*">>
           vol  == <<"volatile">>
           a    == base \o star
           b    == a \o vol
           n    == Len(base)
<1>1. /\ star \in Seq(Words) /\ Len(star) = 1 /\ star[1] = "*"
      /\ vol \in Seq(Words) /\ Len(vol) = 1 /\ vol[1] = "volatile"
      /\ n \in Nat /\ Len(rest) \in Nat
  BY LenProperties DEF Words, Tokens
<1> HIDE DEF star, vol
<1>2. /\ a \in Seq(Words) /\ Len(a) = n + 1 /\ a[n + 1] = "*"
  <2>1. /\ base \o star \in Seq(Words) /\ Len(base \o star) = Len(base) + Len(star)
        /\ \A i \in 1 .. Len(base) + Len(star) :
             (base \o star)[i] = IF i <= Len(base) THEN base[i] ELSE star[i - Len(base)]
    BY <1>1, ConcatProperties
  <2>2. n + 1 \in 1 .. Len(base) + Len(star) /\ ~(n + 1 <= n) /\ n + 1 - n = 1
    BY <1>1
  <2> QED
    BY <1>1, <2>1, <2>2
<1> HIDE DEF a
<1>3. /\ b \in Seq(Words) /\ Len(b) = n + 2 /\ b[n + 1] = "*" /\ b[n + 2] = "volatile"
  <2>1. /\ a \o vol \in Seq(Words) /\ Len(a \o vol) = Len(a) + Len(vol)
        /\ \A i \in 1 .. Len(a) + Len(vol) :
             (a \o vol)[i] = IF i <= Len(a) THEN a[i] ELSE vol[i - Len(a)]
    BY <1>1, <1>2, ConcatProperties
  <2>2. /\ n + 1 \in 1 .. Len(a) + Len(vol) /\ n + 1 <= Len(a)
        /\ n + 2 \in 1 .. Len(a) + Len(vol) /\ ~(n + 2 <= Len(a)) /\ n + 2 - Len(a) = 1
    BY <1>1, <1>2
  <2> QED
    BY <1>1, <1>2, <2>1, <2>2
<1> HIDE DEF b, n
<1>4. Layers(t) = b \o rest
  BY DEF b, a, star, vol
<1>5. /\ b \o rest \in Seq(Words) /\ Len(b \o rest) = Len(b) + Len(rest)
      /\ \A i \in 1 .. Len(b) + Len(rest) :
           (b \o rest)[i] = IF i <= Len(b) THEN b[i] ELSE rest[i - Len(b)]
  BY <1>3, ConcatProperties
<1>6. /\ n + 1 \in 1 .. Len(b) + Len(rest) /\ n + 1 <= Len(b)
      /\ n + 2 \in 1 .. Len(b) + Len(rest) /\ n + 2 <= Len(b)
      /\ n + 1 < n + 2
  BY <1>1, <1>3
<1>7. Layers(t)[n + 1] = "*" /\ Layers(t)[n + 2] = "volatile"
  BY <1>3, <1>4, <1>5, <1>6
<1>8. DOMAIN Layers(t) = 1 .. Len(b) + Len(rest)
  BY <1>4, <1>5, LenProperties
<1> QED
  BY <1>6, <1>7, <1>8 DEF VolatilePointer

(* So, otherwise, what stands before a name stands right before it.        *)
LEMMA NothingBetween ==
  ASSUME VInv, build = "debug", ~VolatilePointer(view),
         NEW c \in Types, Compound(c), cached[c] # 0,
         Deps[c][1] \in Types, Compound(Deps[c][1]), cached[Deps[c][1]] # 0,
         NEW rest \in Seq(Tokens), Layers(view) = Layers(c) \o rest
  PROVE  Before(c) = <<>>
<1> DEFINE u == Deps[c][1]
           w == Deps[u][1]
<1> SUFFICES ASSUME Form[c] \in {"const", "volatile"} PROVE FALSE
  BY BeforeAfter
<1>1. Form[c] = "volatile" /\ Form[u] = "pointer"
  BY QualifierAssumption
<1>2. Layers(c) = Layers(u) \o <<"volatile">> /\ Layers(u) = Layers(w) \o <<"*">>
  <2>1. Layers(c) = Layers(u) \o Around(Form[c])
    BY OneLayer
  <2>2. Layers(u) = Layers(w) \o Around(Form[u])
    BY OneLayer
  <2>3. Around(Form[c]) = <<"volatile">> /\ Around(Form[u]) = <<"*">>
    BY <1>1 DEF Around
  <2> QED
    BY <2>1, <2>2, <2>3
<1>3. w \in Types \cup {Void}
  BY BuiltUpon
<1>4. Layers(w) \in Seq(Words) /\ rest \in Seq(Words)
  BY <1>3, LayersOfAll, TokensAreWords
<1>5. Layers(view) = ((Layers(w) \o <<"*">>) \o <<"volatile">>) \o rest
  BY <1>2
<1> QED
  BY <1>4, <1>5, VolatileShows

-----------------------------------------------------------------------------
(* The invariant holds of the first state and is kept by every action. *)

LEMMA TextInvInit == ViewInit => TextInv
BY DEF ViewInit, TextInv, PrintsTheType

(* Without a call of Print in progress and without a text. *)
LEMMA NoText ==
  ASSUME walk' = <<>>, outcome' = "none"
  PROVE  TextInv'
BY DEF TextInv, PrintsTheType

(* While the program asks for a type there is no text. *)
LEMMA AskingKeepsText ==
  ASSUME VInv, TextInv, Registering \/ FinishReflect
  PROVE  TextInv'
<1>1. asked # NoType /\ walk = <<>> /\ walk' = <<>> /\ build' = build
  BY DEF VInv, Asking, Registering, FinishReflect, viewVars, Step, RegisterType, ReflectInner,
         FinishCreate, CreateThrows, Emplace, EmplaceThrows
<1>2. build = "debug" => outcome' = outcome
  BY DEF Registering, FinishReflect, viewVars, ValueOfFailure
<1>3. build = "debug" => outcome # "printed"
  BY <1>1 DEF TextInv
<1> QED
  BY <1>1, <1>2, <1>3 DEF TextInv, PrintsTheType

LEMMA ViewOfPrint ==
  ASSUME VInv, walk # <<>>
  PROVE  view \in Types \cup {Void} /\ asked = NoType
<1>1. /\ Len(walk) \in Nat \ {0} /\ walk \in Seq(Calls) /\ walk[1].type = view
  BY EmptySeq DEF VInv, ViewTypes, Walking
<1>2. walk[1] \in Calls
  BY <1>1, ElementOfSeq
<1> QED
  BY <1>1, <1>2 DEF Calls, VInv, Asking

LEMMA PrintViewKeepsText ==
  ASSUME VInv, PrintView
  PROVE  TextInv'
<1>1. /\ walk' = <<Enter(view)>> /\ out' = <<>> /\ outcome' = "none"
      /\ UNCHANGED <<asked, view>> /\ view \in Types \cup {Void}
  BY DEF PrintView, Forget, VInv, ViewTypes
<1>2. Enter(view).type = view /\ Enter(view).pc = "enter"
  BY DEF Enter
<1> HIDE DEF Enter
<1>3. Len(walk') = 1 /\ walk'[1] = Enter(view)
  BY <1>1
<1>4. Inside'
  <2>1. <<>> \in Seq(Tokens) /\ Layers(view) = Layers(view) \o <<>>
    BY <1>1, LayersOfAll, ConcatEmptySeq, EmptySeq
  <2>2. Layers(view') = Layers(walk'[1].type) \o <<>>
    BY <1>1, <1>2, <1>3, <2>1
  <2>3. ASSUME NEW i \in 1 .. Len(walk')
        PROVE  \E rest \in Seq(Tokens) : Layers(view') = Layers(walk'[i].type) \o rest
    <3>1. i = 1
      BY <1>3
    <3> QED
      BY <2>1, <2>2, <3>1
  <2> QED
    BY <2>3 DEF Inside
<1>5. Written'
  BY <1>1, <1>2, <1>3 DEF Written, Printer
<1> QED
  BY <1>1, <1>4, <1>5 DEF TextInv, PrintsTheType

(* A Print returns: what it has written describes its type, or, of a type  *)
(* that is not compound, its caller's qualifier and it.                    *)
LEMMA ReturnKeepsText ==
  ASSUME VInv, Waiting, TextInv, Printing, PrintReturn, UNCHANGED <<build, asked, view>>,
         build = "debug" /\ ~VolatilePointer(view) =>
           IF Len(walk) = 1 THEN Describes(out', Layers(view))
           ELSE LET c == walk[Len(walk) - 1].type IN
                Describes(out', Layers(Deps[c][1]) \o Before(c))
  PROVE  TextInv'
<1> SUFFICES ASSUME build = "debug" PROVE TextInv'
  BY DEF TextInv
<1> DEFINE n == Len(walk)
<1>1. /\ walk # <<>> /\ walk \in Seq(Calls) /\ status = "running" /\ outcome = "none"
      /\ walk' = SubSeq(walk, 1, Len(walk) - 1)
      /\ outcome' = IF n = 1 THEN "printed" ELSE outcome
      /\ Inside
  BY DEF VInv, ViewTypes, Printing, PrintReturn, TextInv
<1>2. /\ n \in Nat \ {0} /\ Len(walk') = n - 1
      /\ \A i \in 1 .. n - 1 : walk'[i] = walk[i]
      /\ n = 1 <=> walk' = <<>>
  BY <1>1, Remaining
<1>3. asked' = NoType
  BY <1>1, ViewOfPrint
<1>4. CASE n = 1
  <2>1. ~VolatilePointer(view) => Reading(out') = Layers(view)
    BY <1>4, DescriptionReads
  <2>2. PrintsTheType'
    <3>1. VolatilePointer(view)' = VolatilePointer(view) /\ Layers(view)' = Layers(view)
      OBVIOUS
    <3> QED
      BY <2>1, <3>1 DEF PrintsTheType, Reading
  <2> QED
    BY <1>2, <1>3, <1>4, <2>2 DEF TextInv
<1>5. CASE n # 1
  <2> DEFINE m == n - 1
  <2>1. m \in Nat \ {0} /\ m \in 1 .. n - 1 /\ Len(walk') = m /\ m \in 1 .. n
    BY <1>2, <1>5
  <2>2. walk'[m] = walk[m] /\ walk[m].pc = "leave"
    BY <1>2, <2>1 DEF Waiting
  <2>3. Inside'
    <3>1. \A i \in 1 .. m : i \in 1 .. n - 1 /\ i \in 1 .. n
      BY <1>2
    <3>2. ASSUME NEW i \in 1 .. m
          PROVE  \E rest \in Seq(Tokens) : Layers(view') = Layers(walk'[i].type) \o rest
      BY <1>1, <1>2, <3>1 DEF Inside
    <3> QED
      BY <2>1, <3>2 DEF Inside
  <2>4. ~VolatilePointer(view) => Written'
    <3>1. Printer' = walk[m]
      BY <2>1, <2>2 DEF Printer
    <3>2. ~VolatilePointer(view) =>
             Describes(out', Layers(Deps[walk[m].type][1]) \o Before(walk[m].type))
      BY <1>5
    <3> HIDE DEF m
    <3>3. ~VolatilePointer(view) =>
             Describes(out', Layers(Deps[walk[m].type][1]) \o Before(walk[m].type))
      BY <3>2 DEF m
    <3>4. Printer'.pc = "leave" /\ "leave" # "enter"
      BY <2>2, <3>1
    <3> QED
      BY <3>1, <3>3, <3>4 DEF Written
  <2>5. PrintsTheType'
    BY <1>1, <1>5 DEF PrintsTheType
  <2>6. VolatilePointer(view)' = VolatilePointer(view)
    OBVIOUS
  <2> QED
    BY <1>3, <2>3, <2>4, <2>5, <2>6 DEF TextInv
<1> QED
  BY <1>4, <1>5

(* The layers of a registered type that is called from a compound one are  *)
(* right below its own.                                                    *)
LEMMA CallerOf ==
  ASSUME VInv, TextInv, build = "debug", walk # <<>>, Len(walk) # 1
  PROVE  LET c == walk[Len(walk) - 1].type IN
         /\ Len(walk) - 1 \in 1 .. Len(walk) - 1 /\ Len(walk) - 1 \in 1 .. Len(walk)
         /\ c \in Types /\ Compound(c) /\ cached[c] # 0
         /\ Deps[c][1] = Printer.type
<1> DEFINE m == Len(walk) - 1
<1>1. walk \in Seq(Calls) /\ Len(walk) \in Nat \ {0} /\ Walking /\ Descending
  BY EmptySeq DEF VInv, ViewTypes
<1>2. m \in 1 .. Len(walk) - 1 /\ m \in 1 .. Len(walk) /\ m + 1 = Len(walk)
  <2>1. \A n \in Nat \ {0} : n # 1 =>
          n - 1 \in 1 .. n - 1 /\ n - 1 \in 1 .. n /\ n - 1 + 1 = n
    OBVIOUS
  <2> QED
    BY <1>1, <2>1
<1>3. walk[m] \in Calls
  BY <1>1, <1>2, ElementOfSeq
<1>4. Compound(walk[m].type) /\ Deps[walk[m].type][1] = walk[m + 1].type
  BY <1>1, <1>2 DEF Walking, Descending
<1>5. walk[m].type \in Types
  BY <1>3, <1>4, CompoundIsType DEF Calls
<1>6. cached[walk[m].type] # 0
  BY <1>1, <1>2, <1>5 DEF Walking
<1> QED
  BY <1>2, <1>4, <1>5, <1>6 DEF Printer

LEMMA PrintNameKeepsText ==
  ASSUME VInv, Waiting, TextInv, PrintName
  PROVE  TextInv'
<1> DEFINE t == Printer.type
           n == Len(walk)
           c == walk[n - 1].type
<1>1. /\ Printing /\ ~Compound(t) /\ out' = Append(out, t) /\ PrintReturn
      /\ UNCHANGED <<build, asked, view>> /\ walk # <<>> /\ status = "running"
  BY DEF PrintName, Printing
<1>2. ASSUME build = "debug", ~VolatilePointer(view)
      PROVE  IF n = 1 THEN Describes(out', Layers(view))
             ELSE Describes(out', Layers(Deps[c][1]) \o Before(c))
  <2>1. /\ n \in Nat \ {0} /\ walk \in Seq(Calls) /\ Printer \in Calls /\ Printer = walk[n]
        /\ t \in Types \cup {Void}
    BY <1>1, PrinterCall DEF VInv, Printer
  <2>2. Written
    BY <1>1, <1>2 DEF TextInv
  <2>3. Printer.pc = "enter"
    BY <1>1, <2>1 DEF Waiting, Calls
  <2>4. out = IF n = 1 THEN <<>> ELSE Before(c)
    BY <1>1, <2>2, <2>3 DEF Written
  <2>5. Layers(t) = <<t>>
    BY <1>1, <2>1, NoLayers
  <2>6. ASSUME NEW pre \in Seq(Tokens), out = pre
        PROVE  Describes(out', Layers(t) \o pre)
    <3> DEFINE one == <<t>>
    <3>1. one \in Seq(Words) /\ t \in Words /\ pre \in Seq(Words) /\ <<>> \in Seq(Tokens)
      BY <2>1, TokensAreWords, EmptySeq DEF Words
    <3>2. Append(pre, t) = pre \o <<t>>
      BY <3>1, AppendIsConcat
    <3> HIDE DEF one
    <3>3. pre \o one \in Seq(Words) /\ one \o pre \in Seq(Words)
      BY <3>1, ConcatProperties
    <3>4. (pre \o one) \o <<>> = pre \o one /\ (one \o pre) \o <<>> = one \o pre
      BY <3>3, ConcatEmptySeq
    <3>5. out' = (pre \o one) \o <<>> /\ Layers(t) \o pre = (one \o pre) \o <<>>
      BY <1>1, <2>5, <2>6, <3>2, <3>4 DEF one
    <3>6. ReadsAs(out', Layers(t) \o pre, t, pre, <<>>)
      BY <2>1, <3>1, <3>5 DEF ReadsAs, one
    <3> QED
      BY <3>6 DEF Describes
  <2>7. CASE n = 1
    <3>1. t = view /\ <<>> \in Seq(Tokens)
      BY <1>1, <2>1, <2>7, EmptySeq DEF VInv, Walking
    <3>2. Layers(t) \o <<>> = Layers(t)
      BY <2>1, LayersOfAll, ConcatEmptySeq
    <3>3. Describes(out', Layers(t) \o <<>>)
      BY <2>4, <2>6, <2>7, <3>1
    <3> QED
      BY <2>7, <3>1, <3>2, <3>3
  <2>8. CASE n # 1
    <3>1. c \in Types /\ Compound(c) /\ Deps[c][1] = t
      BY <1>1, <1>2, <2>8, CallerOf
    <3>2. Before(c) \in Seq(Tokens)
      BY <3>1, BeforeAfter
    <3>3. Describes(out', Layers(t) \o Before(c))
      BY <2>4, <2>6, <2>8, <3>2
    <3> QED
      BY <2>8, <3>1, <3>3
  <2> QED
    BY <2>7, <2>8
<1> QED
  BY <1>1, <1>2, ReturnKeepsText

LEMMA PrintAfterKeepsText ==
  ASSUME VInv, Waiting, TextInv, PrintAfter
  PROVE  TextInv'
<1> DEFINE t == Printer.type
           w == Deps[t][1]
           n == Len(walk)
           c == walk[n - 1].type
<1>1. /\ Printing /\ Compound(t) /\ Printer.pc = "leave" /\ out' = out \o After(t) /\ PrintReturn
      /\ UNCHANGED <<build, asked, view>> /\ walk # <<>> /\ status = "running"
  BY DEF PrintAfter, Printing
<1>2. ASSUME build = "debug", ~VolatilePointer(view)
      PROVE  IF n = 1 THEN Describes(out', Layers(view))
             ELSE Describes(out', Layers(Deps[c][1]) \o Before(c))
  <2>1. /\ n \in Nat \ {0} /\ Printer = walk[n] /\ t \in Types /\ cached[t] # 0
    <3>1. n \in Nat \ {0} /\ t \in Types \cup {Void}
      BY <1>1, PrinterCall DEF VInv
    <3>2. t \in Types
      BY <1>1, <3>1, CompoundIsType
    <3> QED
      BY <1>1, <3>1, <3>2, PrinterCall DEF VInv, Printer
  <2>2. Written /\ Inside
    BY <1>1, <1>2 DEF TextInv
  <2>3. Describes(out, Layers(w) \o Before(t))
    BY <1>1, <2>2 DEF Written
  <2>4. Describes(out', Layers(t))
    <3>1. /\ Before(t) \in Seq(Tokens) /\ After(t) \in Seq(Tokens)
          /\ Around(Form[t]) = Before(t) \o After(t)
      BY <1>1, <2>1, BeforeAfter
    <3>2. Describes(out \o After(t), (Layers(w) \o Before(t)) \o After(t))
      BY <2>3, <3>1, DescribeMore
    <3>3. w \in Types \cup {Void}
      BY <1>1, <2>1, BuiltUpon
    <3>4. /\ Layers(w) \in Seq(Words)
          /\ Before(t) \in Seq(Words) /\ After(t) \in Seq(Words)
      BY <3>1, <3>3, LayersOfAll, TokensAreWords
    <3>5. (Layers(w) \o Before(t)) \o After(t) = Layers(w) \o (Before(t) \o After(t))
      BY <3>4, ConcatAssociative
    <3>6. Layers(t) = Layers(w) \o Around(Form[t])
      BY <1>1, <1>2, <2>1, OneLayer
    <3> QED
      BY <1>1, <3>1, <3>2, <3>5, <3>6
  <2>5. CASE n = 1
    BY <1>1, <2>1, <2>4, <2>5 DEF VInv, Walking
  <2>6. CASE n # 1
    <3>1. /\ n - 1 \in 1 .. n
          /\ c \in Types /\ Compound(c) /\ cached[c] # 0 /\ Deps[c][1] = t
      BY <1>1, <1>2, <2>6, CallerOf
    <3>2. PICK rest \in Seq(Tokens) : Layers(view) = Layers(c) \o rest
      BY <2>2, <3>1 DEF Inside
    <3>3. Before(c) = <<>>
      BY <1>1, <1>2, <2>1, <3>1, <3>2, NothingBetween
    <3>4. Layers(t) \o <<>> = Layers(t)
      BY <2>1, LayersOfAll, ConcatEmptySeq
    <3> QED
      BY <2>4, <2>6, <3>1, <3>3, <3>4
  <2> QED
    BY <2>5, <2>6
<1> QED
  BY <1>1, <1>2, ReturnKeepsText

(* A printer of a compound type calls that of what it is built upon. *)
LEMMA PrintInnerKeepsText ==
  ASSUME VInv, Waiting, TextInv, PrintInner
  PROVE  TextInv'
<1> SUFFICES ASSUME build = "debug" PROVE TextInv'
  BY DEF PrintInner, TextInv
<1> DEFINE t == Printer.type
           n == Len(walk)
           u == InnerOf(t)
<1>1. /\ Printing /\ Compound(t) /\ Printer.pc = "enter" /\ out' = out \o Before(t)
      /\ UNCHANGED <<build, asked, view>>
      /\ walk # <<>> /\ status = "running" /\ outcome = "none"
  BY DEF PrintInner, Printing
<1>2. /\ n \in Nat \ {0} /\ walk \in Seq(Calls) /\ Printer \in Calls /\ Printer = walk[n]
      /\ t \in Types /\ cached[t] # 0
  <2>1. /\ n \in Nat \ {0} /\ walk \in Seq(Calls) /\ Printer \in Calls /\ Printer = walk[n]
        /\ t \in Types \cup {Void}
    BY <1>1, PrinterCall DEF VInv, Printer
  <2>2. t \in Types
    BY <1>1, <2>1, CompoundIsType
  <2> QED
    BY <1>1, <2>1, <2>2, PrinterCall DEF VInv
<1>3. Inside /\ asked' = NoType
  BY <1>1, ViewOfPrint DEF TextInv
<1>4. CASE UNCHANGED walk /\ status' # "running" /\ outcome' # "printed"
  <2>1. Inside'
    BY <1>1, <1>3, <1>4 DEF Inside
  <2> QED
    BY <1>1, <1>3, <1>4, <2>1 DEF TextInv, PrintsTheType
<1>5. CASE /\ u \in Types
           /\ walk' = Append([walk EXCEPT ![Len(walk)].pc = "leave"], Enter(u))
           /\ UNCHANGED <<status, outcome>>
  <2>1. Deps[t][1] = u /\ u \in Types /\ cached[u] # 0
    <3>1. Deps[t][1] = u
      BY <1>1, <1>2, <1>5, InnerWithChecks
    <3>2. inners[t][1] \in TypeIDs /\ u = GetType(inners[t][1])
      BY <1>1, <1>2, FirstInner DEF VInv, InnerOf
    <3>3. inners[t][1] \in 1 .. Len(types) /\ cached[u] = inners[t][1]
      BY <1>5, <3>2, ResolvedType DEF VInv
    <3> QED
      BY <1>5, <3>1, <3>3
  <2> HIDE DEF u
  <2> DEFINE call == Enter(u)
  <2>2. call \in Calls /\ call.type = u /\ call.pc = "enter"
    BY <2>1 DEF Enter, Calls
  <2>3. walk' = Append([walk EXCEPT ![Len(walk)].pc = "leave"], call)
    BY <1>5
  <2> HIDE DEF call
  <2>4. /\ \A i \in 1 .. n : walk'[i].type = walk[i].type
        /\ \A i \in 1 .. n - 1 : walk'[i] = walk[i]
        /\ walk'[n].pc = "leave"
    BY <1>2, <2>2, <2>3, Called
  <2>5. /\ Len(walk') = n + 1
        /\ walk'[n + 1] = call
    BY <1>2, <2>2, <2>3, Called
  <2>7. /\ \A i \in 1 .. n : i \in 1 .. n - 1 \/ i = n
        /\ \A i \in 1 .. n + 1 : i \in 1 .. n \/ i = n + 1
        /\ n \in 1 .. n /\ Len(walk') - 1 = n /\ Len(walk') # 1
    BY <1>2, <2>5
  <2>8. PICK rest \in Seq(Tokens) : Layers(view) = Layers(t) \o rest
    BY <1>2, <1>3, <2>7 DEF Inside
  <2>9. Inside'
    <3>1. ASSUME NEW i \in 1 .. n
          PROVE  \E s \in Seq(Tokens) : Layers(view) = Layers(walk'[i].type) \o s
      BY <1>3, <2>4, <2>5 DEF Inside
    <3>2. \E s \in Seq(Tokens) : Layers(view) = Layers(u) \o s
      <4>1. Layers(t) = Layers(u) \o Around(Form[t])
        BY <1>1, <1>2, <2>1, OneLayer
      <4>2. Around(Form[t]) \in Seq(Tokens) /\ Layers(u) \in Seq(Words)
        BY <1>1, <1>2, <2>1, BuiltUpon, AroundIsTokens, LayersOfAll
      <4>3. Around(Form[t]) \in Seq(Words) /\ rest \in Seq(Words)
        BY <4>2, TokensAreWords
      <4>4. Layers(view) = Layers(u) \o (Around(Form[t]) \o rest)
        <5>1. (Layers(u) \o Around(Form[t])) \o rest = Layers(u) \o (Around(Form[t]) \o rest)
          BY <4>2, <4>3, ConcatAssociative
        <5> QED
          BY <2>8, <4>1, <5>1
      <4>5. Around(Form[t]) \o rest \in Seq(Tokens)
        BY <4>2, ConcatProperties
      <4> QED
        BY <4>4, <4>5
    <3>3. ASSUME NEW i \in 1 .. n + 1
          PROVE  \E s \in Seq(Tokens) : Layers(view') = Layers(walk'[i].type) \o s
      BY <1>1, <2>2, <2>5, <2>7, <3>1, <3>2
    <3> QED
      BY <2>5, <3>3 DEF Inside
  <2>10. ~VolatilePointer(view) => Written'
    <3> SUFFICES ASSUME ~VolatilePointer(view) PROVE Written'
      OBVIOUS
    <3>1. out = <<>>
      BY <1>1, <1>2 DEF TextInv, Written
    <3>2. Before(t) \in Seq(Tokens)
      BY <1>1, <1>2, BeforeAfter
    <3>3. out' = Before(t)
      BY <1>1, <3>1, <3>2, ConcatEmptySeq
    <3>4. Compound(u) => Before(t) = <<>>
      BY <1>1, <1>2, <2>1, <2>8, NothingBetween
    <3>5. Printer' = call /\ walk'[Len(walk') - 1].type = t
      BY <1>2, <2>4, <2>5, <2>7 DEF Printer
    <3>6. Printer'.pc = "enter" /\ Printer'.type = u
      BY <2>2, <3>5
    <3>7. out' = IF Len(walk') = 1 \/ Compound(Printer'.type) THEN <<>>
                 ELSE Before(walk'[Len(walk') - 1].type)
      BY <2>7, <3>3, <3>4, <3>5, <3>6
    <3>8. Printer'.pc # "leave"
      BY <3>6
    <3> QED
      BY <3>7, <3>8 DEF Written
  <2>11. VolatilePointer(view)' = VolatilePointer(view) /\ outcome' # "printed"
    BY <1>1, <1>5
  <2> QED
    BY <1>1, <1>3, <2>9, <2>10, <2>11 DEF TextInv, PrintsTheType
<1>6. CASE ValueOfFailure /\ UNCHANGED walk
  BY <1>1, <1>4, <1>6 DEF ValueOfFailure
<1>7. CASE status' = "aborted" /\ outcome' = "overflow" /\ UNCHANGED walk
  BY <1>4, <1>7
<1> QED
  BY <1>5, <1>6, <1>7 DEF PrintInner

LEMMA TextInvStep == VInv /\ Waiting /\ TextInv /\ [ViewNext]_allVars => TextInv'
<1> SUFFICES ASSUME VInv, Waiting, TextInv, [ViewNext]_allVars PROVE TextInv'
  OBVIOUS
<1>1. ASSUME NEW t \in Types, Reflect(t) PROVE TextInv'
  BY <1>1, NoText DEF Reflect, Idle, Forget
<1>2. CASE Registering \/ FinishReflect
  BY <1>2, AskingKeepsText
<1>3. CASE ReflectVoid \/ GetInner \/ \E l \in Literals, layout \in Layouts : LookUp(l, layout)
  BY <1>3, NoText DEF ReflectVoid, GetInner, LookUp, Idle, Forget
<1>4. CASE PrintView
  BY <1>4, PrintViewKeepsText
<1>5. CASE PrintName
  BY <1>5, PrintNameKeepsText
<1>6. CASE PrintInner
  BY <1>6, PrintInnerKeepsText
<1>7. CASE PrintAfter
  BY <1>7, PrintAfterKeepsText
<1>8. CASE UNCHANGED allVars
  <2>1. UNCHANGED <<build, status, asked, view, walk, out, outcome>>
    BY <1>8 DEF allVars, vars, viewVars
  <2>2. VolatilePointer(view)' = VolatilePointer(view) /\ PrintsTheType' = PrintsTheType
    BY <2>1 DEF PrintsTheType, VolatilePointer, Reading
  <2>3. Inside' = Inside /\ Written' = Written
    BY <2>1 DEF Inside, Written, Printer
  <2> QED
    BY <2>1, <2>2, <2>3 DEF TextInv
<1> QED
  BY <1>1, <1>2, <1>3, <1>4, <1>5, <1>6, <1>7, <1>8 DEF ViewNext, PrintStep, Ended

(* With checked results, what is printed reads, as C++, as the type it was *)
(* printed for, whatever types a program has, how deep they are nested and *)
(* whatever registered or failed to before; volatile pointers excepted.    *)
THEOREM TextReadsAsType == ViewSpec => []PrintsTheType
<1>1. ViewInit => TextInv
  BY TextInvInit
<1>2. VInv /\ Waiting /\ TextInv /\ [ViewNext]_allVars => TextInv'
  BY TextInvStep
<1>3. TextInv => PrintsTheType
  BY DEF TextInv, PrintsTheType
<1> QED
  BY <1>1, <1>2, <1>3, ViewInductive, CallsWait, PTL DEF ViewSpec

=============================================================================
