-------------------------- MODULE RoundTrip_proofs --------------------------
(***************************************************************************)
(* Proofs about SequenceReader, for every input and every set of shapes,   *)
(* and about RoundTrip: a file reads back as the model of what was pushed, *)
(* as far as the file goes.                                                *)
(***************************************************************************)
EXTENDS RoundTrip, SequenceWriter_proofs, SequenceTheorems, SequenceLemmas, TLAPS

----------------------------------------------------------------------------
(* The registry                                                            *)

\* What one owner publishes is the list it holds.
LEMMA OneOwner ==
  ASSUME NEW S, NEW owner, owner.definitions \in Seq(S)
  PROVE  Definitions(<<owner>>) = owner.definitions
<1> DEFINE lists == [i \in DOMAIN <<owner>> |-> <<owner>>[i].definitions]
<1>1. lists = <<owner.definitions>>
  OBVIOUS
<1>2. FlattenSeq(<<owner.definitions>>) = owner.definitions
  BY DEF FlattenSeq
<1> QED  BY <1>1, <1>2 DEF Definitions

\* What an element publishes has a known shape.
LEMMA DecodedTyped ==
  ASSUME NEW d \in Seq([param : ParamIds, shape : Shapes \cup {Extension}])
  PROVE  Decoded(d) \in Seq(Definition)
<1> DEFINE lists == [i \in DOMAIN d |-> IF IsDecoded(d[i]) THEN <<d[i]>> ELSE <<>>]
<1>1. ASSUME NEW i \in DOMAIN d
      PROVE  (IF IsDecoded(d[i]) THEN <<d[i]>> ELSE <<>>) \in Seq(Definition)
  <2>1. d[i] \in [param : ParamIds, shape : Shapes \cup {Extension}]
    BY SeqMember
  <2>2. IsDecoded(d[i]) => d[i] \in Definition
    BY <2>1 DEF IsDecoded, Definition
  <2> QED  BY <2>2
<1>2. lists = [i \in DOMAIN d |-> lists[i]] /\ \A i \in DOMAIN d : lists[i] \in Seq(Definition)
  BY <1>1
<1> HIDE DEF lists
<1>3. lists \in Seq(Seq(Definition))
  <2>1. ListOf(Seq(Definition), d, lists)
    BY <1>2, ListTyped
  <2> QED  BY <2>1 DEF ListOf
<1>4. FlattenSeq(lists) \in Seq(Definition)
  BY <1>3, FlattenMembers
<1> QED  BY <1>4 DEF Decoded, lists

\* An OBU of the input adds its own definitions at the end of a registry.
LEMMA ObserveAppends ==
  ASSUME input \in Inputs, NEW n \in 1..Len(input), NEW r \in Seq(Definition)
  PROVE  /\ OwnerDefinitions(n) \in Seq(Definition)
         /\ Observe(r, input[n].obu) = r \o OwnerDefinitions(n)
<1> DEFINE obu == input[n].obu
<1>1. n \in DOMAIN input
  BY InputsAssumption
<1>2. IsWireObu(obu)
  BY <1>1, InputsAssumption
<1>3. <<>> \in Seq(Definition) /\ r \o <<>> = r
  OBVIOUS
<1>4. CASE obu.kind = "element"
  <2>1. Decoded(obu.element.definitions) \in Seq(Definition)
    BY <1>2, <1>4, DecodedTyped DEF IsWireObu
  <2>2. Definitions(<<obu.element>>) = obu.element.definitions
    BY <1>2, <1>4, OneOwner DEF IsWireObu
  <2>3. ObserveAudioElements(<<obu.element>>) = Decoded(obu.element.definitions)
    BY <2>2 DEF ObserveAudioElements
  <2> QED  BY <1>4, <2>1, <2>3 DEF Observe, OwnerDefinitions
<1>5. CASE obu.kind = "presentation"
  <2>1. obu.presentation.definitions \in Seq(Definition)
    BY <1>2, <1>5 DEF IsWireObu
  <2>2. Definitions(<<obu.presentation>>) = obu.presentation.definitions
    BY <2>1, OneOwner
  <2> QED  BY <1>5, <2>1, <2>2 DEF Observe, OwnerDefinitions
<1>6. CASE obu.kind \notin {"element", "presentation"}
  BY <1>3, <1>6 DEF Observe, OwnerDefinitions
<1> QED  BY <1>4, <1>5, <1>6

\* get finds the first entry of a parameter, if there is one.
LEMMA GetIsFirst ==
  ASSUME NEW r \in Seq(Definition), NEW p
  PROVE  /\ IsGoverned(r, p) <=> \E i \in 1..Len(r) : r[i].param = p
         /\ IsGoverned(r, p) =>
              /\ Get(r, p) \in 1..Len(r)
              /\ r[Get(r, p)].param = p
              /\ \A j \in 1..Len(r) : r[j].param = p => Get(r, p) <= j
<1> DEFINE I == {i \in 1..Len(r) : r[i].param = p}
<1>1. Get(r, p) = IF I # {} THEN Min(I) ELSE 0
  BY DEF Get, SelectInSeq
<1>2. Min(I) = CHOOSE x \in I : \A y \in I : x <= y
  BY DEF Min
<1>3. I # {} => \E x \in I : \A y \in I : x <= y
  <2>1. I \in SUBSET Nat
    OBVIOUS
  <2> HIDE DEF I
  <2> QED  BY <2>1, LeastMember
<1>4. I # {} => Min(I) \in I /\ \A y \in I : Min(I) <= y
  <2> HIDE DEF I
  <2> QED  BY <1>2, <1>3
<1>5. I # {} => Min(I) \in 1..Len(r)
  BY <1>4
<1>6. IsGoverned(r, p) <=> I # {}
  BY <1>1, <1>5 DEF IsGoverned
<1> QED  BY <1>1, <1>4, <1>6

\* The first entry of an extended registry is that of the registry, or else
\* the first of what was added.
LEMMA GetOfExtended ==
  ASSUME NEW r \in Seq(Definition), NEW d \in Seq(Definition), NEW p
  PROVE  /\ IsGoverned(r \o d, p) <=> IsGoverned(r, p) \/ IsGoverned(d, p)
         /\ IsGoverned(r, p) => GoverningShape(r \o d, p) = GoverningShape(r, p)
         /\ ~IsGoverned(r, p) /\ IsGoverned(d, p) =>
              GoverningShape(r \o d, p) = GoverningShape(d, p)
<1> DEFINE e == r \o d
<1>1. /\ e \in Seq(Definition) /\ Len(e) = Len(r) + Len(d)
      /\ \A i \in 1..Len(r) : i \in 1..Len(e) /\ e[i] = r[i]
      /\ \A i \in 1..Len(d) : Len(r) + i \in 1..Len(e) /\ e[Len(r) + i] = d[i]
  OBVIOUS
<1>2. \A i \in 1..Len(e) : i \in 1..Len(r) \/ \E k \in 1..Len(d) : i = Len(r) + k
  <2> SUFFICES ASSUME NEW i \in 1..Len(e), i \notin 1..Len(r)
               PROVE  \E k \in 1..Len(d) : i = Len(r) + k
    OBVIOUS
  <2>1. i - Len(r) \in 1..Len(d) /\ i = Len(r) + (i - Len(r))
    BY <1>1
  <2> QED  BY <2>1
<1> HIDE DEF e
<1>3. IsGoverned(e, p) <=> IsGoverned(r, p) \/ IsGoverned(d, p)
  <2>1. /\ IsGoverned(e, p) <=> \E i \in 1..Len(e) : e[i].param = p
        /\ IsGoverned(r, p) <=> \E i \in 1..Len(r) : r[i].param = p
        /\ IsGoverned(d, p) <=> \E i \in 1..Len(d) : d[i].param = p
    BY <1>1, GetIsFirst
  <2>2. (\E i \in 1..Len(r) : r[i].param = p) => \E i \in 1..Len(e) : e[i].param = p
    BY <1>1
  <2>3. (\E i \in 1..Len(d) : d[i].param = p) => \E i \in 1..Len(e) : e[i].param = p
    <3> SUFFICES ASSUME NEW i \in 1..Len(d), d[i].param = p
                 PROVE  \E k \in 1..Len(e) : e[k].param = p
      OBVIOUS
    <3>1. Len(r) + i \in 1..Len(e) /\ e[Len(r) + i] = d[i]
      BY <1>1
    <3> QED  BY <3>1
  <2>4. (\E i \in 1..Len(e) : e[i].param = p) =>
          (\E i \in 1..Len(r) : r[i].param = p) \/ \E i \in 1..Len(d) : d[i].param = p
    <3> SUFFICES ASSUME NEW i \in 1..Len(e), e[i].param = p
                 PROVE  \/ \E k \in 1..Len(r) : r[k].param = p
                        \/ \E k \in 1..Len(d) : d[k].param = p
      OBVIOUS
    <3>1. CASE i \in 1..Len(r)
      BY <1>1, <3>1
    <3>2. ASSUME NEW k \in 1..Len(d), i = Len(r) + k
          PROVE  \E l \in 1..Len(d) : d[l].param = p
      BY <1>1, <3>2
    <3> QED  BY <1>2, <3>1, <3>2
  <2> QED  BY <2>1, <2>2, <2>3, <2>4
<1>4. IsGoverned(r, p) => Get(e, p) = Get(r, p)
  <2> SUFFICES ASSUME IsGoverned(r, p) PROVE Get(e, p) = Get(r, p)
    OBVIOUS
  <2>1. /\ Get(r, p) \in 1..Len(r) /\ r[Get(r, p)].param = p
        /\ \A j \in 1..Len(r) : r[j].param = p => Get(r, p) <= j
    BY GetIsFirst
  <2>2. /\ Get(e, p) \in 1..Len(e) /\ e[Get(e, p)].param = p
        /\ \A j \in 1..Len(e) : e[j].param = p => Get(e, p) <= j
    BY <1>1, <1>3, GetIsFirst
  <2>3. Get(e, p) <= Get(r, p)
    BY <1>1, <2>1, <2>2
  <2>4. Get(e, p) \in 1..Len(r)
    BY <2>1, <2>2, <2>3
  <2>5. Get(r, p) <= Get(e, p)
    BY <1>1, <2>1, <2>2, <2>4
  <2> QED  BY <2>1, <2>3, <2>4, <2>5
<1>5. ~IsGoverned(r, p) /\ IsGoverned(d, p) => Get(e, p) = Len(r) + Get(d, p)
  <2> SUFFICES ASSUME ~IsGoverned(r, p), IsGoverned(d, p)
               PROVE  Get(e, p) = Len(r) + Get(d, p)
    OBVIOUS
  <2>1. /\ Get(d, p) \in 1..Len(d) /\ d[Get(d, p)].param = p
        /\ \A j \in 1..Len(d) : d[j].param = p => Get(d, p) <= j
    BY GetIsFirst
  <2>2. /\ Get(e, p) \in 1..Len(e) /\ e[Get(e, p)].param = p
        /\ \A j \in 1..Len(e) : e[j].param = p => Get(e, p) <= j
    BY <1>1, <1>3, GetIsFirst
  <2>3. Get(e, p) \notin 1..Len(r)
    BY <1>1, <2>2, GetIsFirst
  <2>4. PICK k \in 1..Len(d) : Get(e, p) = Len(r) + k
    BY <1>2, <2>2, <2>3
  <2>5. d[k].param = p
    BY <1>1, <2>2, <2>4
  <2>6. Get(d, p) <= k
    BY <2>1, <2>5
  <2>7. Len(r) + k <= Len(r) + Get(d, p)
    BY <1>1, <2>1, <2>2, <2>4
  <2>8. k = Get(d, p)
    BY <2>1, <2>6, <2>7
  <2> QED  BY <2>4, <2>8
<1>6. IsGoverned(r, p) => Get(r, p) \in 1..Len(r)
  BY GetIsFirst
<1>7. IsGoverned(d, p) => Get(d, p) \in 1..Len(d)
  BY GetIsFirst
<1> QED  BY <1>1, <1>3, <1>4, <1>5, <1>6, <1>7 DEF GoverningShape, e
----------------------------------------------------------------------------
(* The reference: the first definition on the wire                         *)

\* OBU n publishes a parameter if a registry of its definitions governs it.
LEMMA PublishesIsGoverned ==
  ASSUME input \in Inputs, NEW n \in 1..Len(input), NEW p
  PROVE  Publishes(n, p) <=> IsGoverned(OwnerDefinitions(n), p)
<1>1. OwnerDefinitions(n) \in Seq(Definition)
  BY ObserveAppends, EmptySeq
<1>2. DOMAIN OwnerDefinitions(n) = 1..Len(OwnerDefinitions(n))
  BY <1>1
<1> QED  BY <1>1, <1>2, GetIsFirst DEF Publishes

\* FirstShape is the one that the first owner to publish a parameter gives it.
LEMMA FirstShapeIs ==
  ASSUME input \in Inputs, NEW n \in Nat, NEW i \in 1..n, n <= Len(input), NEW p,
         Publishes(i, p), \A j \in 1..(i - 1) : ~Publishes(j, p)
  PROVE  FirstShape(n + 1, p) = GoverningShape(OwnerDefinitions(i), p)
<1> DEFINE First(h)   == Publishes(h, p) /\ \A j \in 1..(h - 1) : ~Publishes(j, p)
           FirstIn(k) == /\ OwnerDefinitions(i)[k].param = p
                         /\ \A l \in 1..(k - 1) : OwnerDefinitions(i)[l].param # p
<1>1. i \in 1..Len(input) /\ Len(input) \in Nat
  BY InputsAssumption
<1>2. OwnerDefinitions(i) \in Seq(Definition) /\ IsGoverned(OwnerDefinitions(i), p)
  BY <1>1, ObserveAppends, PublishesIsGoverned, EmptySeq
<1>3. (CHOOSE h \in 1..((n + 1) - 1) : First(h)) = i
  <2>1. (n + 1) - 1 = n
    OBVIOUS
  <2>2. First(i)
    OBVIOUS
  <2>3. \A h \in 1..n : First(h) => h = i
    <3> SUFFICES ASSUME NEW h \in 1..n, First(h) PROVE h = i
      OBVIOUS
    <3>1. ~(h < i)
      <4>1. h < i => h \in 1..(i - 1)
        OBVIOUS
      <4> QED  BY <4>1
    <3>2. ~(i < h)
      <4>1. i < h => i \in 1..(h - 1)
        OBVIOUS
      <4> QED  BY <4>1
    <3> QED  BY <3>1, <3>2
  <2> HIDE DEF First
  <2> QED  BY <2>1, <2>2, <2>3
<1>4. /\ Get(OwnerDefinitions(i), p) \in DOMAIN OwnerDefinitions(i)
      /\ (CHOOSE k \in DOMAIN OwnerDefinitions(i) : FirstIn(k)) = Get(OwnerDefinitions(i), p)
  <2> DEFINE d == OwnerDefinitions(i)
             g == Get(d, p)
  <2>1. /\ g \in 1..Len(d) /\ d[g].param = p
        /\ \A j \in 1..Len(d) : d[j].param = p => g <= j
        /\ DOMAIN d = 1..Len(d) /\ Len(d) \in Nat
    BY <1>2, GetIsFirst
  <2> HIDE DEF d, g
  <2>2. \A k \in 1..Len(d) : k < g => d[k].param # p
    BY <2>1
  <2>3. d[g].param = p /\ \A l \in 1..(g - 1) : d[l].param # p
    <3>1. \A l \in 1..(g - 1) : l \in 1..Len(d) /\ l < g
      BY <2>1
    <3> QED  BY <2>1, <2>2, <3>1
  <2>4. \A k \in 1..Len(d) : k # g =>
          ~(d[k].param = p /\ \A l \in 1..(k - 1) : d[l].param # p)
    <3> SUFFICES ASSUME NEW k \in 1..Len(d), k # g, d[k].param = p
                 PROVE  \E l \in 1..(k - 1) : d[l].param = p
      OBVIOUS
    <3>1. g \in 1..(k - 1)
      BY <2>1
    <3> QED  BY <2>1, <3>1
  <2>5. g \in DOMAIN d /\ (CHOOSE k \in DOMAIN d : d[k].param = p
                             /\ \A l \in 1..(k - 1) : d[l].param # p) = g
    BY <2>1, <2>3, <2>4
  <2> QED  BY <2>5 DEF d, g
<1> QED  BY <1>3, <1>4 DEF FirstShape, GoverningShape

\* What the input publishes does not depend on how much of it has been read.
LEMMA ReferenceStays ==
  ASSUME input' = input
  PROVE  /\ \A i, p : Publishes(i, p)' <=> Publishes(i, p)
         /\ \A m, p : FirstShape(m, p)' = FirstShape(m, p)
<1>1. ASSUME NEW i, NEW p PROVE Publishes(i, p)' <=> Publishes(i, p)
  BY DEF Publishes, OwnerDefinitions
<1>2. ASSUME NEW m, NEW p PROVE FirstShape(m, p)' = FirstShape(m, p)
  BY SMTT(30) DEF FirstShape, Publishes, OwnerDefinitions
<1> QED  BY <1>1, <1>2

\* Another OBU does not change which definition of a parameter is the first.
LEMMA FirstShapeStays ==
  ASSUME input \in Inputs, NEW n \in Nat, n + 1 <= Len(input), NEW p,
         \E i \in 1..n : Publishes(i, p)
  PROVE  FirstShape((n + 1) + 1, p) = FirstShape(n + 1, p)
<1> DEFINE S == {i \in 1..n : Publishes(i, p)}
<1>1. PICK i \in S : \A j \in S : i <= j
  <2>1. S \in SUBSET Nat /\ S # {}
    OBVIOUS
  <2> HIDE DEF S
  <2> QED  BY <2>1, LeastMember
<1>2. i \in 1..n /\ Publishes(i, p)
  BY <1>1
<1>3. \A j \in 1..(i - 1) : ~Publishes(j, p)
  <2> SUFFICES ASSUME NEW j \in 1..(i - 1), Publishes(j, p) PROVE FALSE
    OBVIOUS
  <2>1. j \in S
    BY <1>2
  <2> QED  BY <1>1, <1>2, <2>1
<1>4. n <= Len(input) /\ i \in 1..(n + 1) /\ n + 1 \in Nat
  BY <1>2, InputsAssumption
<1> HIDE DEF S
<1>5. FirstShape(n + 1, p) = GoverningShape(OwnerDefinitions(i), p)
  BY <1>2, <1>3, <1>4, FirstShapeIs
<1>6. FirstShape((n + 1) + 1, p) = GoverningShape(OwnerDefinitions(i), p)
  BY <1>2, <1>3, <1>4, FirstShapeIs
<1> QED  BY <1>5, <1>6
----------------------------------------------------------------------------
(* The inductive invariant                                                 *)

Typed ==
  /\ input \in Inputs
  /\ position \in 0..Len(input)
  /\ registry \in Seq(Definition)
  /\ yielded \in Seq({yielded[i] : i \in DOMAIN yielded})
  /\ Len(yielded) = position

\* What has been passed could be read.
PrefixSound == \A i \in 1..position : input[i].fault = "none"

BlockParams ==
  {input[i].obu.param : i \in {i \in 1..Len(input) : input[i].obu.kind = "block"}}

\* The registry governs what the OBUs before the cursor publish, as the first
\* of them has it.
Registered ==
  \A p \in BlockParams :
    /\ IsGoverned(registry, p) <=> \E i \in 1..position : Publishes(i, p)
    /\ IsGoverned(registry, p) => GoverningShape(registry, p) = FirstShape(position + 1, p)

RInv == Typed /\ PrefixSound /\ Registered /\ GovernedByFirst

LEMMA InitRInv == ReaderInit => RInv
<1> SUFFICES ASSUME ReaderInit PROVE RInv
  OBVIOUS
<1>1. PICK bytes \in Inputs : Start(bytes)
  BY DEF ReaderInit
<1>2. input = bytes /\ Len(input) \in Nat
  BY <1>1, InputsAssumption DEF Start
<1>3. Typed
  <2>1. <<>> \in Seq(Definition) /\ <<>> \in Seq({yielded[i] : i \in DOMAIN yielded}) /\ Len(<<>>) = 0
    OBVIOUS
  <2> QED  BY <1>1, <1>2, <2>1 DEF Typed, Start
<1>4. PrefixSound /\ GovernedByFirst
  BY <1>1 DEF PrefixSound, GovernedByFirst, Start
<1>5. Registered
  <2>1. registry = <<>> /\ registry \in Seq(Definition) /\ Len(registry) = 0
    <3>1. <<>> \in Seq(Definition) /\ Len(<<>>) = 0
      OBVIOUS
    <3> QED  BY <1>1, <3>1 DEF Start
  <2>2. \A p : IsGoverned(registry, p) <=> \E i \in 1..Len(registry) : registry[i].param = p
    BY <2>1, GetIsFirst
  <2>3. \A p : ~IsGoverned(registry, p)
    BY <2>1, <2>2
  <2> QED  BY <1>1, <2>3 DEF Registered, Start
<1> QED  BY <1>3, <1>4, <1>5 DEF RInv

\* What a yielded OBU leaves of the types and of the prefix.
LEMMA YieldTyped ==
  ASSUME Typed, PrefixSound, Yield
  PROVE  /\ Typed' /\ PrefixSound'
         /\ position + 1 \in 1..Len(input) /\ input' = input
         /\ registry' = registry \o OwnerDefinitions(position + 1)
         /\ yielded' = Append(yielded, Parse(registry, input[position + 1].obu))
         /\ \A i \in 1..position : yielded'[i] = yielded[i]
         /\ yielded'[position + 1] = Parse(registry, input[position + 1].obu)
<1> DEFINE new == Parse(registry, input[position + 1].obu)
           S   == {yielded[i] : i \in DOMAIN yielded}
           d   == OwnerDefinitions(position + 1)
<1>1. Len(input) \in Nat
  BY InputsAssumption DEF Typed
<1>2. position + 1 \in 1..Len(input) /\ position' = position + 1
  BY <1>1 DEF Typed, Yield, AtEnd
<1>3. d \in Seq(Definition) /\ registry' = registry \o d
  BY <1>2, ObserveAppends DEF Typed, Yield
<1>4. registry' \in Seq(Definition)
  <2> HIDE DEF d
  <2> QED  BY <1>3 DEF Typed
<1>5. yielded' = Append(yielded, new) /\ input' = input
  BY DEF Yield
<1>6. /\ yielded' \in Seq(S \cup {new}) /\ Len(yielded') = position + 1
      /\ \A i \in 1..position : yielded'[i] = yielded[i]
      /\ yielded'[position + 1] = new
  <2>1. yielded \in Seq(S) /\ Len(yielded) = position
    BY DEF Typed
  <2> HIDE DEF S, new
  <2>2. yielded \in Seq(S \cup {new}) /\ new \in S \cup {new}
    BY <2>1
  <2> QED  BY <1>5, <2>1, <2>2
<1>7. yielded' \in Seq({yielded'[i] : i \in DOMAIN yielded'})
  <2> HIDE DEF S, new
  <2> QED  BY <1>6
<1>8. Typed'
  BY <1>2, <1>4, <1>5, <1>6, <1>7 DEF Typed
<1>9. PrefixSound'
  <2>1. position \in Nat
    BY <1>1 DEF Typed
  <2>2. \A i \in 1..(position + 1) : i \in 1..position \/ i = position + 1
    BY <2>1
  <2> QED  BY <1>2, <1>5, <2>2 DEF PrefixSound, Yield
<1> QED  BY <1>2, <1>3, <1>5, <1>6, <1>8, <1>9

\* The registry keeps to the first definitions.
LEMMA YieldRegistered ==
  ASSUME Typed, PrefixSound, Registered, Yield
  PROVE  Registered'
<1> DEFINE n == position + 1
           d == OwnerDefinitions(n)
<1>1. /\ input \in Inputs /\ registry \in Seq(Definition) /\ input' = input
      /\ n \in 1..Len(input) /\ position \in Nat /\ position' = n
      /\ registry' = registry \o d
  BY YieldTyped DEF Typed, Yield
<1>2. d \in Seq(Definition)
  BY <1>1, ObserveAppends, EmptySeq
<1>3. \A i, p : Publishes(i, p)' <=> Publishes(i, p)
  BY <1>1, ReferenceStays
<1>4. \A m, p : FirstShape(m, p)' = FirstShape(m, p)
  BY <1>1, ReferenceStays
<1>5. BlockParams' = BlockParams
  BY <1>1 DEF BlockParams
<1>6. ASSUME NEW p \in BlockParams
      PROVE  /\ IsGoverned(registry', p) <=> \E i \in 1..n : Publishes(i, p)
             /\ IsGoverned(registry', p) => GoverningShape(registry', p) = FirstShape(n + 1, p)
  <2>1. /\ IsGoverned(registry, p) <=> \E i \in 1..position : Publishes(i, p)
        /\ IsGoverned(registry, p) => GoverningShape(registry, p) = FirstShape(n, p)
    BY DEF Registered
  <2>2. Publishes(n, p) <=> IsGoverned(d, p)
    BY <1>1, PublishesIsGoverned
  <2>3. \A i : i \in 1..n <=> i \in 1..position \/ i = n
    BY <1>1
  <2>4. /\ IsGoverned(registry', p) <=> IsGoverned(registry, p) \/ IsGoverned(d, p)
        /\ IsGoverned(registry, p) => GoverningShape(registry', p) = GoverningShape(registry, p)
        /\ ~IsGoverned(registry, p) /\ IsGoverned(d, p) =>
             GoverningShape(registry', p) = GoverningShape(d, p)
    <3> HIDE DEF d
    <3> QED  BY <1>1, <1>2, GetOfExtended
  <2>5. CASE IsGoverned(registry, p)
    <3>1. FirstShape(n + 1, p) = FirstShape(n, p)
      <4>1. position + 1 <= Len(input) /\ \E i \in 1..position : Publishes(i, p)
        BY <1>1, <2>1, <2>5, InputsAssumption
      <4> QED  BY <1>1, <4>1, FirstShapeStays
    <3> QED  BY <2>1, <2>3, <2>4, <2>5, <3>1
  <2>6. CASE ~IsGoverned(registry, p) /\ IsGoverned(d, p)
    <3>1. FirstShape(n + 1, p) = GoverningShape(d, p)
      <4>1. n \in Nat /\ n \in 1..n /\ n <= Len(input) /\ n - 1 = position
        BY <1>1, InputsAssumption
      <4>2. Publishes(n, p) /\ \A j \in 1..(n - 1) : ~Publishes(j, p)
        BY <2>1, <2>2, <2>6, <4>1
      <4> HIDE DEF n
      <4> QED  BY <1>1, <4>1, <4>2, FirstShapeIs
    <3> QED  BY <2>2, <2>3, <2>4, <2>6, <3>1
  <2>7. CASE ~IsGoverned(registry, p) /\ ~IsGoverned(d, p)
    BY <2>1, <2>2, <2>3, <2>4, <2>7
  <2> QED  BY <2>5, <2>6, <2>7
<1>7. \A p : IsGoverned(registry, p)' = IsGoverned(registry', p)
  OBVIOUS
<1> HIDE DEF n, d
<1> QED  BY <1>1, <1>3, <1>4, <1>5, <1>6 DEF Registered
\* The block of a yielded OBU is decoded as the registry has it.
LEMMA YieldGoverned ==
  ASSUME RInv, Yield
  PROVE  GovernedByFirst'
<1> DEFINE n   == position + 1
           obu == input[n].obu
<1>1. /\ Typed /\ Registered /\ Typed' /\ input' = input /\ n \in 1..Len(input)
      /\ position \in Nat
      /\ \A i \in 1..position : yielded'[i] = yielded[i]
      /\ yielded'[n] = Parse(registry, obu)
      /\ DOMAIN yielded = 1..position /\ DOMAIN yielded' = 1..n
  <2>1. Typed /\ PrefixSound /\ Registered
    BY DEF RInv
  <2>2. position \in Nat /\ DOMAIN yielded = 1..position
    BY <2>1, InputsAssumption DEF Typed
  <2>3. Typed' /\ position' = n
    BY <2>1, YieldTyped DEF Yield
  <2>4. DOMAIN yielded' = 1..n
    BY <2>3 DEF Typed
  <2> QED  BY <2>1, <2>2, <2>3, <2>4, YieldTyped
<1>2. \A i, p : Publishes(i, p)' <=> Publishes(i, p)
  BY <1>1, ReferenceStays
<1>3. \A m, p : FirstShape(m, p)' = FirstShape(m, p)
  BY <1>1, ReferenceStays
<1>4. ASSUME NEW m \in 1..n, input[m].obu.kind = "block"
      PROVE  IF \E i \in 1..(m - 1) : Publishes(i, input[m].obu.param)
               THEN /\ yielded'[m].kind = "block"
                    /\ yielded'[m].shape = FirstShape(m, input[m].obu.param)
               ELSE yielded'[m].kind = "ungoverned"
  <2>1. CASE m \in 1..position
    BY <1>1, <1>4, <2>1 DEF RInv, GovernedByFirst
  <2>2. CASE m = n
    <3> DEFINE p == obu.param
    <3>1. p \in BlockParams /\ n - 1 = position
      BY <1>1, <1>4, <2>2 DEF BlockParams
    <3>2. /\ IsGoverned(registry, p) <=> \E i \in 1..(n - 1) : Publishes(i, p)
          /\ IsGoverned(registry, p) => GoverningShape(registry, p) = FirstShape(n, p)
      BY <1>1, <3>1 DEF Registered
    <3>3. obu.kind = "block" /\ "kind" \in DOMAIN obu
      <4>1. n \in DOMAIN input
        BY <1>1, InputsAssumption DEF Typed
      <4> QED  BY <1>1, <1>4, <2>2, <4>1, InputsAssumption DEF Typed, IsWireObu
    <3> HIDE DEF obu
    <3>4. CASE IsGoverned(registry, p)
      <4>1. /\ Parse(registry, obu).kind = "block"
            /\ Parse(registry, obu).shape = GoverningShape(registry, p)
        BY <3>3, <3>4 DEF Parse
      <4> QED  BY <1>1, <2>2, <3>2, <3>4, <4>1 DEF obu
    <3>5. CASE ~IsGoverned(registry, p)
      <4>1. Parse(registry, obu).kind = "ungoverned"
        BY <3>3, <3>5 DEF Parse
      <4> QED  BY <1>1, <2>2, <3>2, <3>5, <4>1 DEF obu
    <3> QED  BY <3>4, <3>5
  <2> QED  BY <1>1, <2>1, <2>2
<1> QED  BY <1>1, <1>2, <1>3, <1>4 DEF GovernedByFirst

\* Only Yield changes what the invariant is about.
LEMMA NextRInv == RInv /\ [ReaderNext]_readerVars => RInv'
<1> SUFFICES ASSUME RInv, [ReaderNext]_readerVars PROVE RInv'
  OBVIOUS
<1>1. CASE Yield
  BY <1>1, YieldTyped, YieldRegistered, YieldGoverned DEF RInv
<1>2. ASSUME UNCHANGED <<input, position, registry, yielded>> PROVE RInv'
  <2>1. \A i, p : Publishes(i, p)' <=> Publishes(i, p)
    BY <1>2, ReferenceStays
  <2>2. \A m, p : FirstShape(m, p)' = FirstShape(m, p)
    BY <1>2, ReferenceStays
  <2>3. Typed' /\ PrefixSound' /\ BlockParams' = BlockParams
    BY <1>2 DEF RInv, Typed, PrefixSound, BlockParams
  <2>4. Registered'
    BY <1>2, <2>1, <2>2, <2>3 DEF RInv, Registered
  <2>5. GovernedByFirst'
    BY <1>2, <2>1, <2>2 DEF RInv, GovernedByFirst
  <2> QED  BY <2>3, <2>4, <2>5 DEF RInv
<1>3. CASE End
  BY <1>2, <1>3 DEF End
<1>4. CASE Fail
  BY <1>2, <1>4 DEF Fail, Restored
<1>5. CASE UNCHANGED readerVars
  BY <1>2, <1>5 DEF readerVars
<1> QED  BY <1>1, <1>3, <1>4, <1>5 DEF ReaderNext

\* For every input, a block is decoded exactly if an earlier OBU defines its
\* parameter, and then under the first definition on the wire (next with
\* observe_audio_element, observe_mix_presentation and get).
THEOREM FirstGoverns == ReaderSpec => []GovernedByFirst
<1>1. RInv => GovernedByFirst
  BY DEF RInv
<1> QED  BY <1>1, InitRInv, NextRInv, PTL DEF ReaderSpec

\* A reader that has returned an error stands still and says that it is at the
\* end, for every input (next, fused by finished).
THEOREM Fused == ReaderSpec => FusedAfterError
<1>1. [ReaderNext]_readerVars =>
        [finished => UNCHANGED <<position, registry, yielded, finished>> /\ answer' = "end"]_readerVars
  BY DEF ReaderNext, End, Yield, Fail, AtEnd, readerVars
<1> QED  BY <1>1, PTL DEF ReaderSpec, FusedAfterError
----------------------------------------------------------------------------
(* Rewriting what was read                                                 *)

Blank == [accepted |-> TRUE, registry |-> <<>>, wire |-> <<>>]

\* What the flat writer holds after each of the first m OBUs.
WriteUpTo(s, m, f) ==
  f = [n \in 0..m |-> IF n = 0 THEN Blank ELSE WriteNext(f[n - 1], s[n])]

\* The recursion over the OBUs has a solution: extend that of one OBU less.
LEMMA WriteTableExists ==
  ASSUME NEW s, NEW m \in Nat
  PROVE  \E f : WriteUpTo(s, m, f)
<1> DEFINE Bad == {k \in Nat : ~ \E f : WriteUpTo(s, k, f)}
<1> SUFFICES ASSUME Bad # {} PROVE FALSE
  OBVIOUS
<1>1. PICK k \in Bad : \A l \in Bad : k <= l
  <2>1. Bad \in SUBSET Nat
    OBVIOUS
  <2> HIDE DEF Bad
  <2> QED  BY <2>1, LeastMember
<1>2. k \in Nat /\ ~ \E f : WriteUpTo(s, k, f)
  BY <1>1
<1>3. CASE k = 0
  <2> DEFINE f == [n \in 0..0 |-> Blank]
  <2>1. WriteUpTo(s, 0, f)
    BY DEF WriteUpTo
  <2> QED  BY <1>2, <1>3, <2>1
<1>4. CASE k # 0
  <2>1. k - 1 \in Nat /\ k - 1 \notin Bad
    BY <1>1, <1>2, <1>4
  <2>2. PICK f : WriteUpTo(s, k - 1, f)
    BY <2>1
  <2> DEFINE g == [n \in 0..k |-> IF n = 0 THEN Blank ELSE WriteNext(f[n - 1], s[n])]
  <2>3. \A n \in 0..(k - 1) : f[n] = IF n = 0 THEN Blank ELSE WriteNext(f[n - 1], s[n])
    BY <2>2 DEF WriteUpTo
  <2>4. \A n \in 0..(k - 1) : g[n] = f[n]
    BY <1>2, <2>3
  <2>5. \A n \in 0..k : (IF n = 0 THEN Blank ELSE WriteNext(g[n - 1], s[n]))
                          = (IF n = 0 THEN Blank ELSE WriteNext(f[n - 1], s[n]))
    <3> HIDE DEF g
    <3>1. \A n \in 0..k : n # 0 => n - 1 \in 0..(k - 1)
      BY <1>2
    <3> QED  BY <2>4, <3>1
  <2>6. g = [n \in 0..k |-> IF n = 0 THEN Blank ELSE WriteNext(g[n - 1], s[n])]
    BY <2>5
  <2>7. WriteUpTo(s, k, g)
    BY <2>6 DEF WriteUpTo
  <2> QED  BY <1>2, <2>7
<1> QED  BY <1>3, <1>4

\* Two tables agree as far as their OBUs do.
LEMMA WriteTablesAgree ==
  ASSUME NEW s, NEW t, NEW m \in Nat, NEW k \in Nat, m <= k,
         \A i \in 1..m : s[i] = t[i],
         NEW f, WriteUpTo(s, m, f), NEW g, WriteUpTo(t, k, g)
  PROVE  \A n \in 0..m : f[n] = g[n]
<1> DEFINE Bad == {n \in Nat : n \in 0..m /\ f[n] # g[n]}
<1> SUFFICES ASSUME Bad # {} PROVE FALSE
  OBVIOUS
<1>1. PICK n \in Bad : \A l \in Bad : n <= l
  <2>1. Bad \in SUBSET Nat
    OBVIOUS
  <2> HIDE DEF Bad
  <2> QED  BY <2>1, LeastMember
<1>2. n \in 0..m /\ n \in 0..k /\ f[n] # g[n]
  BY <1>1
<1>3. /\ f[n] = IF n = 0 THEN Blank ELSE WriteNext(f[n - 1], s[n])
      /\ g[n] = IF n = 0 THEN Blank ELSE WriteNext(g[n - 1], t[n])
  BY <1>2 DEF WriteUpTo
<1>4. CASE n = 0
  BY <1>2, <1>3, <1>4
<1>5. CASE n # 0
  <2>1. n - 1 \in 0..m /\ n \in 1..m
    BY <1>2, <1>5
  <2>2. f[n - 1] = g[n - 1] /\ s[n] = t[n]
    BY <1>1, <2>1
  <2> QED  BY <1>2, <1>3, <1>5, <2>2
<1> QED  BY <1>4, <1>5

LEMMA WriteTable ==
  ASSUME NEW S, NEW s \in Seq(S)
  PROVE  \E f : WriteUpTo(s, Len(s), f) /\ WriteParsedSequence(s) = f[Len(s)]
<1> DEFINE f == CHOOSE f : WriteUpTo(s, Len(s), f)
<1>1. WriteUpTo(s, Len(s), f)
  BY WriteTableExists
<1>2. WriteParsedSequence(s) = f[Len(s)]
  BY DEF WriteParsedSequence, WriteUpTo, Blank
<1> HIDE DEF f
<1> QED  BY <1>1, <1>2

\* A sequence with another OBU is written by writing that OBU last.
LEMMA WriteAppend ==
  ASSUME NEW S, NEW s \in Seq(S), NEW obu
  PROVE  WriteParsedSequence(Append(s, obu)) = WriteNext(WriteParsedSequence(s), obu)
<1> DEFINE t == Append(s, obu)
           m == Len(s)
<1>1. m \in Nat /\ t \in Seq(S \cup {obu}) /\ Len(t) = m + 1 /\ t[m + 1] = obu
      /\ \A i \in 1..m : s[i] = t[i]
  <2>1. s \in Seq(S \cup {obu}) /\ obu \in S \cup {obu}
    OBVIOUS
  <2> QED  BY <2>1
<1>2. PICK f : WriteUpTo(s, m, f) /\ WriteParsedSequence(s) = f[m]
  BY WriteTable
<1>3. PICK g : WriteUpTo(t, m + 1, g) /\ WriteParsedSequence(t) = g[m + 1]
  BY <1>1, WriteTable
<1> HIDE DEF t, m
<1>4. f[m] = g[m]
  BY <1>1, <1>2, <1>3, WriteTablesAgree
<1>5. g[m + 1] = WriteNext(g[m], obu)
  BY <1>1, <1>3 DEF WriteUpTo
<1> QED  BY <1>2, <1>3, <1>4, <1>5 DEF t

LEMMA WriteEmpty == WriteParsedSequence(<<>>) = Blank
<1>1. PICK f : WriteUpTo(<<>>, 0, f) /\ WriteParsedSequence(<<>>) = f[0]
  BY WriteTable, EmptySeq
<1> QED  BY <1>1 DEF WriteUpTo

Prefix(n) == [i \in 1..n |-> input[i].obu]

\* The flat writer keeps in step with the reader until it meets an OBU that
\* its own writer refuses: the same registry and the bytes that were read.
InStep ==
  LET written == WriteParsedSequence(yielded)
  IN  IF \A i \in 1..position : ~IsRefused(input[i].obu)
        THEN written = [accepted |-> TRUE, registry |-> registry, wire |-> Prefix(position)]
        ELSE written = [accepted |-> FALSE, registry |-> written.registry, wire |-> written.wire]
LEMMA InitInStep == ReaderInit => InStep
<1> SUFFICES ASSUME ReaderInit PROVE InStep
  OBVIOUS
<1>1. yielded = <<>> /\ position = 0 /\ registry = <<>>
  BY DEF ReaderInit, Start
<1>2. Prefix(0) = <<>>
  BY DEF Prefix
<1> QED  BY <1>1, <1>2, WriteEmpty DEF InStep, Blank

\* The writer takes what the reader made of an OBU unless the OBU itself is
\* refused: a governed block has the shape it needs, any other is opaque.
LEMMA ParsedIsWritten ==
  ASSUME input \in Inputs, NEW n \in 1..Len(input), NEW r
  PROVE  LET obu == input[n].obu
         IN  /\ CanWrite(r, Parse(r, obu)) <=> ~IsRefused(obu)
             /\ Observe(r, Parse(r, obu)) = Observe(r, obu)
             /\ ~IsRefused(obu) => OnWire(Parse(r, obu)) = obu
<1> DEFINE obu == input[n].obu
<1>1. IsWireObu(obu)
  <2>1. n \in DOMAIN input
    BY InputsAssumption
  <2> QED  BY <2>1, InputsAssumption
<1> HIDE DEF obu
<1>2. CASE obu.kind # "block"
  <2>1. Parse(r, obu) = obu
    BY <1>2 DEF Parse
  <2>2. obu.kind # "ungoverned"
    BY <1>1 DEF IsWireObu
  <2> QED  BY <1>2, <2>1, <2>2 DEF CanWrite, OnWire, obu
<1>3. CASE obu.kind = "block"
  <2> DEFINE model == Parse(r, obu)
  <2>1. /\ {"kind", "param", "body"} \subseteq DOMAIN obu
        /\ ~IsRefused(obu) => obu = BlockObu(obu.param, obu.body)
    BY <1>1, <1>3 DEF IsWireObu
  <2>2. /\ model.kind \in {"block", "ungoverned"}
        /\ model.param = obu.param /\ model.body = obu.body
        /\ IsRefused(model) <=> IsRefused(obu)
        /\ model.kind = "block" => /\ IsGoverned(r, obu.param)
                                   /\ model.shape = GoverningShape(r, obu.param)
    <3>1. CASE IsGoverned(r, obu.param)
      <4>1. model = [field \in DOMAIN obu \cup {"shape"} |->
                      IF field = "shape" THEN GoverningShape(r, obu.param) ELSE obu[field]]
        BY <1>3, <3>1 DEF Parse
      <4>2. DOMAIN model = DOMAIN obu \cup {"shape"}
        BY <4>1
      <4>3. /\ model.kind = "block" /\ model.param = obu.param /\ model.body = obu.body
            /\ model.shape = GoverningShape(r, obu.param)
        BY <1>3, <2>1, <4>1
      <4> HIDE DEF model
      <4> QED  BY <3>1, <4>2, <4>3 DEF IsRefused
    <3>2. CASE ~IsGoverned(r, obu.param)
      <4>1. model = [obu EXCEPT !.kind = "ungoverned"]
        BY <1>3, <3>2 DEF Parse
      <4>2. DOMAIN model = DOMAIN obu
        BY <4>1
      <4>3. model.kind = "ungoverned" /\ model.param = obu.param /\ model.body = obu.body
        BY <2>1, <4>1
      <4> HIDE DEF model
      <4> QED  BY <4>2, <4>3 DEF IsRefused
    <3> QED  BY <3>1, <3>2
  <2> HIDE DEF model
  <2>3. CanWrite(r, model) <=> ~IsRefused(obu)
    BY <2>2 DEF CanWrite
  <2>4. Observe(r, model) = r /\ Observe(r, obu) = r
    BY <1>3, <2>2 DEF Observe
  <2>5. ~IsRefused(obu) => OnWire(model) = obu
    BY <2>1, <2>2 DEF OnWire
  <2> QED  BY <2>3, <2>4, <2>5 DEF model, obu
<1> QED  BY <1>2, <1>3

LEMMA YieldInStep ==
  ASSUME RInv, InStep, Yield
  PROVE  InStep'
<1> DEFINE n       == position + 1
           obu     == input[n].obu
           new     == Parse(registry, obu)
           written == WriteParsedSequence(yielded)
<1>1. Typed /\ PrefixSound
  BY DEF RInv
<1>2. /\ input \in Inputs /\ input' = input /\ position \in Nat /\ position' = n
      /\ n \in 1..Len(input) /\ yielded' = Append(yielded, new)
      /\ registry' = Observe(registry, obu)
  BY <1>1, YieldTyped, InputsAssumption DEF Typed, Yield
<1>3. WriteParsedSequence(yielded') = WriteNext(written, new)
  BY <1>1, <1>2, WriteAppend DEF Typed
<1>4. /\ CanWrite(registry, new) <=> ~IsRefused(obu)
      /\ Observe(registry, new) = registry'
      /\ ~IsRefused(obu) => OnWire(new) = obu
  BY <1>2, ParsedIsWritten
<1>5. (\A i \in 1..n : ~IsRefused(input[i].obu)) <=>
        (\A i \in 1..position : ~IsRefused(input[i].obu)) /\ ~IsRefused(obu)
  <2>1. \A i : i \in 1..n <=> i \in 1..position \/ i = n
    BY <1>2
  <2> QED  BY <2>1
<1>6. Append(Prefix(position), obu) = Prefix(n)
  <2>1. /\ Prefix(position) \in Seq({input[i].obu : i \in 1..n}) /\ Len(Prefix(position)) = position
        /\ \A i \in 1..position : Prefix(position)[i] = input[i].obu
    BY <1>2 DEF Prefix
  <2>2. /\ Prefix(n) \in Seq({input[i].obu : i \in 1..n}) /\ Len(Prefix(n)) = n
        /\ \A i \in 1..n : Prefix(n)[i] = input[i].obu
    BY <1>2 DEF Prefix
  <2>3. obu \in {input[i].obu : i \in 1..n}
    BY <1>2
  <2> HIDE DEF obu
  <2>4. /\ Append(Prefix(position), obu) \in Seq({input[i].obu : i \in 1..n})
        /\ Len(Append(Prefix(position), obu)) = n
        /\ \A i \in 1..position : Append(Prefix(position), obu)[i] = Prefix(position)[i]
        /\ Append(Prefix(position), obu)[n] = obu
    BY <2>1, <2>3
  <2>5. \A i \in 1..n : Append(Prefix(position), obu)[i] = Prefix(n)[i]
    <3>1. \A i \in 1..n : i \in 1..position \/ i = n
      BY <1>2
    <3>2. \A i \in 1..position : i \in 1..n
      BY <1>2
    <3> QED  BY <2>1, <2>2, <2>4, <3>1, <3>2 DEF obu
  <2> QED  BY <2>2, <2>4, <2>5, SeqEqual
<1> HIDE DEF n, obu, new, written
<1>7. CASE \A i \in 1..position : ~IsRefused(input[i].obu)
  <2>1. written = [accepted |-> TRUE, registry |-> registry, wire |-> Prefix(position)]
    BY <1>7 DEF InStep, written
  <2>2. CASE IsRefused(obu)
    <3>1. WriteNext(written, new) =
            [accepted |-> FALSE, registry |-> registry, wire |-> Prefix(position)]
      BY <1>4, <2>1, <2>2 DEF WriteNext
    <3> QED  BY <1>2, <1>3, <1>5, <2>2, <3>1 DEF InStep
  <2>3. CASE ~IsRefused(obu)
    <3>1. WriteNext(written, new) =
            [accepted |-> TRUE, registry |-> registry', wire |-> Prefix(n)]
      BY <1>4, <1>6, <2>1, <2>3 DEF WriteNext
    <3>2. Prefix(position)' = Prefix(n)
      BY <1>2 DEF Prefix
    <3> QED  BY <1>2, <1>3, <1>5, <1>7, <2>3, <3>1, <3>2 DEF InStep
  <2> QED  BY <2>2, <2>3
<1>8. CASE ~ \A i \in 1..position : ~IsRefused(input[i].obu)
  <2>1. written = [accepted |-> FALSE, registry |-> written.registry, wire |-> written.wire]
    BY <1>8 DEF InStep, written
  <2>2. PICK r, w : written = [accepted |-> FALSE, registry |-> r, wire |-> w]
    <3> HIDE DEF written
    <3> QED  BY <2>1
  <2>3. WriteNext(written, new) = [accepted |-> FALSE, registry |-> r, wire |-> w]
    BY <2>2 DEF WriteNext
  <2>4. WriteParsedSequence(yielded') = [accepted |-> FALSE, registry |-> r, wire |-> w]
    BY <1>3, <2>3
  <2> QED  BY <1>2, <1>5, <1>8, <2>4 DEF InStep
<1> QED  BY <1>7, <1>8

\* At any moment, for every input, write_parsed_sequence takes what next has
\* returned, unless an OBU among it is refused on its own account, and gives
\* back the OBUs before byte_position.
THEOREM Rewrites == ReaderSpec => []RewritesPrefix
<1>1. RInv /\ InStep /\ [ReaderNext]_readerVars => InStep'
  <2> SUFFICES ASSUME RInv, InStep, [ReaderNext]_readerVars PROVE InStep'
    OBVIOUS
  <2>1. CASE Yield
    BY <2>1, YieldInStep
  <2>2. ASSUME UNCHANGED <<input, position, registry, yielded>> PROVE InStep'
    BY <2>2 DEF InStep, Prefix
  <2>3. CASE End \/ Fail \/ UNCHANGED readerVars
    BY <2>2, <2>3 DEF End, Fail, Restored, readerVars
  <2> QED  BY <2>1, <2>3 DEF ReaderNext
<1>2. RInv /\ InStep => RewritesPrefix
  <2> SUFFICES ASSUME RInv, InStep PROVE RewritesPrefix
    OBVIOUS
  <2> DEFINE written == WriteParsedSequence(yielded)
             clean   == \A i \in 1..position : ~IsRefused(input[i].obu)
  <2>1. (\A i \in 1..position : input[i].fault = "none") /\ Len(yielded) = position
    BY DEF RInv, Typed, PrefixSound
  <2>2. clean => written.accepted = TRUE /\ written.wire = Prefix(position)
    BY DEF InStep
  <2>3. ~clean => written.accepted = FALSE
    <3>1. ~clean => \E r, w : written = [accepted |-> FALSE, registry |-> r, wire |-> w]
      <4>1. ~clean => written = [accepted |-> FALSE, registry |-> written.registry,
                                 wire |-> written.wire]
        BY DEF InStep
      <4> HIDE DEF written, clean
      <4> QED  BY <4>1
    <3> HIDE DEF written, clean
    <3> QED  BY <3>1
  <2> QED  BY <2>1, <2>2, <2>3 DEF Prefix, RewritesPrefix
<1> QED  BY <1>1, <1>2, InitRInv, InitInStep, NextRInv, PTL DEF ReaderSpec
----------------------------------------------------------------------------
(* What validate finds                                                     *)

\* What has been yielded is the input, but for the kind and shape of blocks.
Modelled ==
  \A n \in 1..position :
    IF input[n].obu.kind = "block"
      THEN /\ yielded[n].kind \in {"block", "ungoverned"}
           /\ yielded[n].param = input[n].obu.param
      ELSE yielded[n] = input[n].obu

LEMMA ParseModels ==
  ASSUME NEW obu, IsWireObu(obu), NEW r
  PROVE  IF obu.kind = "block"
           THEN Parse(r, obu).kind \in {"block", "ungoverned"} /\ Parse(r, obu).param = obu.param
           ELSE Parse(r, obu) = obu
<1>1. CASE obu.kind # "block"
  BY <1>1 DEF Parse
<1>2. CASE obu.kind = "block" /\ IsGoverned(r, obu.param)
  <2>1. {"kind", "param"} \subseteq DOMAIN obu
    BY <1>2 DEF IsWireObu
  <2>2. Parse(r, obu) =
          [field \in DOMAIN obu \cup {"shape"} |->
             IF field = "shape" THEN GoverningShape(r, obu.param) ELSE obu[field]]
    BY <1>2 DEF Parse
  <2> QED  BY <1>2, <2>1, <2>2
<1>3. CASE obu.kind = "block" /\ ~IsGoverned(r, obu.param)
  <2>1. {"kind", "param"} \subseteq DOMAIN obu
    BY <1>3 DEF IsWireObu
  <2>2. Parse(r, obu) = [obu EXCEPT !.kind = "ungoverned"]
    BY <1>3 DEF Parse
  <2> QED  BY <1>3, <2>1, <2>2
<1> QED  BY <1>1, <1>2, <1>3

LEMMA NextModelled == RInv /\ Modelled /\ [ReaderNext]_readerVars => Modelled'
<1> SUFFICES ASSUME RInv, Modelled, [ReaderNext]_readerVars PROVE Modelled'
  OBVIOUS
<1>1. CASE Yield
  <2> DEFINE n   == position + 1
             obu == input[n].obu
  <2>1. Typed /\ PrefixSound
    BY DEF RInv
  <2>2. /\ input \in Inputs /\ input' = input /\ position \in Nat /\ position' = n
        /\ n \in 1..Len(input)
        /\ \A i \in 1..position : yielded'[i] = yielded[i]
        /\ yielded'[n] = Parse(registry, obu)
    BY <1>1, <2>1, YieldTyped, InputsAssumption DEF Typed, Yield
  <2>3. IsWireObu(obu)
    <3>1. n \in DOMAIN input
      BY <2>2, InputsAssumption
    <3> QED  BY <2>2, <3>1, InputsAssumption
  <2>4. IF obu.kind = "block"
          THEN yielded'[n].kind \in {"block", "ungoverned"} /\ yielded'[n].param = obu.param
          ELSE yielded'[n] = obu
    <3> HIDE DEF obu
    <3> QED  BY <2>2, <2>3, ParseModels
  <2>5. \A i \in 1..n : i \in 1..position \/ i = n
    BY <2>2
  <2> HIDE DEF n
  <2> QED  BY <2>2, <2>4, <2>5 DEF Modelled, obu
<1>2. CASE End \/ Fail \/ UNCHANGED readerVars
  BY <1>2 DEF End, Fail, Restored, readerVars, Modelled
<1> QED  BY <1>1, <1>2 DEF ReaderNext

\* An id that an OBU publishes is carried by the sequence.
LEMMA PublishedIsCarried ==
  ASSUME NEW S, NEW obus \in Seq(S), NEW T, NEW field,
         \A j \in DOMAIN obus : PublishedIds(field, obus[j]) \in Seq(T),
         NEW i \in DOMAIN obus, NEW k \in DOMAIN PublishedIds(field, obus[i])
  PROVE  Carries(field, obus, PublishedIds(field, obus[i])[k])
<1> DEFINE R     == [id : T, index : Nat]
           ids   == [j \in DOMAIN obus |-> PublishedIds(field, obus[j])]
           lists == [j \in DOMAIN obus |-> [l \in DOMAIN ids[j] |-> [id |-> ids[j][l], index |-> j]]]
<1>1. ASSUME NEW j \in DOMAIN obus
      PROVE  lists[j] \in Seq(R)
  <2>1. j \in Nat /\ ids[j] \in Seq(T)
    BY SeqMember
  <2> HIDE DEF ids
  <2>2. \A l \in DOMAIN ids[j] : ids[j][l] \in T
    BY <2>1, SeqMember
  <2>3. lists[j] = [l \in DOMAIN ids[j] |-> [id |-> ids[j][l], index |-> j]]
    OBVIOUS
  <2>4. \A l \in DOMAIN ids[j] : lists[j][l] \in R
    BY <2>1, <2>2, <2>3
  <2> HIDE DEF lists, R
  <2>5. lists[j] = [l \in DOMAIN ids[j] |-> lists[j][l]]
    BY <2>3
  <2>6. ListOf(R, ids[j], lists[j])
    BY <2>1, <2>4, <2>5, ListTyped
  <2> QED  BY <2>6 DEF ListOf
<1>2. lists = [j \in DOMAIN obus |-> lists[j]]
  OBVIOUS
<1>3. Seen(field, obus) = FlattenSeq(lists)
  BY DEF Seen
<1>4. /\ k \in DOMAIN lists[i]
      /\ lists[i][k].id = PublishedIds(field, obus[i])[k]
  OBVIOUS
<1> HIDE DEF lists, R
<1>5. lists \in Seq(Seq(R)) /\ DOMAIN lists = DOMAIN obus
  <2>1. ListOf(Seq(R), obus, lists)
    BY <1>1, <1>2, ListTyped
  <2> QED  BY <2>1 DEF ListOf
<1>6. PICK m \in DOMAIN FlattenSeq(lists) : FlattenSeq(lists)[m] = lists[i][k]
  BY <1>4, <1>5, FlattenMembers
<1> QED  BY <1>3, <1>4, <1>6 DEF Carries

\* What OBU n publishes to validate is what it published to the reader.
LEMMA ParametersPublished ==
  ASSUME RInv, Modelled, NEW n \in 1..position
  PROVE  LET ids == PublishedIds("parameter_id", yielded[n])
         IN  /\ ids \in Seq(ParamIds)
             /\ \A p : Publishes(n, p) => \E k \in DOMAIN ids : ids[k] = p
<1> DEFINE obu   == input[n].obu
           added == Observe(<<>>, yielded[n])
           d     == OwnerDefinitions(n)
<1>1. input \in Inputs /\ n \in 1..Len(input)
  BY InputsAssumption DEF RInv, Typed
<1>2. PublishedIds("parameter_id", yielded[n]) = [i \in DOMAIN added |-> added[i].param]
  BY DEF PublishedIds
<1>3. d \in Seq(Definition) /\ <<>> \in Seq(Definition) /\ Observe(<<>>, obu) = <<>> \o d
  BY <1>1, ObserveAppends, EmptySeq
<1>4. CASE obu.kind = "block"
  <2>1. yielded[n].kind \in {"block", "ungoverned"}
    BY <1>4 DEF Modelled
  <2>2. added = <<>>
    BY <2>1 DEF Observe
  <2>3. d = <<>>
    BY <1>4 DEF OwnerDefinitions
  <2>4. PublishedIds("parameter_id", yielded[n]) = <<>>
    BY <1>2, <2>2
  <2>5. <<>> \in Seq(ParamIds) /\ \A p : ~Publishes(n, p)
    <3>1. DOMAIN <<>> = {} /\ <<>> \in Seq(ParamIds)
      OBVIOUS
    <3> QED  BY <2>3, <3>1 DEF Publishes
  <2> QED  BY <2>4, <2>5
<1>5. CASE obu.kind # "block"
  <2>1. yielded[n] = obu
    BY <1>5 DEF Modelled
  <2>2. added = d
    <3>1. <<>> \o d = d
      BY <1>3, ConcatEmptySeq
    <3> QED  BY <1>3, <2>1, <3>1
  <2>3. PublishedIds("parameter_id", yielded[n]) = [i \in DOMAIN d |-> d[i].param]
    BY <1>2, <2>2
  <2>4. [i \in DOMAIN d |-> d[i].param] \in Seq(ParamIds)
    <3>1. \A i \in DOMAIN d : d[i].param \in ParamIds
      <4> HIDE DEF d
      <4>1. \A i \in DOMAIN d : d[i] \in Definition
        BY <1>3, SeqMember
      <4> QED  BY <4>1 DEF Definition
    <3>2. DOMAIN d = 1..Len(d) /\ Len(d) \in Nat
      BY <1>3
    <3> HIDE DEF d
    <3> QED  BY <3>1, <3>2
  <2>5. \A p : Publishes(n, p) => \E k \in DOMAIN d : d[k].param = p
    BY DEF Publishes
  <2> HIDE DEF d
  <2> QED  BY <2>3, <2>4, <2>5
<1> QED  BY <1>4, <1>5

\* Whatever has been read, the blocks validate reports as without a definition
\* are the blocks whose parameter no earlier OBU of the input defines, and each
\* is reported with its parameter (ParsedSequence::validate against the registry
\* of SequenceReader::next).
THEOREM DanglingUndefinedBefore == ReaderSpec => []DanglingAreUndefinedBefore
<1>1. RInv /\ Modelled => DanglingAreUndefinedBefore
  <2> SUFFICES ASSUME RInv, Modelled PROVE DanglingAreUndefinedBefore
    OBVIOUS
  <2> DEFINE report(n) == [index |-> n, field |-> "parameter_id", id |-> input[n].obu.param]
             found     == {f \in DanglingReferences(yielded) : f.field = "parameter_id"}
             undefined == {n \in DOMAIN yielded : UndefinedBefore(n)}
  <2>1. /\ DOMAIN yielded = 1..position /\ position \in Nat
        /\ yielded \in Seq({yielded[i] : i \in DOMAIN yielded})
    BY InputsAssumption DEF RInv, Typed
  <2>2. ASSUME NEW n \in 1..position, yielded[n].kind = "block"
        PROVE  Carries("parameter_id", yielded, yielded[n].param)
    <3> DEFINE obu == input[n].obu
    <3>1. obu.kind = "block"
      <4>1. n \in DOMAIN input
        BY InputsAssumption DEF RInv, Typed
      <4> QED  BY <2>2 DEF Modelled
    <3>2. yielded[n].param = obu.param
      BY <3>1 DEF Modelled
    <3>3. \E i \in 1..(n - 1) : Publishes(i, obu.param)
      BY <2>1, <2>2, <3>1 DEF RInv, GovernedByFirst
    <3> HIDE DEF obu
    <3>4. PICK i \in 1..(n - 1) : Publishes(i, obu.param)
      BY <3>3
    <3>5. i \in 1..position
      BY <2>1, <3>4
    <3> DEFINE ids == PublishedIds("parameter_id", yielded[i])
    <3>6. PICK k \in DOMAIN ids : ids[k] = obu.param
      BY <3>4, <3>5, ParametersPublished
    <3>7. \A j \in DOMAIN yielded : PublishedIds("parameter_id", yielded[j]) \in Seq(ParamIds)
      BY <2>1, ParametersPublished
    <3>8. Carries("parameter_id", yielded, PublishedIds("parameter_id", yielded[i])[k])
      BY <2>1, <3>5, <3>6, <3>7, PublishedIsCarried
    <3> QED  BY <3>2, <3>6, <3>8
  <2>3. DOMAIN yielded \subseteq DOMAIN input
    BY <2>1, InputsAssumption DEF RInv, Typed
  \* What the reader could not decode is what no OBU before it defines.
  <2>4. ASSUME NEW n \in DOMAIN yielded
        PROVE  yielded[n].kind = "ungoverned" <=> UndefinedBefore(n)
    <3> DEFINE obu == input[n].obu
    <3>1. n \in 1..position /\ n \in DOMAIN input
      BY <2>1, <2>3
    <3>2. CASE obu.kind = "block"
      <4>1. yielded[n].kind = "ungoverned" <=> ~\E i \in 1..(n - 1) : Publishes(i, obu.param)
        BY <3>2 DEF RInv, GovernedByFirst
      <4> QED  BY <3>2, <4>1 DEF UndefinedBefore
    <3>3. CASE obu.kind # "block"
      <4>1. yielded[n] = obu
        BY <3>1, <3>3 DEF Modelled
      <4>2. obu.kind # "ungoverned"
        BY <3>1, InputsAssumption DEF RInv, Typed, IsWireObu
      <4> QED  BY <3>3, <4>1, <4>2 DEF UndefinedBefore
    <3> QED  BY <3>2, <3>3
  <2>5. ASSUME NEW n \in undefined
        PROVE  report(n) \in found
    <3>1. n \in 1..position /\ input[n].obu.kind = "block" /\ yielded[n].kind = "ungoverned"
      BY <2>1, <2>4, <2>5 DEF UndefinedBefore
    <3>2. yielded[n].param = input[n].obu.param
      BY <3>1 DEF Modelled
    <3>3. DanglingIn(yielded, n) = {report(n)}
      BY <3>1, <3>2 DEF DanglingIn
    <3>4. report(n) \in DanglingReferences(yielded)
      BY <2>5, <3>3 DEF DanglingReferences
    <3> QED  BY <3>4
  <2>6. ASSUME NEW f \in found
        PROVE  \E n \in undefined : f = report(n)
    <3>1. PICK i \in DOMAIN yielded : f \in DanglingIn(yielded, i)
      BY <2>6 DEF DanglingReferences
    <3>2. f.field = "parameter_id"
      BY <2>6
    <3> DEFINE obu == yielded[i]
    <3>3. CASE obu.kind = "ungoverned"
      <4>1. i \in undefined /\ i \in 1..position /\ input[i].obu.kind = "block"
        BY <2>1, <2>4, <3>3 DEF UndefinedBefore
      <4>2. obu.param = input[i].obu.param
        BY <4>1 DEF Modelled
      <4>3. f = report(i)
        BY <3>1, <3>3, <4>2 DEF DanglingIn
      <4> QED  BY <4>1, <4>3
    <3>4. CASE obu.kind = "block"
      <4>1. Carries("parameter_id", yielded, obu.param)
        BY <2>1, <2>2, <3>4
      <4> QED  BY <3>1, <3>4, <4>1 DEF DanglingIn
    <3>5. CASE obu.kind = "element"
      <4>1. f.field = "codec_config_id"
        BY <3>1, <3>5 DEF DanglingIn
      <4> QED  BY <3>2, <4>1
    <3>6. CASE obu.kind = "presentation"
      <4>1. f.field = "audio_element_id"
        BY <3>1, <3>6 DEF DanglingIn
      <4> QED  BY <3>2, <4>1
    <3>7. CASE obu.kind = "frame"
      <4>1. f.field = "audio_substream_id"
        BY <3>1, <3>7 DEF DanglingIn
      <4> QED  BY <3>2, <4>1
    <3>8. CASE obu.kind \notin {"ungoverned", "block", "element", "presentation", "frame"}
      BY <3>1, <3>8 DEF DanglingIn
    <3> QED  BY <3>3, <3>4, <3>5, <3>6, <3>7, <3>8
  <2> HIDE DEF found, undefined, report
  <2>7. found = {report(n) : n \in undefined}
    BY <2>5, <2>6
  <2> QED  BY <2>7 DEF DanglingAreUndefinedBefore, found, undefined, report
<1>2. ReaderInit => Modelled
  BY DEF ReaderInit, Start, Modelled
<1> QED  BY <1>1, <1>2, InitRInv, NextRInv, NextModelled, PTL DEF ReaderSpec

----------------------------------------------------------------------------
(* Temporal units                                                          *)

\* The table that temporal_unit_ranges fills.
ScanTable(obus, uses, m, f) ==
  f = [n \in 0..m |-> IF n = 0 THEN NothingScanned ELSE ScanNext(f[n - 1], obus, n, uses)]

LEMMA ScanTableExists ==
  ASSUME NEW obus, NEW uses, NEW m \in Nat
  PROVE  \E f : ScanTable(obus, uses, m, f)
<1> DEFINE S == {k \in Nat : \E f : ScanTable(obus, uses, k, f)}
<1>1. 0 \in S
  <2> DEFINE f == [n \in 0..0 |-> NothingScanned]
  <2>1. ScanTable(obus, uses, 0, f)
    BY DEF ScanTable
  <2> QED  BY <2>1
<1>2. ASSUME NEW k \in Nat, k \in S PROVE k + 1 \in S
  <2>1. PICK f : ScanTable(obus, uses, k, f)
    BY <1>2
  <2> DEFINE g == [n \in 0..(k + 1) |->
                     IF n = 0 THEN NothingScanned ELSE ScanNext(f[n - 1], obus, n, uses)]
  <2>2. \A n \in 0..k : g[n] = f[n]
    BY <2>1 DEF ScanTable
  <2>3. \A n \in 0..(k + 1) :
          (IF n = 0 THEN NothingScanned ELSE ScanNext(g[n - 1], obus, n, uses))
            = (IF n = 0 THEN NothingScanned ELSE ScanNext(f[n - 1], obus, n, uses))
    <3> HIDE DEF g
    <3>1. \A n \in 0..(k + 1) : n # 0 => n - 1 \in 0..k
      OBVIOUS
    <3> QED  BY <2>2, <3>1
  <2>4. g = [n \in 0..(k + 1) |->
               IF n = 0 THEN NothingScanned ELSE ScanNext(g[n - 1], obus, n, uses)]
    BY <2>3
  <2>5. ScanTable(obus, uses, k + 1, g)
    BY <2>4 DEF ScanTable
  <2> QED  BY <2>5
<1> HIDE DEF S
<1>3. m \in S
  BY <1>1, <1>2, NaturalSteps
<1> QED  BY <1>3 DEF S

IsFrame(obus, k) == obus[k].kind = "frame"

\* ids and sawFrame describe the frames of the open unit.
HoldsFrames(obus, n, scan) ==
  /\ \A s : s \in scan.ids <=>
       \E k \in 1..n : scan.start <= k /\ IsFrame(obus, k) /\ obus[k].substream = s
  /\ scan.sawFrame \in BOOLEAN
  /\ scan.sawFrame <=> \E k \in 1..n : scan.start <= k /\ IsFrame(obus, k)

\* The closed units follow one another up to the open one.
Follow(ranges, start) ==
  /\ ranges \in Seq(Nat \X Nat)
  /\ \A r \in 1..Len(ranges) :
       /\ ranges[r][1] < ranges[r][2]
       /\ ranges[r][2] = IF r = Len(ranges) THEN start ELSE ranges[r + 1][1]

FirstBegin(ranges, start) == IF ranges = <<>> THEN start ELSE ranges[1][1]

\* The first unit begins at the first temporal OBU.
OpensFirst(obus, b) ==
  /\ b \in Nat \ {0} /\ obus[b].kind \in Temporal
  /\ \A k \in 1..(b - 1) : obus[k].kind \notin Temporal

Begins(ranges, start, b) == b = start \/ \E r \in 1..Len(ranges) : b = ranges[r][1]

\* With delimiters, they and the first temporal OBU begin the units.
AtDelimiters(obus, n, ranges, start) ==
  \A b : Begins(ranges, start, b) <=>
           \/ b = FirstBegin(ranges, start)
           \/ b \in 1..n /\ obus[b].kind = "delimiter"

\* Without, each unit lasts until one of its frames makes the next OBU too much.
ClosedInTime(obus, ranges) ==
  \A r \in 1..Len(ranges) : \A m \in (ranges[r][1] + 1)..ranges[r][2] :
    StartsAnother(obus, m, ranges[r][1]) <=> m = ranges[r][2]

OpenSoFar(obus, n, start) == \A m \in (start + 1)..n : ~StartsAnother(obus, m, start)

\* What the loop knows after n OBUs.
ScanHeld(obus, uses, n, scan) ==
  /\ scan.start \in 0..n
  /\ HoldsFrames(obus, n, scan)
  /\ Follow(scan.ranges, scan.start)
  /\ scan.start = 0 => /\ scan.ranges = <<>>
                       /\ \A k \in 1..n : obus[k].kind \notin Temporal
  /\ scan.start # 0 =>
       /\ OpensFirst(obus, FirstBegin(scan.ranges, scan.start))
       /\ uses => AtDelimiters(obus, n, scan.ranges, scan.start)
       /\ ~uses => /\ ClosedInTime(obus, scan.ranges)
                   /\ OpenSoFar(obus, n, scan.start)

LEMMA NothingHeld ==
  ASSUME NEW obus, NEW uses PROVE ScanHeld(obus, uses, 0, NothingScanned)
BY DEF NothingScanned, ScanHeld, HoldsFrames, Follow

\* Without delimiters the scan ends a unit exactly where one has to end.
LEMMA BoundaryIsDue ==
  ASSUME NEW obus, NEW n \in Nat, NEW scan, ScanHeld(obus, FALSE, n, scan),
         obus[n + 1].kind # "delimiter", scan.start # 0
  PROVE  Boundary(obus[n + 1], FALSE, scan) <=> StartsAnother(obus, n + 1, scan.start)
<1>1. scan.start \in 1..n /\ HoldsFrames(obus, n, scan)
  BY DEF ScanHeld
<1>2. StartsAnother(obus, n + 1, scan.start) <=>
        \E i \in scan.start..n :
          /\ IsFrame(obus, i)
          /\ \/ obus[n + 1].kind \in {"block", "ungoverned"}
             \/ obus[n + 1].kind = "frame" /\ obus[n + 1].substream = obus[i].substream
  BY <1>1 DEF StartsAnother, IsFrame
<1>3. CASE obus[n + 1].kind \in {"block", "ungoverned"}
  <2>1. Boundary(obus[n + 1], FALSE, scan) <=> scan.sawFrame
    BY <1>1, <1>3 DEF Boundary, HoldsFrames
  <2>2. scan.sawFrame <=> \E i \in scan.start..n : IsFrame(obus, i)
    BY <1>1 DEF HoldsFrames
  <2> QED  BY <1>2, <1>3, <2>1, <2>2
<1>4. CASE obus[n + 1].kind = "frame"
  <2>1. Boundary(obus[n + 1], FALSE, scan) <=> obus[n + 1].substream \in scan.ids
    BY <1>4 DEF Boundary
  <2>2. obus[n + 1].substream \in scan.ids <=>
          \E i \in scan.start..n : IsFrame(obus, i) /\ obus[i].substream = obus[n + 1].substream
    BY <1>1 DEF HoldsFrames
  <2> QED  BY <1>2, <1>4, <2>1, <2>2
<1>5. CASE obus[n + 1].kind \notin {"block", "ungoverned", "frame"}
  <2>1. ~ Boundary(obus[n + 1], FALSE, scan)
    BY <1>5 DEF Boundary
  <2> QED  BY <1>2, <1>5, <2>1
<1> QED  BY <1>3, <1>4, <1>5

\* An OBU before any temporal one changes nothing; the first temporal one opens a unit.
LEMMA ScanBefore ==
  ASSUME NEW obus, NEW uses \in BOOLEAN, NEW n \in Nat, NEW scan, ScanHeld(obus, uses, n, scan),
         scan.start = 0
  PROVE  ScanHeld(obus, uses, n + 1, ScanNext(scan, obus, n + 1, uses))
<1> DEFINE next == ScanNext(scan, obus, n + 1, uses)
<1>1. /\ scan.ranges = <<>> /\ \A k \in 1..n : obus[k].kind \notin Temporal
      /\ \A s : s \notin scan.ids
      /\ scan.sawFrame = FALSE
  BY DEF ScanHeld, HoldsFrames, IsFrame, Temporal
<1>2. ~ Boundary(obus[n + 1], uses, scan)
  BY <1>1 DEF Boundary
<1>3. /\ next.ranges = <<>>
      /\ next.start = IF obus[n + 1].kind \in Temporal THEN n + 1 ELSE 0
      /\ \A s : s \in next.ids <=> IsFrame(obus, n + 1) /\ s = obus[n + 1].substream
      /\ next.sawFrame \in BOOLEAN
      /\ next.sawFrame <=> IsFrame(obus, n + 1)
  BY <1>1, <1>2 DEF ScanNext, IsFrame
<1> HIDE DEF next
<1>4. HoldsFrames(obus, n + 1, next)
  <2>1. IsFrame(obus, n + 1) => next.start = n + 1
    BY <1>3 DEF IsFrame, Temporal
  <2>2. \A k \in 1..n : ~ IsFrame(obus, k)
    BY <1>1 DEF IsFrame, Temporal
  <2>3. \A k \in 1..(n + 1) : k \in 1..n \/ k = n + 1
    OBVIOUS
  <2>4. n + 1 \in 1..(n + 1) /\ n + 1 <= n + 1
    OBVIOUS
  <2> QED  BY <1>3, <2>1, <2>2, <2>3, <2>4 DEF HoldsFrames
<1>5. Follow(next.ranges, next.start) /\ next.start \in 0..(n + 1)
  BY <1>3 DEF Follow
<1>6. ASSUME obus[n + 1].kind \notin Temporal PROVE ScanHeld(obus, uses, n + 1, next)
  <2>1. \A k \in 1..(n + 1) : obus[k].kind \notin Temporal
    BY <1>1, <1>6
  <2> QED  BY <1>3, <1>4, <1>5, <1>6, <2>1 DEF ScanHeld
<1>7. ASSUME obus[n + 1].kind \in Temporal PROVE ScanHeld(obus, uses, n + 1, next)
  <2>1. next.start = n + 1 /\ FirstBegin(next.ranges, next.start) = n + 1
    BY <1>3, <1>7 DEF FirstBegin
  <2>2. OpensFirst(obus, n + 1)
    BY <1>1, <1>7 DEF OpensFirst
  <2>3. \A b \in 1..(n + 1) : obus[b].kind = "delimiter" => b = n + 1
    BY <1>1 DEF Temporal
  <2>4. AtDelimiters(obus, n + 1, next.ranges, next.start)
    BY <1>3, <2>1, <2>3 DEF AtDelimiters, Begins
  <2>5. ClosedInTime(obus, next.ranges) /\ OpenSoFar(obus, n + 1, next.start)
    BY <1>3, <2>1 DEF ClosedInTime, OpenSoFar
  <2> QED  BY <1>4, <1>5, <2>1, <2>2, <2>4, <2>5 DEF ScanHeld
<1> QED  BY <1>6, <1>7 DEF next

\* An OBU that does not end the open unit joins it.
LEMMA ScanJoins ==
  ASSUME NEW obus, NEW uses \in BOOLEAN, NEW n \in Nat, NEW scan, ScanHeld(obus, uses, n, scan),
         uses \/ obus[n + 1].kind # "delimiter",
         scan.start # 0, ~ Boundary(obus[n + 1], uses, scan)
  PROVE  ScanHeld(obus, uses, n + 1, ScanNext(scan, obus, n + 1, uses))
<1> DEFINE next == ScanNext(scan, obus, n + 1, uses)
<1>1. /\ scan.start \in 1..n /\ HoldsFrames(obus, n, scan) /\ Follow(scan.ranges, scan.start)
      /\ OpensFirst(obus, FirstBegin(scan.ranges, scan.start))
  BY DEF ScanHeld
<1>2. /\ next.ranges = scan.ranges /\ next.start = scan.start
      /\ \A s : s \in next.ids <=>
           s \in scan.ids \/ (IsFrame(obus, n + 1) /\ s = obus[n + 1].substream)
      /\ next.sawFrame \in BOOLEAN
      /\ next.sawFrame <=> scan.sawFrame \/ IsFrame(obus, n + 1)
  BY DEF ScanNext, IsFrame
<1> HIDE DEF next
<1>3. HoldsFrames(obus, n + 1, next)
  <2>1. \A k \in 1..(n + 1) : k \in 1..n \/ k = n + 1
    OBVIOUS
  <2>2. n + 1 \in 1..(n + 1) /\ scan.start <= n + 1 /\ \A k \in 1..n : k \in 1..(n + 1)
    BY <1>1
  <2>3. ASSUME NEW s
        PROVE  s \in next.ids <=>
                 \E k \in 1..(n + 1) : next.start <= k /\ IsFrame(obus, k) /\ obus[k].substream = s
    BY <1>1, <1>2, <2>1, <2>2 DEF HoldsFrames
  <2>4. next.sawFrame <=> \E k \in 1..(n + 1) : next.start <= k /\ IsFrame(obus, k)
    BY <1>1, <1>2, <2>1, <2>2 DEF HoldsFrames
  <2> QED  BY <1>2, <2>3, <2>4 DEF HoldsFrames
<1>4. ASSUME uses PROVE AtDelimiters(obus, n + 1, next.ranges, next.start)
  <2>1. AtDelimiters(obus, n, scan.ranges, scan.start)
    BY <1>4 DEF ScanHeld
  <2>2. obus[n + 1].kind # "delimiter"
    BY DEF Boundary
  <2>3. \A b : b \in 1..(n + 1) /\ obus[b].kind = "delimiter"
               <=> b \in 1..n /\ obus[b].kind = "delimiter"
    BY <2>2
  <2> QED  BY <1>2, <2>1, <2>3 DEF AtDelimiters
<1>5. ASSUME ~ uses PROVE ClosedInTime(obus, next.ranges) /\ OpenSoFar(obus, n + 1, next.start)
  <2>1. ClosedInTime(obus, scan.ranges) /\ OpenSoFar(obus, n, scan.start)
        /\ ScanHeld(obus, FALSE, n, scan) /\ uses = FALSE
    BY <1>5 DEF ScanHeld
  <2>2. ~ StartsAnother(obus, n + 1, scan.start)
    BY <1>5, <2>1, BoundaryIsDue
  <2>3. \A m \in (scan.start + 1)..(n + 1) : m \in (scan.start + 1)..n \/ m = n + 1
    BY <1>1
  <2> QED  BY <1>2, <2>1, <2>2, <2>3 DEF OpenSoFar
<1>6. next.start \in 0..(n + 1) /\ next.start # 0
  BY <1>1, <1>2
<1> QED  BY <1>1, <1>2, <1>3, <1>4, <1>5, <1>6 DEF ScanHeld, next

\* An OBU that ends the open unit begins the next.
LEMMA ScanCuts ==
  ASSUME NEW obus, NEW uses \in BOOLEAN, NEW n \in Nat, NEW scan, ScanHeld(obus, uses, n, scan),
         uses \/ obus[n + 1].kind # "delimiter",
         scan.start # 0, Boundary(obus[n + 1], uses, scan)
  PROVE  ScanHeld(obus, uses, n + 1, ScanNext(scan, obus, n + 1, uses))
<1> DEFINE next == ScanNext(scan, obus, n + 1, uses)
           len  == Len(scan.ranges)
<1>1. /\ scan.start \in 1..n /\ Follow(scan.ranges, scan.start)
      /\ OpensFirst(obus, FirstBegin(scan.ranges, scan.start))
  BY DEF ScanHeld
<1>2. /\ next.ranges = Append(scan.ranges, <<scan.start, n + 1>>) /\ next.start = n + 1
      /\ \A s : s \in next.ids <=> IsFrame(obus, n + 1) /\ s = obus[n + 1].substream
      /\ next.sawFrame \in BOOLEAN
      /\ next.sawFrame <=> IsFrame(obus, n + 1)
  BY DEF ScanNext, IsFrame
<1>3. /\ next.ranges \in Seq(Nat \X Nat) /\ len \in Nat /\ Len(next.ranges) = len + 1
      /\ \A r \in 1..len : next.ranges[r] = scan.ranges[r]
      /\ next.ranges[len + 1] = <<scan.start, n + 1>>
      /\ \A r \in 1..(len + 1) : r \in 1..len \/ r = len + 1
      /\ \A r \in 1..len : r \in 1..(len + 1)
      /\ len + 1 \in 1..(len + 1)
  <2>1. <<scan.start, n + 1>> \in Nat \X Nat
    BY <1>1
  <2>2. scan.ranges \in Seq(Nat \X Nat)
    BY <1>1 DEF Follow
  <2> HIDE DEF next
  <2> QED  BY <1>2, <2>1, <2>2
<1>4. FirstBegin(next.ranges, next.start) = FirstBegin(scan.ranges, scan.start)
  <2>1. scan.ranges = <<>> <=> len = 0
    BY <1>1 DEF Follow
  <2>2. next.ranges # <<>>
    BY <1>3
  <2> HIDE DEF len, next
  <2>3. CASE len = 0
    BY <1>3, <2>1, <2>2, <2>3 DEF FirstBegin
  <2>4. CASE len # 0
    <3>1. 1 \in 1..len
      BY <1>3, <2>4
    <3> QED  BY <1>3, <2>1, <2>2, <2>4, <3>1 DEF FirstBegin
  <2> QED  BY <2>3, <2>4
<1>5. \A b : Begins(next.ranges, next.start, b) <=> Begins(scan.ranges, scan.start, b) \/ b = n + 1
  <2> HIDE DEF next
  <2> QED  BY <1>2, <1>3 DEF Begins
<1> HIDE DEF next
<1>6. Follow(next.ranges, next.start)
  <2>len. len = Len(scan.ranges)
    OBVIOUS
  <2> HIDE DEF len
  <2>1. ASSUME NEW r \in 1..len
        PROVE  /\ next.ranges[r][1] < next.ranges[r][2]
               /\ next.ranges[r][2] = next.ranges[r + 1][1]
    <3>1. /\ scan.ranges[r][1] < scan.ranges[r][2]
          /\ scan.ranges[r][2] = IF r = len THEN scan.start ELSE scan.ranges[r + 1][1]
      BY <1>1, <2>len DEF Follow
    <3>2. CASE r = len
      <4>1. next.ranges[r] = scan.ranges[r] /\ next.ranges[r + 1][1] = scan.start
        BY <1>3, <3>2
      <4> QED  BY <3>1, <3>2, <4>1
    <3>3. CASE r # len
      <4>1. r + 1 \in 1..len
        BY <1>3, <3>3
      <4> QED  BY <1>3, <3>1, <3>3, <4>1
    <3> QED  BY <3>2, <3>3
  <2>2. scan.start < n + 1
    BY <1>1
  <2>3. \A r \in 1..len : r # len + 1
    BY <1>3
  <2>4. ASSUME NEW r \in 1..Len(next.ranges)
        PROVE  /\ next.ranges[r][1] < next.ranges[r][2]
               /\ next.ranges[r][2] = IF r = Len(next.ranges) THEN next.start
                                                              ELSE next.ranges[r + 1][1]
    <3>1. CASE r \in 1..len
      BY <1>3, <2>1, <2>3, <3>1
    <3>2. CASE r = len + 1
      BY <1>2, <1>3, <2>2, <3>2
    <3> QED  BY <1>3, <3>1, <3>2
  <2> QED  BY <1>3, <2>4 DEF Follow
<1>7. HoldsFrames(obus, n + 1, next)
  <2>1. \A k \in 1..(n + 1) : n + 1 <= k <=> k = n + 1
    OBVIOUS
  <2>2. n + 1 \in 1..(n + 1)
    OBVIOUS
  <2> QED  BY <1>2, <2>1, <2>2 DEF HoldsFrames
<1>8. ASSUME uses PROVE AtDelimiters(obus, n + 1, next.ranges, next.start)
  <2>1. AtDelimiters(obus, n, scan.ranges, scan.start)
    BY <1>8 DEF ScanHeld
  <2>2. obus[n + 1].kind = "delimiter"
    BY <1>8 DEF Boundary
  <2>3. \A b : b \in 1..(n + 1) /\ obus[b].kind = "delimiter"
               <=> (b \in 1..n /\ obus[b].kind = "delimiter") \/ b = n + 1
    BY <2>2
  <2> QED  BY <1>4, <1>5, <2>1, <2>3 DEF AtDelimiters
<1>9. ASSUME ~ uses PROVE ClosedInTime(obus, next.ranges) /\ OpenSoFar(obus, n + 1, next.start)
  <2>1. ClosedInTime(obus, scan.ranges) /\ OpenSoFar(obus, n, scan.start)
        /\ ScanHeld(obus, FALSE, n, scan) /\ uses = FALSE
    BY <1>9 DEF ScanHeld
  <2>2. StartsAnother(obus, n + 1, scan.start)
    BY <1>9, <2>1, BoundaryIsDue
  <2>3. \A m \in (scan.start + 1)..(n + 1) : StartsAnother(obus, m, scan.start) <=> m = n + 1
    <3>1. \A m \in (scan.start + 1)..(n + 1) : m \in (scan.start + 1)..n \/ m = n + 1
      BY <1>1
    <3>2. \A m \in (scan.start + 1)..n : m # n + 1
      BY <1>1
    <3> QED  BY <2>1, <2>2, <3>1, <3>2 DEF OpenSoFar
  <2>4. ASSUME NEW r \in 1..(len + 1), NEW m \in (next.ranges[r][1] + 1)..next.ranges[r][2]
        PROVE  StartsAnother(obus, m, next.ranges[r][1]) <=> m = next.ranges[r][2]
    <3>1. CASE r \in 1..len
      BY <1>3, <2>1, <2>4, <3>1 DEF ClosedInTime
    <3>2. CASE r = len + 1
      BY <1>3, <2>3, <2>4, <3>2
    <3> QED  BY <1>3, <3>1, <3>2
  <2>5. OpenSoFar(obus, n + 1, next.start)
    BY <1>2 DEF OpenSoFar
  <2> HIDE DEF len
  <2> QED  BY <1>3, <2>4, <2>5 DEF ClosedInTime
<1>10. next.start \in 0..(n + 1) /\ next.start # 0
  BY <1>2
<1> QED  BY <1>1, <1>4, <1>6, <1>7, <1>8, <1>9, <1>10 DEF ScanHeld, next

\* temporal_unit_ranges cuts any sequence of OBUs into units.
LEMMA UnitsCut ==
  ASSUME NEW S, NEW obus \in Seq(S)
  PROVE  /\ CutIntoUnits(obus, TemporalUnitRanges(obus))
         /\ TemporalUnitRanges(obus) \in Seq(Nat \X Nat)
<1> DEFINE uses == \E i \in DOMAIN obus : obus[i].kind = "delimiter"
           end  == Len(obus)
<1>1. uses \in BOOLEAN /\ end \in Nat /\ DOMAIN obus = 1..end
  OBVIOUS
<1>2. \A i \in 1..end : uses \/ obus[i].kind # "delimiter"
  OBVIOUS
<1>3. PICK f : /\ ScanTable(obus, uses, end, f)
               /\ TemporalUnitRanges(obus) =
                    IF f[end].start = 0 THEN f[end].ranges
                      ELSE Append(f[end].ranges, <<f[end].start, end + 1>>)
  <2> DEFINE f == CHOOSE f : ScanTable(obus, uses, end, f)
  <2>1. ScanTable(obus, uses, end, f)
    BY <1>1, ScanTableExists
  <2>2. TemporalUnitRanges(obus) =
          IF f[end].start = 0 THEN f[end].ranges
            ELSE Append(f[end].ranges, <<f[end].start, end + 1>>)
    BY DEF TemporalUnitRanges, ScanTable
  <2> HIDE DEF f
  <2> QED  BY <2>1, <2>2
<1> HIDE DEF uses
<1>4. ScanHeld(obus, uses, end, f[end])
  <2> DEFINE H == {n \in Nat : n <= end => ScanHeld(obus, uses, n, f[n])}
  <2> HIDE DEF end
  <2>1. 0 \in H
    <3>1. f[0] = NothingScanned
      BY <1>1, <1>3 DEF ScanTable
    <3> QED  BY <3>1, NothingHeld
  <2>2. ASSUME NEW n \in Nat, n \in H PROVE n + 1 \in H
    <3> SUFFICES ASSUME n + 1 <= end PROVE ScanHeld(obus, uses, n + 1, f[n + 1])
      OBVIOUS
    <3>1. n + 1 \in 1..end /\ n <= end
      BY <1>1
    <3>2. f[n + 1] = ScanNext(f[n], obus, n + 1, uses)
      BY <1>1, <1>3, <3>1 DEF ScanTable
    <3>3. ScanHeld(obus, uses, n, f[n])
      BY <2>2, <3>1
    <3>4. uses \/ obus[n + 1].kind # "delimiter"
      BY <1>2, <3>1
    <3>5. CASE f[n].start = 0
      BY <1>1, <3>2, <3>3, <3>5, ScanBefore
    <3>6. CASE f[n].start # 0 /\ ~ Boundary(obus[n + 1], uses, f[n])
      BY <1>1, <3>2, <3>3, <3>4, <3>6, ScanJoins
    <3>7. CASE f[n].start # 0 /\ Boundary(obus[n + 1], uses, f[n])
      BY <1>1, <3>2, <3>3, <3>4, <3>7, ScanCuts
    <3> QED  BY <3>5, <3>6, <3>7
  <2>3. end \in H
    <3> HIDE DEF H
    <3> QED  BY <1>1, <2>1, <2>2, NaturalSteps
  <2> QED  BY <2>3
<1> DEFINE scan   == f[end]
           ranges == TemporalUnitRanges(obus)
           first  == {i \in {k \in DOMAIN obus : obus[k].kind \in Temporal} :
                        \A j \in {k \in DOMAIN obus : obus[k].kind \in Temporal} : i <= j}
           marks  == {i \in DOMAIN obus : obus[i].kind = "delimiter"}
<1>5. CASE scan.start = 0
  <2>1. ranges = <<>> /\ \A k \in 1..end : obus[k].kind \notin Temporal
    BY <1>3, <1>4, <1>5 DEF ScanHeld
  <2>2. first = {} /\ marks = {}
    BY <1>1, <2>1 DEF Temporal
  <2> HIDE DEF ranges
  <2>3. CutIntoUnits(obus, ranges) /\ ranges \in Seq(Nat \X Nat)
    BY <2>1, <2>2 DEF CutIntoUnits
  <2> QED  BY <2>3 DEF ranges
<1>6. CASE scan.start # 0
  <2> DEFINE closed == scan.ranges
             len    == Len(closed)
             b      == FirstBegin(closed, scan.start)
  <2>1. /\ scan.start \in 1..end /\ Follow(closed, scan.start) /\ OpensFirst(obus, b)
    BY <1>4, <1>6 DEF ScanHeld
  <2>2. ranges = Append(closed, <<scan.start, end + 1>>)
    BY <1>3, <1>6
  <2> HIDE DEF scan, ranges, end
  <2>3. /\ closed \in Seq(Nat \X Nat) /\ len \in Nat /\ Len(ranges) = len + 1
        /\ DOMAIN ranges = 1..(len + 1) /\ ranges \in Seq(Nat \X Nat)
        /\ \A r \in 1..len : ranges[r] = closed[r]
        /\ ranges[len + 1] = <<scan.start, end + 1>>
        /\ \A r \in 1..(len + 1) : r \in 1..len \/ r = len + 1
        /\ \A r \in 1..len : r \in 1..(len + 1) /\ r # len + 1
        /\ 1 \in 1..(len + 1) /\ len + 1 \in 1..(len + 1)
    <3>1. <<scan.start, end + 1>> \in Nat \X Nat
      BY <1>1, <2>1
    <3>2. closed \in Seq(Nat \X Nat)
      BY <2>1 DEF Follow
    <3> DEFINE Pairs == Nat \X Nat
               last  == <<scan.start, end + 1>>
    <3>3. last \in Pairs /\ closed \in Seq(Pairs)
      BY <3>1, <3>2
    <3> HIDE DEF Pairs, last, closed
    <3>4. /\ ranges = Append(closed, last) /\ len = Len(closed)
          /\ ranges \in Seq(Pairs) /\ len \in Nat /\ Len(ranges) = len + 1
          /\ DOMAIN ranges = 1..(len + 1)
          /\ \A r \in 1..len : ranges[r] = closed[r]
          /\ ranges[len + 1] = last
      BY <2>2, <3>3, AppendMembers DEF last
    <3> QED  BY <3>2, <3>4 DEF last, Pairs
  <2> HIDE DEF closed
  <2>len. len = Len(closed)
    OBVIOUS
  <2>4. ranges[1][1] = b
    <3>1. closed = <<>> <=> len = 0
      BY <2>3
    <3> HIDE DEF len
    <3>2. CASE len = 0
      BY <2>3, <3>1, <3>2 DEF FirstBegin
    <3>3. CASE len # 0
      <4>1. 1 \in 1..len
        BY <2>3, <3>3
      <4> QED  BY <2>3, <3>1, <3>3, <4>1 DEF FirstBegin
    <3> QED  BY <3>2, <3>3
  <2>5. ASSUME NEW r \in 1..(len + 1)
        PROVE  /\ ranges[r][1] < ranges[r][2]
               /\ ranges[r][2] = IF r = Len(ranges) THEN end + 1 ELSE ranges[r + 1][1]
    <3>1. CASE r = len + 1
      <4>1. scan.start < end + 1
        BY <1>1, <2>1
      <4> QED  BY <2>3, <3>1, <4>1
    <3>2. CASE r \in 1..len
      <4>1. /\ closed[r][1] < closed[r][2]
            /\ closed[r][2] = IF r = len THEN scan.start ELSE closed[r + 1][1]
        BY <2>1, <3>2 DEF Follow
      <4>2. CASE r = len
        BY <2>3, <3>2, <4>1, <4>2
      <4>3. CASE r # len
        <5>1. r + 1 \in 1..len
          BY <2>3, <3>2, <4>3
        <5> QED  BY <2>3, <3>2, <4>1, <4>3, <5>1
      <4> QED  BY <4>2, <4>3
    <3> QED  BY <2>3, <3>1, <3>2
  <2>6. b \in 1..scan.start
    <3>1. b \in Nat \ {0}
      BY <2>1 DEF OpensFirst
    <3> HIDE DEF len
    <3> DEFINE L == {k \in Nat : k + 1 \in 1..(len + 1) => b <= ranges[k + 1][1]}
    <3>2. 0 \in L
      BY <2>4, <3>1
    <3>3. ASSUME NEW k \in Nat, k \in L PROVE k + 1 \in L
      <4> SUFFICES ASSUME k + 2 \in 1..(len + 1) PROVE b <= ranges[k + 2][1]
        BY DEF L
      <4>1. k + 1 \in 1..(len + 1) /\ k + 1 # len + 1
        BY <2>3
      <4>2. ranges[k + 1][1] < ranges[k + 2][1]
        <5>1. ranges[k + 1][2] = ranges[k + 1 + 1][1] /\ k + 1 + 1 = k + 2
          BY <2>3, <2>5, <4>1
        <5> QED  BY <2>5, <4>1, <5>1
      <4>3. b <= ranges[k + 1][1]
        BY <3>3, <4>1
      <4>4. ranges[k + 1] \in Nat \X Nat /\ ranges[k + 2] \in Nat \X Nat
        <5>1. \A r \in 1..(len + 1) : ranges[r] \in Nat \X Nat
          <6>1. <<scan.start, end + 1>> \in Nat \X Nat
            BY <1>1, <2>1
          <6>2. \A r \in 1..len : closed[r] \in Nat \X Nat
            BY <2>3, <2>len
          <6> QED  BY <2>3, <6>1, <6>2
        <5> QED  BY <4>1, <5>1
      <4> QED  BY <3>1, <4>2, <4>3, <4>4
    <3>4. len \in L
      <4> HIDE DEF L
      <4> QED  BY <2>3, <3>2, <3>3, NaturalSteps
    <3> QED  BY <1>1, <2>1, <2>3, <3>1, <3>4
  <2>7. first = {b}
    <3>1. b \in 1..end
      BY <1>1, <2>1, <2>6
    <3>2. obus[b].kind \in Temporal /\ \A k \in 1..(b - 1) : obus[k].kind \notin Temporal
      BY <2>1 DEF OpensFirst
    <3> HIDE DEF b
    <3>3. \A j \in 1..end : obus[j].kind \in Temporal => b <= j
      <4> SUFFICES ASSUME NEW j \in 1..end, ~ (b <= j) PROVE obus[j].kind \notin Temporal
        OBVIOUS
      <4>1. j \in 1..(b - 1)
        BY <1>1, <3>1
      <4> QED  BY <3>2, <4>1
    <3>4. \A i \in 1..end : i <= b /\ b <= i => i = b
      BY <1>1, <3>1
    <3>5. b <= b
      BY <3>1
    <3> QED  BY <1>1, <3>1, <3>2, <3>3, <3>4, <3>5
  <2>8. {ranges[r][1] : r \in {r \in DOMAIN ranges : r = 1}} = {b}
    <3>1. {r \in DOMAIN ranges : r = 1} = {1}
      BY <2>3
    <3> QED  BY <2>4, <3>1
  <2>9. ASSUME marks # {} PROVE {ranges[r][1] : r \in DOMAIN ranges} = marks \cup {b}
    <3>1. uses = TRUE
      BY <2>9 DEF uses
    <3>2. AtDelimiters(obus, end, closed, scan.start)
      BY <1>1, <1>4, <1>6, <3>1 DEF ScanHeld, scan, closed
    <3> HIDE DEF len
    <3>3. ASSUME NEW c
          PROVE  Begins(closed, scan.start, c) <=> \E r \in 1..(len + 1) : c = ranges[r][1]
      <4>1. Begins(closed, scan.start, c)
              <=> c = scan.start \/ \E r \in 1..len : c = closed[r][1]
        BY <2>len DEF Begins
      <4>2. ranges[len + 1][1] = scan.start
        BY <2>3
      <4>3. \A r \in 1..len : closed[r][1] = ranges[r][1]
        BY <2>3
      <4> HIDE DEF ranges
      <4> QED  BY <2>3, <4>1, <4>2, <4>3
    <3>4. \A c : c \in marks <=> c \in 1..end /\ obus[c].kind = "delimiter"
      BY <1>1
    <3> HIDE DEF marks
    <3>5. \A c : (\E r \in 1..(len + 1) : c = ranges[r][1]) <=> c = b \/ c \in marks
      BY <3>2, <3>3, <3>4 DEF AtDelimiters
    <3> HIDE DEF b
    <3> QED  BY <2>3, <3>5
  <2>10. ASSUME marks = {}, NEW r \in 1..(len + 1),
                NEW n \in (ranges[r][1] + 1)..ranges[r][2], n <= end
         PROVE  StartsAnother(obus, n, ranges[r][1]) <=> n = ranges[r][2]
    <3>1. uses = FALSE
      BY <2>10 DEF uses
    <3>2. ClosedInTime(obus, closed) /\ OpenSoFar(obus, end, scan.start)
      BY <1>1, <1>4, <1>6, <3>1 DEF ScanHeld, scan, closed
    <3>3. CASE r \in 1..len
      BY <2>3, <2>10, <3>2, <3>3 DEF ClosedInTime
    <3>4. CASE r = len + 1
      <4>1. n \in (scan.start + 1)..(end + 1) /\ n <= end
        BY <2>3, <2>10, <3>4
      <4>2. n \in (scan.start + 1)..end /\ n # end + 1
        BY <1>1, <2>1, <4>1
      <4> QED  BY <2>3, <3>2, <3>4, <4>2 DEF OpenSoFar
    <3> QED  BY <2>3, <3>3, <3>4
  <2> HIDE DEF b, len, first, marks
  <2>11. /\ {ranges[r][1] : r \in {r \in DOMAIN ranges : r = 1}} = first
         /\ \A r \in DOMAIN ranges :
              /\ ranges[r][1] < ranges[r][2]
              /\ ranges[r][2] = IF r = Len(ranges) THEN Len(obus) + 1 ELSE ranges[r + 1][1]
    BY <2>3, <2>5, <2>7, <2>8 DEF end
  <2>12. IF marks # {}
           THEN {ranges[r][1] : r \in DOMAIN ranges} = marks \cup first
           ELSE \A r \in DOMAIN ranges : \A n \in (ranges[r][1] + 1)..ranges[r][2] :
                  n <= Len(obus) => (StartsAnother(obus, n, ranges[r][1]) <=> n = ranges[r][2])
    BY <2>3, <2>7, <2>9, <2>10 DEF end
  <2>13. CutIntoUnits(obus, ranges)
    BY <2>11, <2>12 DEF CutIntoUnits, first, marks
  <2> QED  BY <2>3, <2>13 DEF ranges
<1> QED  BY <1>5, <1>6

\* The ranges that temporal_unit_ranges reports of what the reader yielded are
\* its temporal units: none missed, none split, none joined with another.
THEOREM RangesCut == ReaderSpec => []RangesAreUnits
<1>1. RInv => RangesAreUnits
  BY UnitsCut DEF RInv, Typed, RangesAreUnits
<1> QED  BY <1>1, InitRInv, NextRInv, PTL DEF ReaderSpec

----------------------------------------------------------------------------
(* Sorting                                                                 *)

Before(items, i) ==
  {j \in DOMAIN items : \/ items[j].id < items[i].id
                        \/ items[j].id = items[i].id /\ j <= i}

Identified(S, items) == items \in Seq(S) /\ \A i \in DOMAIN items : items[i].id \in Nat

\* Whichever of two items is sorted first, fewer items precede it.
LEMMA RanksDiffer ==
  ASSUME NEW S, NEW items, Identified(S, items),
         NEW i \in DOMAIN items, NEW j \in DOMAIN items, i # j
  PROVE  StableRank(items, i) # StableRank(items, j)
<1>1. /\ DOMAIN items = 1..Len(items) /\ Len(items) \in Nat
      /\ \A k \in DOMAIN items : items[k].id \in Nat /\ k \in Nat
  BY DEF Identified
<1>2. ASSUME NEW a \in DOMAIN items, NEW b \in DOMAIN items, a \in Before(items, b), a # b
      PROVE  StableRank(items, a) # StableRank(items, b)
  <2>1. Before(items, a) \subseteq Before(items, b)
    BY <1>1, <1>2 DEF Before
  <2>2. b \in Before(items, b) /\ b \notin Before(items, a)
    BY <1>1, <1>2 DEF Before
  <2>3. IsFiniteSet(Before(items, b))
    <3>1. IsFiniteSet(1..Len(items)) /\ Before(items, b) \subseteq 1..Len(items)
      BY <1>1, FS_Interval DEF Before
    <3> QED  BY <3>1, FS_Subset
  <2>4. /\ Cardinality(Before(items, a)) < Cardinality(Before(items, b))
        /\ Cardinality(Before(items, a)) \in Nat /\ Cardinality(Before(items, b)) \in Nat
    <3>1. IsFiniteSet(Before(items, a)) /\ Before(items, a) # Before(items, b)
      BY <2>1, <2>2, <2>3, FS_Subset
    <3>2. /\ Cardinality(Before(items, a)) <= Cardinality(Before(items, b))
          /\ Cardinality(Before(items, a)) # Cardinality(Before(items, b))
      BY <2>1, <2>3, <3>1, FS_Subset
    <3> QED  BY <2>3, <3>1, <3>2, FS_CardinalityType
  <2> QED  BY <2>4 DEF StableRank, Before
<1>3. i \in Before(items, j) \/ j \in Before(items, i)
  BY <1>1 DEF Before
<1> QED  BY <1>2, <1>3

\* Every place of the order is taken.
LEMMA RanksTaken ==
  ASSUME NEW S, NEW items, Identified(S, items), NEW k \in DOMAIN items
  PROVE  \E i \in DOMAIN items : StableRank(items, i) = k
<1> DEFINE n      == Len(items)
           places == [i \in 1..n |-> i]
           ranks  == [i \in 1..n |-> StableRank(items, i)]
<1>1. n \in Nat /\ DOMAIN items = 1..n
  BY DEF Identified
<1> HIDE DEF n
<1>2. ASSUME NEW i \in 1..n PROVE StableRank(items, i) \in 1..n
  <2>1. IsFiniteSet(1..n) /\ Cardinality(1..n) = n /\ Before(items, i) \subseteq 1..n
    BY <1>1, FS_Interval DEF Before
  <2>2. IsFiniteSet(Before(items, i)) /\ Cardinality(Before(items, i)) <= n
    BY <2>1, FS_Subset
  <2>3. i \in Before(items, i)
    BY <1>1 DEF Before, Identified
  <2>4. Cardinality(Before(items, i)) \in Nat /\ Cardinality(Before(items, i)) # 0
    BY <2>2, <2>3, FS_CardinalityType, FS_EmptySet
  <2> QED  BY <1>1, <2>2, <2>4 DEF StableRank, Before
<1>3. /\ ranks \in Seq(1..n) /\ places \in Seq(1..n) /\ Len(ranks) = n /\ Len(places) = n
      /\ DOMAIN ranks = 1..n /\ DOMAIN places = 1..n
      /\ \A i \in 1..n : ranks[i] = StableRank(items, i) /\ places[i] = i
  BY <1>1, <1>2
<1> HIDE DEF ranks, places
<1>4. Distinct(ranks)
  BY <1>1, <1>3, RanksDiffer DEF Distinct
<1>5. Distinct(places) /\ Within(ranks, places)
  BY <1>2, <1>3 DEF Distinct, Within
<1>6. Within(places, ranks)
  BY <1>3, <1>4, <1>5, SameMembers
<1> QED  BY <1>1, <1>3, <1>6 DEF Within

\* What is sorted is a list of the same items.
LEMMA SortedTyped ==
  ASSUME NEW S, NEW items, Identified(S, items)
  PROVE  SortedById(items) \in Seq(S) /\ Len(SortedById(items)) = Len(items)
<1> DEFINE place(k) == CHOOSE i \in DOMAIN items : StableRank(items, i) = k
<1>1. \A k \in DOMAIN items : place(k) \in DOMAIN items
  BY RanksTaken
<1> HIDE DEF place
<1>2. items \in Seq(S) /\ \A k \in DOMAIN items : items[place(k)] \in S
  BY <1>1, SeqMember DEF Identified
<1>3. SortedById(items) = [k \in DOMAIN items |-> items[place(k)]]
  BY DEF SortedById, place
<1> QED  BY <1>2, <1>3

----------------------------------------------------------------------------
(* Lists of lists                                                          *)

\* A list of single members is flattened to those.
LEMMA FlattenSingles ==
  ASSUME NEW S, NEW s \in Seq(S)
  PROVE  FlattenSeq([i \in DOMAIN s |-> <<s[i]>>]) = s
<1> DEFINE Singles(t) == [i \in DOMAIN t |-> <<t[i]>>]
           T == {n \in Nat : \A t \in Seq(S) : Len(t) = n => FlattenSeq(Singles(t)) = t}
<1>1. 0 \in T
  <2>1. ASSUME NEW t \in Seq(S), Len(t) = 0 PROVE FlattenSeq(Singles(t)) = t
    <3>1. t = <<>> /\ Singles(t) = <<>>
      BY <2>1, EmptySeq
    <3> QED  BY <3>1, FlattenEmpty
  <2> QED  BY <2>1
<1>2. ASSUME NEW n \in Nat, n \in T PROVE n + 1 \in T
  <2> SUFFICES ASSUME NEW t \in Seq(S), Len(t) = n + 1 PROVE FlattenSeq(Singles(t)) = t
    OBVIOUS
  <2>1. PICK u \in Seq(S), x \in S : Len(u) = n /\ t = Append(u, x)
    <3>1. EndsInMember(S, n, t)
      BY LastAppended
    <3> QED  BY <3>1 DEF EndsInMember
  <2>2. Singles(u) \in Seq(Seq(S)) /\ <<x>> \in Seq(S)
    BY <2>1
  <2>3. Singles(t) = Append(Singles(u), <<x>>)
    BY <2>1
  <2>4. FlattenSeq(Singles(t)) = FlattenSeq(Singles(u)) \o <<x>>
    <3> HIDE DEF Singles
    <3> QED  BY <2>2, <2>3, FlattenAppend
  <2>5. FlattenSeq(Singles(u)) = u
    BY <1>2, <2>1
  <2>6. u \o <<x>> = Append(u, x)
    BY <2>1
  <2> QED  BY <2>1, <2>4, <2>5, <2>6
<1> HIDE DEF T
<1>3. Len(s) \in T
  <2>1. Len(s) \in Nat
    OBVIOUS
  <2> QED  BY <1>1, <1>2, <2>1, NaturalSteps
<1> QED  BY <1>3 DEF T

\* One list is flattened to itself.
LEMMA FlattenOne ==
  ASSUME NEW S, NEW s \in Seq(S)
  PROVE  FlattenSeq(<<s>>) = s
<1>1. <<s>> \in Seq(Seq(S)) /\ EmptyBut(<<s>>, 1) /\ <<s>>[1] = s
  BY DEF EmptyBut
<1> QED  BY <1>1, FlattenSparse

\* What the elements publish, one after the other, is what they publish
\* together.
LEMMA DecodedTogether ==
  ASSUME NEW S, NEW lists \in Seq(Seq(S))
  PROVE  Decoded(FlattenSeq(lists)) = FlattenSeq([i \in DOMAIN lists |-> Decoded(lists[i])])
<1> DEFINE Apart(t) == [i \in DOMAIN t |-> Decoded(t[i])]
           T == {n \in Nat : \A t \in Seq(Seq(S)) :
                               Len(t) = n => Decoded(FlattenSeq(t)) = FlattenSeq(Apart(t))}
           Kept(d) == IF IsDecoded(d) THEN <<d>> ELSE <<>>
<1>0. \A d \in S : Kept(d) \in Seq(S)
  OBVIOUS
<1>1. \A d \in Seq(S) : Decoded(d) = FlattenSeq([i \in DOMAIN d |-> Kept(d[i])])
  BY DEF Decoded
<1> HIDE DEF Kept
<1>2. ASSUME NEW d \in Seq(S)
      PROVE  [i \in DOMAIN d |-> Kept(d[i])] \in Seq(Seq(S)) /\ Decoded(d) \in Seq(S)
  <2>1. [i \in DOMAIN d |-> Kept(d[i])] \in Seq(Seq(S))
    <3> DEFINE keep == [i \in DOMAIN d |-> Kept(d[i])]
    <3>1. keep = [i \in DOMAIN d |-> keep[i]] /\ \A i \in DOMAIN d : keep[i] \in Seq(S)
      BY <1>0, SeqMember
    <3> HIDE DEF keep
    <3>2. ListOf(Seq(S), d, keep)
      BY <3>1, ListTyped
    <3> QED  BY <3>2 DEF ListOf, keep
  <2> QED  BY <1>1, <2>1, FlattenMembers
<1>3. ASSUME NEW a \in Seq(S), NEW b \in Seq(S) PROVE Decoded(a \o b) = Decoded(a) \o Decoded(b)
  <2> DEFINE Keep(d) == [i \in DOMAIN d |-> Kept(d[i])]
           kept == [d \in S |-> Kept(d)]
  <2>1. Keep(a \o b) = Keep(a) \o Keep(b)
    <3>1. kept \in [S -> Seq(S)]
      BY <1>0
    <3>2. \A d \in S : kept[d] = Kept(d)
      OBVIOUS
    <3> HIDE DEF kept
    <3>3. MapsParts(S, Seq(S), kept, a, b)
      BY <3>1, MappedConcat
    <3>4. ASSUME NEW d \in Seq(S) PROVE Mapped(kept, d) = Keep(d)
      BY <3>2, SeqMember DEF Mapped
    <3>5. a \o b \in Seq(S)
      OBVIOUS
    <3> HIDE DEF Keep
    <3> QED  BY <3>3, <3>4, <3>5 DEF MapsParts
  <2>2. Keep(a) \in Seq(Seq(S)) /\ Keep(b) \in Seq(Seq(S))
    BY <1>2
  <2>3. FlattenSeq(Keep(a) \o Keep(b)) = FlattenSeq(Keep(a)) \o FlattenSeq(Keep(b))
    <3> HIDE DEF Keep
    <3> QED  BY <2>2, FlattenConcat
  <2>4. Decoded(a) = FlattenSeq(Keep(a)) /\ Decoded(b) = FlattenSeq(Keep(b))
        /\ Decoded(a \o b) = FlattenSeq(Keep(a \o b))
    <3>1. a \o b \in Seq(S)
      OBVIOUS
    <3> QED  BY <1>1, <3>1
  <2> HIDE DEF Keep
  <2> QED  BY <2>1, <2>3, <2>4
<1>4. <<>> \in Seq(S) /\ Decoded(<<>>) = <<>>
  <2>1. [i \in DOMAIN <<>> |-> Kept(<<>>[i])] = <<>>
    OBVIOUS
  <2>2. <<>> \in Seq(S)
    OBVIOUS
  <2>3. Decoded(<<>>) = FlattenSeq([i \in DOMAIN <<>> |-> Kept(<<>>[i])])
    BY <1>1, <2>2
  <2> QED  BY <2>1, <2>2, <2>3, FlattenEmpty
<1>5. 0 \in T
  <2>1. ASSUME NEW t \in Seq(Seq(S)), Len(t) = 0 PROVE Decoded(FlattenSeq(t)) = FlattenSeq(Apart(t))
    <3>1. t = <<>> /\ Apart(t) = <<>>
      BY <2>1, EmptySeq
    <3> QED  BY <1>4, <3>1, FlattenEmpty
  <2> QED  BY <2>1
<1>6. ASSUME NEW n \in Nat, n \in T PROVE n + 1 \in T
  <2> SUFFICES ASSUME NEW t \in Seq(Seq(S)), Len(t) = n + 1
               PROVE  Decoded(FlattenSeq(t)) = FlattenSeq(Apart(t))
    OBVIOUS
  <2>1. PICK u \in Seq(Seq(S)), x \in Seq(S) : Len(u) = n /\ t = Append(u, x)
    <3>1. EndsInMember(Seq(S), n, t)
      BY LastAppended
    <3> QED  BY <3>1 DEF EndsInMember
  <2>2. FlattenSeq(t) = FlattenSeq(u) \o x /\ FlattenSeq(u) \in Seq(S)
    BY <2>1, FlattenAppend, FlattenMembers
  <2>3. Decoded(FlattenSeq(t)) = Decoded(FlattenSeq(u)) \o Decoded(x)
    BY <1>3, <2>2
  <2>4. Apart(u) \in Seq(Seq(S)) /\ Decoded(x) \in Seq(S)
    <3>1. Apart(u) = [i \in DOMAIN u |-> Apart(u)[i]] /\ \A i \in DOMAIN u : Apart(u)[i] \in Seq(S)
      BY <1>2, <2>1, SeqMember
    <3> HIDE DEF Apart
    <3>2. ListOf(Seq(S), u, Apart(u))
      BY <2>1, <3>1, ListTyped
    <3> QED  BY <1>2, <3>2 DEF ListOf
  <2>5. Apart(t) = Append(Apart(u), Decoded(x))
    BY <2>1
  <2>6. FlattenSeq(Apart(t)) = FlattenSeq(Apart(u)) \o Decoded(x)
    <3> HIDE DEF Apart
    <3> QED  BY <2>4, <2>5, FlattenAppend
  <2>7. Decoded(FlattenSeq(u)) = FlattenSeq(Apart(u))
    BY <1>6, <2>1
  <2> QED  BY <2>3, <2>6, <2>7
<1> HIDE DEF T
<1>7. Len(lists) \in T
  <2>1. Len(lists) \in Nat
    OBVIOUS
  <2> QED  BY <1>5, <1>6, <2>1, NaturalSteps
<1> QED  BY <1>7 DEF T

----------------------------------------------------------------------------
(* The prologue                                                            *)

CarriedDefinition == [param : ParamIds, shape : Shapes \cup {Extension}]

Codecs(d) == SortedById(d.codec_configs)

Elements(d) == SortedById(d.elements)

\* The lists a descriptor set is written from.
ListsTyped(d) ==
  /\ Codecs(d) \in Seq({Codecs(d)[i] : i \in DOMAIN Codecs(d)})
  /\ Elements(d) \in Seq({Elements(d)[i] : i \in DOMAIN Elements(d)})
  /\ \A i \in DOMAIN Elements(d) : Elements(d)[i].definitions \in Seq(CarriedDefinition)
  /\ d.presentations \in Seq({d.presentations[i] : i \in DOMAIN d.presentations})
  /\ \A i \in DOMAIN d.presentations : d.presentations[i].definitions \in Seq(Definition)

LEMMA DescriptorsTyped ==
  ASSUME NEW d \in DescriptorSets
  PROVE  ListsTyped(d)
<1>1. /\ d.codec_configs \in Seq(Range(d.codec_configs))
      /\ d.elements \in Seq(Range(d.elements))
      /\ \A element \in Range(d.elements) : /\ element.id \in Nat
                                            /\ element.definitions \in Seq(CarriedDefinition)
      /\ d.presentations \in Seq(Range(d.presentations))
      /\ \A presentation \in Range(d.presentations) : presentation.definitions \in Seq(Definition)
  BY PublishedAssumption DEF CarriedDefinition
<1>2. Codecs(d) \in Seq({Codecs(d)[i] : i \in DOMAIN Codecs(d)})
  <2>1. DOMAIN d.codec_configs = 1..Len(d.codec_configs) /\ Len(d.codec_configs) \in Nat
    BY <1>1
  <2>2. DOMAIN Codecs(d) = 1..Len(d.codec_configs)
        /\ Codecs(d) = [k \in 1..Len(d.codec_configs) |-> Codecs(d)[k]]
    BY <2>1 DEF Codecs, SortedById
  <2> QED  BY <2>1, <2>2
<1>3. /\ Elements(d) \in Seq(Range(d.elements))
      /\ \A i \in DOMAIN Elements(d) : Elements(d)[i] \in Range(d.elements)
  <2>1. \A i \in DOMAIN d.elements : d.elements[i].id \in Nat
    BY <1>1, SeqMember
  <2>2. Identified(Range(d.elements), d.elements)
    BY <1>1, <2>1 DEF Identified
  <2>3. Elements(d) \in Seq(Range(d.elements))
    BY <2>2, SortedTyped DEF Elements
  <2> QED  BY <2>3, SeqMember
<1>4. Elements(d) \in Seq({Elements(d)[i] : i \in DOMAIN Elements(d)})
  <2>1. DOMAIN Elements(d) = 1..Len(Elements(d)) /\ Len(Elements(d)) \in Nat
        /\ Elements(d) = [k \in 1..Len(Elements(d)) |-> Elements(d)[k]]
    BY <1>3
  <2> QED  BY <2>1
<1>5. d.presentations \in Seq({d.presentations[i] : i \in DOMAIN d.presentations})
  <2>1. DOMAIN d.presentations = 1..Len(d.presentations) /\ Len(d.presentations) \in Nat
        /\ d.presentations = [k \in 1..Len(d.presentations) |-> d.presentations[k]]
    BY <1>1
  <2> QED  BY <2>1
<1>6. \A i \in DOMAIN d.presentations : d.presentations[i] \in Range(d.presentations)
  BY <1>1, SeqMember
<1> QED  BY <1>1, <1>2, <1>3, <1>4, <1>5, <1>6 DEF ListsTyped

CodecObus(d) == [i \in DOMAIN Codecs(d) |-> CodecObu(Codecs(d)[i])]

ElementObus(d) == [i \in DOMAIN Elements(d) |-> ElementObu(Elements(d)[i])]

PresentationObus(d) == [i \in DOMAIN d.presentations |-> PresentationObu(d.presentations[i])]

Prologue(d) == <<HeaderObu>> \o CodecObus(d) \o ElementObus(d) \o PresentationObus(d)

\* The OBUs of the prologue.
Plain(d) ==
  {HeaderObu} \cup {CodecObu(Codecs(d)[i]) : i \in DOMAIN Codecs(d)}
    \cup {ElementObu(Elements(d)[i]) : i \in DOMAIN Elements(d)}
    \cup {PresentationObu(d.presentations[i]) : i \in DOMAIN d.presentations}

\* What an OBU adds to any registry.
Adds(obu) == Observe(<<>>, obu)

IsPlain(obu) ==
  /\ obu.kind \notin Temporal /\ ~IsRefused(obu) /\ OnWire(obu) = obu
  /\ Adds(obu) \in Seq(Definition)
  /\ \A r \in Seq(Definition) : Observe(r, obu) = r \o Adds(obu)

\* The definitions in one OBU of the prologue.
LEMMA PlainObus ==
  ASSUME NEW d \in DescriptorSets
  PROVE  /\ \A obu \in Plain(d) : IsPlain(obu)
         /\ Adds(HeaderObu) = <<>>
         /\ \A i \in DOMAIN Codecs(d) : Adds(CodecObu(Codecs(d)[i])) = <<>>
         /\ \A i \in DOMAIN Elements(d) :
              Adds(ElementObu(Elements(d)[i])) = Decoded(Elements(d)[i].definitions)
         /\ \A i \in DOMAIN d.presentations :
              Adds(PresentationObu(d.presentations[i])) = d.presentations[i].definitions
<1>1. ListsTyped(d)
  BY DescriptorsTyped
<1>2. /\ <<>> \in Seq(Definition)
      /\ \A s \in Seq(Definition) : <<>> \o s = s /\ s \o <<>> = s
  OBVIOUS
<1>3. Adds(HeaderObu) = <<>> /\ IsPlain(HeaderObu)
  BY <1>2 DEF Adds, Observe, HeaderObu, IsPlain, Temporal, IsRefused, OnWire
<1>4. \A c : Adds(CodecObu(c)) = <<>> /\ IsPlain(CodecObu(c))
  BY <1>2 DEF Adds, Observe, CodecObu, IsPlain, Temporal, IsRefused, OnWire
<1>5. ASSUME NEW i \in DOMAIN Elements(d)
      PROVE  LET obu == ElementObu(Elements(d)[i])
             IN  Adds(obu) = Decoded(Elements(d)[i].definitions) /\ IsPlain(obu)
  <2> DEFINE element == Elements(d)[i]
  <2>1. element.definitions \in Seq(CarriedDefinition)
    BY <1>1 DEF ListsTyped
  <2> HIDE DEF element
  <2>2. Decoded(element.definitions) \in Seq(Definition)
    BY <2>1, DecodedTyped DEF CarriedDefinition
  <2>3. ObserveAudioElements(<<element>>) = Decoded(element.definitions)
    BY <2>1, OneOwner DEF ObserveAudioElements
  <2>4. Adds(ElementObu(element)) = Decoded(element.definitions)
    BY <1>2, <2>2, <2>3 DEF Adds, Observe, ElementObu
  <2>5. IsPlain(ElementObu(element))
    BY <2>2, <2>3, <2>4 DEF Observe, ElementObu, IsPlain, Temporal, IsRefused, OnWire
  <2> QED  BY <2>2, <2>4, <2>5 DEF element
<1>6. ASSUME NEW i \in DOMAIN d.presentations
      PROVE  LET obu == PresentationObu(d.presentations[i])
             IN  Adds(obu) = d.presentations[i].definitions /\ IsPlain(obu)
  <2> DEFINE presentation == d.presentations[i]
  <2>1. presentation.definitions \in Seq(Definition)
    BY <1>1 DEF ListsTyped
  <2> HIDE DEF presentation
  <2>2. Definitions(<<presentation>>) = presentation.definitions
    BY <2>1, OneOwner
  <2>3. Adds(PresentationObu(presentation)) = presentation.definitions
    BY <1>2, <2>1, <2>2 DEF Adds, Observe, PresentationObu
  <2>4. IsPlain(PresentationObu(presentation))
    BY <2>1, <2>2, <2>3 DEF Observe, PresentationObu, IsPlain, Temporal, IsRefused, OnWire
  <2> QED  BY <2>1, <2>3, <2>4 DEF presentation
<1> QED  BY <1>2, <1>3, <1>4, <1>5, <1>6 DEF Plain

\* The prologue consists of them.
LEMMA PrologueTyped ==
  ASSUME NEW d \in DescriptorSets
  PROVE  /\ <<HeaderObu>> \in Seq(Plain(d)) /\ CodecObus(d) \in Seq(Plain(d))
         /\ ElementObus(d) \in Seq(Plain(d)) /\ PresentationObus(d) \in Seq(Plain(d))
         /\ Prologue(d) \in Seq(Plain(d)) /\ Prologue(d) # <<>>
         /\ DescriptorObus(WriteDescriptors(d)) = Prologue(d)
<1>1. ListsTyped(d)
  BY DescriptorsTyped
<1>2. <<HeaderObu>> \in Seq(Plain(d))
  BY DEF Plain
<1>3. CodecObus(d) \in Seq(Plain(d))
  <2>1. DOMAIN Codecs(d) = 1..Len(Codecs(d)) /\ Len(Codecs(d)) \in Nat
    BY <1>1 DEF ListsTyped
  <2> QED  BY <2>1 DEF CodecObus, Plain
<1>4. ElementObus(d) \in Seq(Plain(d))
  <2>1. DOMAIN Elements(d) = 1..Len(Elements(d)) /\ Len(Elements(d)) \in Nat
    BY <1>1 DEF ListsTyped
  <2> QED  BY <2>1 DEF ElementObus, Plain
<1>5. PresentationObus(d) \in Seq(Plain(d))
  <2>1. DOMAIN d.presentations = 1..Len(d.presentations) /\ Len(d.presentations) \in Nat
    BY <1>1 DEF ListsTyped
  <2> QED  BY <2>1 DEF PresentationObus, Plain
<1>6. Prologue(d) \in Seq(Plain(d)) /\ Prologue(d) # <<>>
  <2> DEFINE P == Plain(d)
             h == <<HeaderObu>>
             c == CodecObus(d)
             e == ElementObus(d)
             p == PresentationObus(d)
  <2>1. h \in Seq(P) /\ c \in Seq(P) /\ e \in Seq(P) /\ p \in Seq(P) /\ Len(h) = 1
    BY <1>2, <1>3, <1>4, <1>5
  <2> HIDE DEF P, h, c, e, p
  <2>2. h \o c \in Seq(P) /\ Len(h \o c) >= 1
    <3>1. Concatenates(P, h, c)
      BY <2>1, ConcatMembers
    <3> QED  BY <2>1, <3>1 DEF Concatenates
  <2>3. (h \o c) \o e \in Seq(P) /\ Len((h \o c) \o e) >= 1
    <3>1. Concatenates(P, h \o c, e)
      BY <2>1, <2>2, ConcatMembers
    <3> QED  BY <2>2, <3>1 DEF Concatenates
  <2>4. ((h \o c) \o e) \o p \in Seq(P) /\ Len(((h \o c) \o e) \o p) >= 1
    <3>1. Concatenates(P, (h \o c) \o e, p)
      BY <2>1, <2>3, ConcatMembers
    <3> QED  BY <2>3, <3>1 DEF Concatenates
  <2> QED  BY <2>4, EmptySeq DEF P, h, c, e, p, Prologue
<1>7. DescriptorObus(WriteDescriptors(d)) = Prologue(d)
  BY DEF DescriptorObus, WriteDescriptors, Prologue, CodecObus, ElementObus, PresentationObus,
         Codecs, Elements
<1> QED  BY <1>2, <1>3, <1>4, <1>5, <1>6, <1>7

\* Together they publish the registry the writer made of the set.
LEMMA PrologueAdds ==
  ASSUME NEW d \in DescriptorSets, NEW adds, adds = [obu \in Plain(d) |-> Adds(obu)]
  PROVE  /\ adds \in [Plain(d) -> Seq(Definition)]
         /\ FlattenSeq(Mapped(adds, Prologue(d))) = FromDescriptors(d)
         /\ FromDescriptors(d) \in Seq(Definition)
<1> DEFINE P == Plain(d)
           D == Seq(Definition)
           h == <<HeaderObu>>
           c == CodecObus(d)
           e == ElementObus(d)
           p == PresentationObus(d)
           owned == [i \in DOMAIN Elements(d) |-> Elements(d)[i].definitions]
           mixed == [i \in DOMAIN d.presentations |-> d.presentations[i].definitions]
<1>1. adds \in [P -> D]
  BY PlainObus DEF IsPlain
<1>2. /\ h \in Seq(P) /\ c \in Seq(P) /\ e \in Seq(P) /\ p \in Seq(P)
      /\ Prologue(d) = ((h \o c) \o e) \o p
  BY PrologueTyped DEF Prologue
<1>3. /\ DOMAIN Codecs(d) = 1..Len(Codecs(d)) /\ Len(Codecs(d)) \in Nat
      /\ DOMAIN Elements(d) = 1..Len(Elements(d)) /\ Len(Elements(d)) \in Nat
      /\ DOMAIN d.presentations = 1..Len(d.presentations) /\ Len(d.presentations) \in Nat
      /\ \A i \in DOMAIN Elements(d) : Elements(d)[i].definitions \in Seq(CarriedDefinition)
      /\ \A i \in DOMAIN d.presentations : d.presentations[i].definitions \in D
  <2>1. ListsTyped(d)
    BY DescriptorsTyped
  <2>2. /\ DOMAIN Codecs(d) = 1..Len(Codecs(d)) /\ Len(Codecs(d)) \in Nat
        /\ DOMAIN Elements(d) = 1..Len(Elements(d)) /\ Len(Elements(d)) \in Nat
        /\ DOMAIN d.presentations = 1..Len(d.presentations) /\ Len(d.presentations) \in Nat
    BY <2>1, LenProperties DEF ListsTyped
  <2> QED  BY <2>1, <2>2 DEF ListsTyped
<1>4. Mapped(adds, h) = <<<<>>>>
  <2>1. HeaderObu \in P /\ Adds(HeaderObu) = <<>>
    BY PlainObus DEF Plain
  <2> QED  BY <2>1 DEF Mapped
<1>5. \A i \in DOMAIN Mapped(adds, c) : Mapped(adds, c)[i] = <<>>
  <2>1. \A i \in DOMAIN Codecs(d) : CodecObu(Codecs(d)[i]) \in P /\ Adds(CodecObu(Codecs(d)[i])) = <<>>
    BY PlainObus DEF Plain
  <2> QED  BY <2>1 DEF Mapped, CodecObus
<1>6. Mapped(adds, e) = [i \in DOMAIN Elements(d) |-> Decoded(owned[i])]
  <2>1. \A i \in DOMAIN Elements(d) :
          /\ ElementObu(Elements(d)[i]) \in P
          /\ Adds(ElementObu(Elements(d)[i])) = Decoded(Elements(d)[i].definitions)
    BY PlainObus DEF Plain
  <2>2. DOMAIN e = DOMAIN Elements(d) /\ \A i \in DOMAIN e : e[i] = ElementObu(Elements(d)[i])
    BY DEF ElementObus
  <2> HIDE DEF e, P
  <2> QED  BY <2>1, <2>2 DEF Mapped, P
<1>7. Mapped(adds, p) = mixed
  <2>1. \A i \in DOMAIN d.presentations :
          /\ PresentationObu(d.presentations[i]) \in P
          /\ Adds(PresentationObu(d.presentations[i])) = d.presentations[i].definitions
    BY PlainObus DEF Plain
  <2>2. DOMAIN p = DOMAIN d.presentations
        /\ \A i \in DOMAIN p : p[i] = PresentationObu(d.presentations[i])
    BY DEF PresentationObus
  <2> HIDE DEF p, P
  <2> QED  BY <2>1, <2>2 DEF Mapped, P
<1>8. /\ owned \in Seq(Seq(CarriedDefinition)) /\ DOMAIN owned = DOMAIN Elements(d)
      /\ mixed \in Seq(D)
  BY <1>3
<1>9. /\ ObserveAudioElements(Elements(d)) = Decoded(FlattenSeq(owned))
      /\ Definitions(d.presentations) = FlattenSeq(mixed)
  BY DEF ObserveAudioElements, Definitions
<1> HIDE DEF P, D, h, c, e, p, owned, mixed
<1>10. /\ MapsParts(P, D, adds, h, c) /\ h \o c \in Seq(P)
       /\ MapsParts(P, D, adds, h \o c, e) /\ (h \o c) \o e \in Seq(P)
       /\ MapsParts(P, D, adds, (h \o c) \o e, p)
  <2>1. h \o c \in Seq(P)
    BY <1>2
  <2>2. (h \o c) \o e \in Seq(P)
    BY <1>2, <2>1
  <2> QED  BY <1>1, <1>2, <2>1, <2>2, MappedConcat
<1>11. /\ Mapped(adds, h) \in Seq(D) /\ Mapped(adds, c) \in Seq(D)
       /\ Mapped(adds, e) \in Seq(D) /\ Mapped(adds, p) \in Seq(D)
  <2>1. /\ MapsMembers(P, D, adds, h) /\ MapsMembers(P, D, adds, c)
        /\ MapsMembers(P, D, adds, e) /\ MapsMembers(P, D, adds, p)
    BY <1>1, <1>2, MappedTyped
  <2> QED  BY <2>1 DEF MapsMembers
<1> DEFINE mh == Mapped(adds, h)
           mc == Mapped(adds, c)
           me == Mapped(adds, e)
           mp == Mapped(adds, p)
<1>12. Mapped(adds, Prologue(d)) = ((mh \o mc) \o me) \o mp
  BY <1>2, <1>10 DEF MapsParts
<1>13. /\ FlattenSeq(mh) = <<>> /\ FlattenSeq(mc) = <<>>
       /\ FlattenSeq(me) = ObserveAudioElements(Elements(d))
       /\ FlattenSeq(mp) = Definitions(d.presentations)
  <2>1. AllEmpty(mh) /\ AllEmpty(mc)
    BY <1>4, <1>5 DEF AllEmpty
  <2>2. FlattenSeq(mh) = <<>> /\ FlattenSeq(mc) = <<>>
    <3>1. mh \in Seq(Seq(Definition)) /\ mc \in Seq(Seq(Definition))
      BY <1>11 DEF D
    <3> HIDE DEF mh, mc
    <3> QED  BY <2>1, <3>1, FlattenSparse
  <2>3. Decoded(FlattenSeq(owned)) = FlattenSeq([i \in DOMAIN owned |-> Decoded(owned[i])])
    BY <1>8, DecodedTogether
  <2> QED  BY <1>6, <1>7, <1>8, <1>9, <2>2, <2>3
<1>14. /\ mh \in Seq(Seq(Definition)) /\ mc \in Seq(Seq(Definition))
       /\ me \in Seq(Seq(Definition)) /\ mp \in Seq(Seq(Definition))
  BY <1>11 DEF D
<1> HIDE DEF mh, mc, me, mp
<1>15. /\ FlattenSeq(mh \o mc) = FlattenSeq(mh) \o FlattenSeq(mc)
       /\ mh \o mc \in Seq(Seq(Definition))
  BY <1>14, FlattenConcat
<1> DEFINE mhc == mh \o mc
<1>16. mhc \in Seq(Seq(Definition))
  BY <1>15
<1> HIDE DEF mhc
<1>17. /\ FlattenSeq(mhc \o me) = FlattenSeq(mhc) \o FlattenSeq(me)
       /\ mhc \o me \in Seq(Seq(Definition))
  <2> DEFINE L == Seq(Definition)
  <2> HIDE DEF L
  <2>1. Concatenates(L, mhc, me)
    BY <1>14, <1>16, ConcatMembers DEF L
  <2> QED  BY <1>14, <1>16, <2>1, FlattenConcat DEF Concatenates, L
<1>18. FlattenSeq((mhc \o me) \o mp) = FlattenSeq(mhc \o me) \o FlattenSeq(mp)
  BY <1>14, <1>17, FlattenConcat
<1>19. /\ FlattenSeq(me) \in Seq(Definition) /\ FlattenSeq(mp) \in Seq(Definition)
       /\ <<>> \o <<>> = <<>>
       /\ \A s \in Seq(Definition) : <<>> \o s = s
  BY <1>14, FlattenMembers
<1>20. FromDescriptors(d) = FlattenSeq(me) \o FlattenSeq(mp)
  BY <1>13 DEF FromDescriptors, Elements
<1>21. FromDescriptors(d) \in Seq(Definition)
  BY <1>19, <1>20
<1>22. FlattenSeq(Mapped(adds, Prologue(d))) = FromDescriptors(d)
  <2>1. FlattenSeq(mhc) = <<>>
    BY <1>13, <1>15, <1>19 DEF mhc
  <2>2. FlattenSeq(mhc \o me) = FlattenSeq(me)
    BY <1>17, <1>19, <2>1
  <2>3. Mapped(adds, Prologue(d)) = (mhc \o me) \o mp
    BY <1>12 DEF mhc
  <2> QED  BY <1>18, <1>20, <2>2, <2>3
<1> QED  BY <1>1, <1>21, <1>22 DEF P, D

----------------------------------------------------------------------------
(* Units                                                                   *)

\* The model of one item of a unit.
ModelOf(item) ==
  IF item.kind = "delimiter" THEN DelimiterObu
    ELSE IF item.kind = "block" THEN BlockModel(item.block)
      ELSE FrameObu(item.frame.substream)

ModelObus == {ModelOf(item) : item \in ItemTypes}

Modelling == [item \in ItemTypes |-> ModelOf(item)]

LEMMA ItemKinds ==
  /\ Delimiter \in ItemTypes /\ Delimiter.kind = "delimiter"
  /\ \A block \in Blocks : BlockItem(block) \in ItemTypes
  /\ \A frame \in Frames : FrameItem(frame) \in ItemTypes
  /\ \A block : BlockItem(block).kind = "block" /\ BlockItem(block).block = block
  /\ \A frame : FrameItem(frame).kind = "frame" /\ FrameItem(frame).frame = frame
BY DEF ItemTypes, Delimiter, BlockItem, FrameItem

LEMMA ModellingTyped == Modelling \in [ItemTypes -> ModelObus]
BY DEF Modelling, ModelObus

\* The model of a unit has its items one for one.
LEMMA UnitModelled ==
  ASSUME NEW unit \in Units
  PROVE  UnitObus(unit) = Mapped(Modelling, Items(unit))
<1> DEFINE lead   == IF unit.delimiter THEN <<Delimiter>> ELSE <<>>
           blocks == [i \in DOMAIN unit.blocks |-> BlockItem(unit.blocks[i])]
           frames == [i \in DOMAIN unit.frames |-> FrameItem(unit.frames[i])]
<1>1. unit.blocks \in Seq(Blocks) /\ unit.frames \in Seq(Frames)
  BY UnitsAssumption
<1>2. lead \in Seq(ItemTypes)
  <2>1. <<Delimiter>> \in Seq(ItemTypes) /\ <<>> \in Seq(ItemTypes)
    BY ItemKinds
  <2> QED  BY <2>1
<1>3. blocks \in Seq(ItemTypes)
  <2>1. \A i \in 1..Len(unit.blocks) : BlockItem(unit.blocks[i]) \in ItemTypes
    BY <1>1, ItemKinds
  <2> QED  BY <1>1, <2>1
<1>4. frames \in Seq(ItemTypes)
  <2>1. \A i \in 1..Len(unit.frames) : FrameItem(unit.frames[i]) \in ItemTypes
    BY <1>1, ItemKinds
  <2> QED  BY <1>1, <2>1
<1>5. Mapped(Modelling, lead) = IF unit.delimiter THEN <<DelimiterObu>> ELSE <<>>
  <2>1. Delimiter \in ItemTypes /\ ModelOf(Delimiter) = DelimiterObu
    BY ItemKinds DEF ModelOf
  <2>2. Mapped(Modelling, <<Delimiter>>) = <<DelimiterObu>> /\ Mapped(Modelling, <<>>) = <<>>
    BY <2>1 DEF Mapped, Modelling
  <2> QED  BY <2>2
<1>6. Mapped(Modelling, blocks) = [i \in DOMAIN unit.blocks |-> BlockModel(unit.blocks[i])]
  <2>1. \A i \in DOMAIN unit.blocks :
          /\ BlockItem(unit.blocks[i]) \in ItemTypes
          /\ ModelOf(BlockItem(unit.blocks[i])) = BlockModel(unit.blocks[i])
    BY <1>1, ItemKinds, SeqMember DEF ModelOf
  <2> QED  BY <2>1 DEF Mapped, Modelling
<1>7. Mapped(Modelling, frames) = [i \in DOMAIN unit.frames |-> FrameObu(unit.frames[i].substream)]
  <2>1. \A i \in DOMAIN unit.frames :
          /\ FrameItem(unit.frames[i]) \in ItemTypes
          /\ ModelOf(FrameItem(unit.frames[i])) = FrameObu(unit.frames[i].substream)
    BY <1>1, ItemKinds, SeqMember DEF ModelOf
  <2> QED  BY <2>1 DEF Mapped, Modelling
<1>8. Items(unit) = (lead \o blocks) \o frames
  BY DEF Items
<1>9. UnitObus(unit) =
        (Mapped(Modelling, lead) \o Mapped(Modelling, blocks)) \o Mapped(Modelling, frames)
  BY <1>5, <1>6, <1>7 DEF UnitObus
<1> HIDE DEF lead, blocks, frames
<1>10. lead \o blocks \in Seq(ItemTypes)
  BY <1>2, <1>3
<1>11. MapsParts(ItemTypes, ModelObus, Modelling, lead, blocks)
  BY <1>2, <1>3, ModellingTyped, MappedConcat
<1>12. MapsParts(ItemTypes, ModelObus, Modelling, lead \o blocks, frames)
  BY <1>4, <1>10, ModellingTyped, MappedConcat
<1> QED  BY <1>8, <1>9, <1>11, <1>12 DEF MapsParts

AllItems(us) == FlattenSeq([i \in DOMAIN us |-> Items(us[i])])

AllModels(us) == FlattenSeq([i \in DOMAIN us |-> UnitObus(us[i])])

AllImages(r, us) == FlattenSeq([i \in DOMAIN us |-> Image(r, us[i])])

LEMMA ItemListsTyped ==
  ASSUME NEW us \in Seq(Units)
  PROVE  /\ [i \in DOMAIN us |-> Items(us[i])] \in Seq(Seq(ItemTypes))
         /\ AllItems(us) \in Seq(ItemTypes)
<1> DEFINE lists == [i \in DOMAIN us |-> Items(us[i])]
<1>1. lists = [i \in DOMAIN us |-> lists[i]] /\ \A i \in DOMAIN us : lists[i] \in Seq(ItemTypes)
  BY ItemsType, SeqMember
<1> HIDE DEF lists
<1>2. ListOf(Seq(ItemTypes), us, lists)
  BY <1>1, ListTyped
<1>3. lists \in Seq(Seq(ItemTypes))
  BY <1>2 DEF ListOf
<1>4. FlattenSeq(lists) \in Seq(ItemTypes)
  BY <1>3, FlattenMembers
<1> QED  BY <1>3, <1>4 DEF lists, AllItems

\* So has the model of a list of units, with the items of all.
LEMMA UnitsModelled ==
  ASSUME NEW us \in Seq(Units)
  PROVE  AllModels(us) = Mapped(Modelling, AllItems(us))
<1> DEFINE lists == [i \in DOMAIN us |-> Items(us[i])]
<1>1. lists \in Seq(Seq(ItemTypes)) /\ DOMAIN lists = DOMAIN us
      /\ \A i \in DOMAIN us : lists[i] = Items(us[i])
  BY ItemListsTyped
<1>2. \A i \in DOMAIN us : UnitObus(us[i]) = Mapped(Modelling, lists[i])
  BY <1>1, UnitModelled, SeqMember
<1> HIDE DEF lists
<1>3. MappedLists(Modelling, lists) = [i \in DOMAIN us |-> UnitObus(us[i])]
  BY <1>1, <1>2 DEF MappedLists
<1>4. FlattenSeq(MappedLists(Modelling, lists)) = Mapped(Modelling, FlattenSeq(lists))
  BY <1>1, ModellingTyped, FlattenMap
<1> QED  BY <1>3, <1>4 DEF lists, AllModels, AllItems

\* What the writer makes of them has, too.
LEMMA UnitsSerialized ==
  ASSUME NEW us \in Seq(Units), NEW r,
         \A i \in DOMAIN us : Acceptable(r, us[i])
  PROVE  /\ AllImages(r, us) = [k \in DOMAIN AllItems(us) |-> Serialize(r, AllItems(us)[k])]
         /\ \A k \in DOMAIN AllItems(us) : Serializable(r, AllItems(us)[k])
<1> DEFINE lists == [i \in DOMAIN us |-> Items(us[i])]
           g     == [item \in ItemTypes |-> Serialize(r, item)]
           R     == {Serialize(r, item) : item \in ItemTypes}
<1>1. lists \in Seq(Seq(ItemTypes)) /\ DOMAIN lists = DOMAIN us
      /\ \A i \in DOMAIN us : lists[i] = Items(us[i]) /\ lists[i] \in Seq(ItemTypes)
  BY ItemListsTyped, ItemsType, SeqMember
<1>2. g \in [ItemTypes -> R] /\ \A item \in ItemTypes : g[item] = Serialize(r, item)
  OBVIOUS
<1>3. AllItems(us) = FlattenSeq(lists) /\ AllItems(us) \in Seq(ItemTypes)
  BY ItemListsTyped DEF AllItems
<1> HIDE DEF lists, g, R
<1>4. \A i \in DOMAIN us : Image(r, us[i]) = Mapped(g, lists[i])
  <2>1. \A i \in DOMAIN us : \A j \in DOMAIN lists[i] : lists[i][j] \in ItemTypes
    BY <1>1, SeqMember
  <2> QED  BY <1>1, <1>2, <2>1 DEF Image, Mapped
<1>5. MappedLists(g, lists) = [i \in DOMAIN us |-> Image(r, us[i])]
  BY <1>1, <1>4 DEF MappedLists
<1>6. FlattenSeq(MappedLists(g, lists)) = Mapped(g, FlattenSeq(lists))
  BY <1>1, <1>2, FlattenMap
<1>7. AllImages(r, us) = Mapped(g, AllItems(us))
  BY <1>3, <1>5, <1>6 DEF AllImages
<1>8. Mapped(g, AllItems(us)) = [k \in DOMAIN AllItems(us) |-> Serialize(r, AllItems(us)[k])]
  BY <1>2, <1>3, SeqMember DEF Mapped
<1>9. ASSUME NEW k \in DOMAIN AllItems(us) PROVE Serializable(r, AllItems(us)[k])
  <2>1. PICK i \in DOMAIN lists : \E j \in DOMAIN lists[i] : FlattenSeq(lists)[k] = lists[i][j]
    BY <1>1, <1>3, FlattenMembers
  <2> QED  BY <1>1, <1>3, <2>1 DEF Acceptable
<1> QED  BY <1>7, <1>8, <1>9

----------------------------------------------------------------------------
(* One OBU, written and read                                               *)

\* What is serialised of an item is its model on the wire.
LEMMA ItemFramed ==
  ASSUME NEW r, NEW item \in ItemTypes, Serializable(r, item)
  PROVE  Framed(Serialize(r, item)) = <<OnWire(ModelOf(item))>>
<1>1. CASE item = Delimiter
  BY <1>1 DEF Delimiter, Serialize, Framed, ModelOf, DelimiterObu, OnWire
<1>2. CASE item \in [kind : {"block"}, block : Blocks]
  <2>1. item.kind = "block" /\ GoverningShape(r, item.block.param) = item.block.shape
    BY <1>2 DEF Serializable, BlockFits
  <2>2. Framed(Serialize(r, item)) = <<BlockObu(item.block.param, item.block.shape)>>
    BY <2>1 DEF Serialize, Framed
  <2>3. OnWire(ModelOf(item)) = BlockObu(item.block.param, item.block.shape)
    BY <2>1 DEF ModelOf, BlockModel, OnWire
  <2> QED  BY <2>2, <2>3
<1>3. CASE item \in [kind : {"frame"}, frame : Frames]
  BY <1>3 DEF Serialize, Framed, ModelOf, FrameObu, OnWire
<1> QED  BY <1>1, <1>2, <1>3 DEF ItemTypes

\* An OBU as the flat writer takes it and the reader finds it.
Reads(r, obu) ==
  /\ CanWrite(r, obu)
  /\ ~MayFail(r, OnWire(obu))
  /\ Parse(r, OnWire(obu)) = obu
  /\ Observe(r, OnWire(obu)) = Observe(r, obu)

\* That model reads back under the registry the item was serialised under.
LEMMA ItemReads ==
  ASSUME NEW r, NEW item \in ItemTypes, Serializable(r, item)
  PROVE  Reads(r, ModelOf(item)) /\ Observe(r, ModelOf(item)) = r
<1>1. CASE item = Delimiter
  <2>1. ModelOf(item) = [kind |-> "delimiter"]
    BY <1>1 DEF Delimiter, ModelOf, DelimiterObu
  <2> QED  BY <2>1 DEF Reads, CanWrite, MayFail, Parse, OnWire, Observe, IsRefused
<1>2. CASE item \in [kind : {"block"}, block : Blocks]
  <2> DEFINE b == item.block
             m == [kind |-> "block", param |-> b.param, body |-> b.shape, shape |-> b.shape]
             w == [kind |-> "block", param |-> b.param, body |-> b.shape]
  <2>1. /\ item.kind = "block" /\ IsGoverned(r, b.param) /\ GoverningShape(r, b.param) = b.shape
    BY <1>2 DEF Serializable, BlockFits
  <2>2. ModelOf(item) = m /\ OnWire(m) = w
    BY <2>1 DEF ModelOf, BlockModel, OnWire, BlockObu
  <2>3. CanWrite(r, m) /\ ~MayFail(r, w) /\ Observe(r, m) = r /\ Observe(r, w) = r
    BY <2>1 DEF CanWrite, MayFail, Observe, IsRefused
  <2>4. Parse(r, w) = m
    <3>1. Parse(r, w) = [field \in DOMAIN w \cup {"shape"} |->
                           IF field = "shape" THEN b.shape ELSE w[field]]
      BY <2>1 DEF Parse
    <3> QED  BY <3>1
  <2> HIDE DEF m, w
  <2> QED  BY <2>2, <2>3, <2>4 DEF Reads
<1>3. CASE item \in [kind : {"frame"}, frame : Frames]
  <2>1. ModelOf(item) = [kind |-> "frame", substream |-> item.frame.substream]
    BY <1>3 DEF ModelOf, FrameObu
  <2> QED  BY <2>1 DEF Reads, CanWrite, MayFail, Parse, OnWire, Observe, IsRefused
<1> QED  BY <1>1, <1>2, <1>3 DEF ItemTypes

\* So does a descriptor, under any registry.
LEMMA PlainReads ==
  ASSUME NEW obu, IsPlain(obu), NEW r
  PROVE  Reads(r, obu)
<1>1. obu.kind # "block" /\ ~IsRefused(obu) /\ OnWire(obu) = obu
  BY DEF IsPlain, Temporal
<1> QED  BY <1>1 DEF Reads, CanWrite, MayFail, Parse

----------------------------------------------------------------------------
(* The model of a whole file                                               *)

\* Descriptors and units a writer accepts.
Accepts(d, us) ==
  /\ d \in DescriptorSets
  /\ us \in Seq(Units)
  /\ \A i \in DOMAIN us : Acceptable(FromDescriptors(d), us[i])

\* The model is the prologue and then one OBU for each item.
ModelShape(d, us, model, p) ==
  /\ model \in Seq(Plain(d) \cup ModelObus)
  /\ p \in Nat /\ p >= 1 /\ p = Len(Prologue(d)) /\ Len(AllItems(us)) \in Nat
  /\ Len(model) = p + Len(AllItems(us))
  /\ DOMAIN model = 1..(p + Len(AllItems(us)))
  /\ \A i \in 1..p : model[i] = Prologue(d)[i] /\ model[i] \in Plain(d)
  /\ \A k \in 1..Len(AllItems(us)) :
       /\ AllItems(us)[k] \in ItemTypes
       /\ model[p + k] = ModelOf(AllItems(us)[k])

LEMMA ModelIsShaped ==
  ASSUME NEW d, NEW us, Accepts(d, us)
  PROVE  /\ ModelShape(d, us, FromParts(d, us), Len(Prologue(d)))
         /\ AllModels(us) \in Seq(ModelObus) /\ FromParts(d, us) = Prologue(d) \o AllModels(us)
<1> DEFINE P == Prologue(d)
           T == AllModels(us)
           F == AllItems(us)
           S == Plain(d) \cup ModelObus
<1>1. FromParts(d, us) = P \o T
  BY DEF FromParts, Prologue, AllModels, CodecObus, ElementObus, PresentationObus, Codecs, Elements
<1>2. P \in Seq(Plain(d)) /\ P # <<>>
  BY PrologueTyped DEF Accepts
<1>3. F \in Seq(ItemTypes) /\ T = Mapped(Modelling, F)
  BY ItemListsTyped, UnitsModelled DEF Accepts
<1>4. \A item \in ItemTypes : Modelling[item] = ModelOf(item)
  BY DEF Modelling
<1> HIDE DEF P, T, F
<1>5. /\ T \in Seq(ModelObus) /\ Len(T) = Len(F)
      /\ \A k \in 1..Len(F) : T[k] = ModelOf(F[k]) /\ F[k] \in ItemTypes
  <2>1. MapsMembers(ItemTypes, ModelObus, Modelling, F)
    BY <1>3, ModellingTyped, MappedTyped
  <2>2. \A k \in 1..Len(F) : F[k] \in ItemTypes
    BY <1>3
  <2> QED  BY <1>3, <1>4, <2>1, <2>2 DEF MapsMembers
<1>6. P \in Seq(S) /\ T \in Seq(S)
  BY <1>2, <1>5
<1>7. Len(P) \in Nat /\ Len(P) >= 1 /\ Len(F) \in Nat
      /\ \A i \in 1..Len(P) : P[i] \in Plain(d)
  BY <1>2, <1>3, EmptySeq
<1> HIDE DEF S
<1>8. Concatenates(S, P, T)
  BY <1>6, ConcatMembers
<1>9. ModelShape(d, us, P \o T, Len(P))
  BY <1>5, <1>7, <1>8 DEF Concatenates, ModelShape, S, P, F
<1> QED  BY <1>1, <1>5, <1>9 DEF P, T

\* The registry that the first n OBUs of a sequence make.
RegistryAt(obus, n) == FlattenSeq([i \in 1..n |-> Adds(obus[i])])

LEMMA ItemAdds ==
  ASSUME NEW item \in ItemTypes
  PROVE  Adds(ModelOf(item)) = <<>>
<1>1. item.kind \in {"delimiter", "block", "frame"}
  BY DEF ItemTypes, Delimiter
<1>2. ModelOf(item).kind \in {"delimiter", "block", "frame"}
  BY <1>1 DEF ModelOf, DelimiterObu, BlockModel, FrameObu
<1> QED  BY <1>2 DEF Adds, Observe

LEMMA ModelAdds ==
  ASSUME NEW d, NEW us, Accepts(d, us), NEW model, NEW p, ModelShape(d, us, model, p)
  PROVE  \A i \in 1..Len(model) : Adds(model[i]) \in Seq(Definition)
<1> SUFFICES ASSUME NEW i \in 1..Len(model) PROVE Adds(model[i]) \in Seq(Definition)
  OBVIOUS
<1>1. CASE i \in 1..p
  BY <1>1, PlainObus DEF ModelShape, Accepts, IsPlain
<1>2. CASE i \notin 1..p
  <2> DEFINE k == i - p
  <2>1. k \in 1..Len(AllItems(us)) /\ i = p + k
    BY <1>2 DEF ModelShape
  <2> HIDE DEF k
  <2>2. Adds(model[i]) = <<>>
    BY <2>1, ItemAdds DEF ModelShape
  <2> QED  BY <2>2
<1> QED  BY <1>1, <1>2

\* Each OBU adds to the registry at its end.
LEMMA RegistryGrows ==
  ASSUME NEW obus, NEW n \in Nat, \A i \in 1..(n + 1) : Adds(obus[i]) \in Seq(Definition)
  PROVE  /\ RegistryAt(obus, n) \in Seq(Definition)
         /\ RegistryAt(obus, n + 1) = RegistryAt(obus, n) \o Adds(obus[n + 1])
<1> DEFINE lists(m) == [i \in 1..m |-> Adds(obus[i])]
           D == Seq(Definition)
           x == Adds(obus[n + 1])
<1>1. /\ lists(n) \in Seq(D) /\ lists(n + 1) \in Seq(D) /\ x \in D
      /\ Len(lists(n)) = n /\ Len(lists(n + 1)) = n + 1
      /\ \A i \in 1..n : lists(n + 1)[i] = lists(n)[i]
      /\ lists(n + 1)[n + 1] = x
  OBVIOUS
<1>2. RegistryAt(obus, n) = FlattenSeq(lists(n)) /\ RegistryAt(obus, n + 1) = FlattenSeq(lists(n + 1))
  BY DEF RegistryAt
<1> HIDE DEF lists, D, x
<1>3. lists(n + 1) = Append(lists(n), x)
  <2>1. /\ Append(lists(n), x) \in Seq(D) /\ Len(Append(lists(n), x)) = n + 1
        /\ \A i \in 1..n : Append(lists(n), x)[i] = lists(n)[i]
        /\ Append(lists(n), x)[n + 1] = x
    BY <1>1, AppendMembers
  <2>2. \A i \in 1..(n + 1) : i \in 1..n \/ i = n + 1
    OBVIOUS
  <2> QED  BY <1>1, <2>1, <2>2, SeqEqual
<1>4. FlattenSeq(Append(lists(n), x)) = FlattenSeq(lists(n)) \o x
      /\ FlattenSeq(lists(n)) \in Seq(Definition)
  BY <1>1, FlattenAppend, FlattenMembers DEF D
<1> QED  BY <1>2, <1>3, <1>4 DEF x

\* Past the prologue the registry is the one the writer made of the set.
LEMMA RegistryPublished ==
  ASSUME NEW d, NEW us, Accepts(d, us), NEW model, NEW p, ModelShape(d, us, model, p)
  PROVE  \A k \in 0..Len(AllItems(us)) : RegistryAt(model, p + k) = FromDescriptors(d)
<1> DEFINE reg == FromDescriptors(d)
           m   == Len(AllItems(us))
           T   == {k \in Nat : k <= m => RegistryAt(model, p + k) = reg}
<1>1. /\ p \in Nat /\ m \in Nat /\ Len(model) = p + m
      /\ \A i \in 1..p : model[i] = Prologue(d)[i] /\ model[i] \in Plain(d)
      /\ \A k \in 1..m : AllItems(us)[k] \in ItemTypes /\ model[p + k] = ModelOf(AllItems(us)[k])
  BY DEF ModelShape
<1>7. \A i \in 1..(p + m) : Adds(model[i]) \in Seq(Definition)
  BY <1>1, ModelAdds
<1>2. reg \in Seq(Definition) /\ reg \o <<>> = reg
  <2>1. reg \in Seq(Definition)
    BY PrologueAdds DEF Accepts
  <2> QED  BY <2>1
<1>3. RegistryAt(model, p) = reg
  <2> DEFINE adds == [obu \in Plain(d) |-> Adds(obu)]
  <2>1. FlattenSeq(Mapped(adds, Prologue(d))) = reg
    BY PrologueAdds DEF Accepts
  <2>2. \A obu \in Plain(d) : adds[obu] = Adds(obu)
    OBVIOUS
  <2> HIDE DEF adds
  <2>3. DOMAIN Prologue(d) = 1..p
    BY PrologueTyped DEF Accepts, ModelShape
  <2>4. Mapped(adds, Prologue(d)) = [i \in 1..p |-> Adds(model[i])]
    BY <1>1, <2>2, <2>3 DEF Mapped
  <2> QED  BY <2>1, <2>4 DEF RegistryAt
<1> HIDE DEF reg, m
<1>4. 0 \in T
  BY <1>1, <1>3
<1>5. ASSUME NEW k \in Nat, k \in T PROVE k + 1 \in T
  <2> SUFFICES ASSUME k + 1 <= m PROVE RegistryAt(model, p + (k + 1)) = reg
    OBVIOUS
  <2> DEFINE n == p + k
  <2>1. n \in Nat /\ n + 1 = p + (k + 1) /\ n + 1 <= p + m /\ k + 1 \in 1..m
    BY <1>1
  <2>2. RegistryAt(model, n) = reg
    BY <1>1, <1>5
  <2> HIDE DEF n
  <2>3. \A i \in 1..(n + 1) : Adds(model[i]) \in Seq(Definition)
    BY <1>1, <1>7, <2>1
  <2>4. RegistryAt(model, n + 1) = RegistryAt(model, n) \o Adds(model[n + 1])
    BY <2>1, <2>3, RegistryGrows
  <2>5. Adds(model[n + 1]) = <<>>
    <3>1. AllItems(us)[k + 1] \in ItemTypes /\ model[n + 1] = ModelOf(AllItems(us)[k + 1])
      BY <1>1, <2>1
    <3> QED  BY <3>1, ItemAdds
  <2> QED  BY <1>2, <2>1, <2>2, <2>4, <2>5
<1> HIDE DEF T
<1>6. Nat \subseteq T
  BY <1>4, <1>5, NaturalSteps
<1> QED  BY <1>1, <1>6 DEF T, reg, m

\* Every OBU of a sequence reads back under what those before it publish.
ReadsThrough(obus) ==
  /\ RegistryAt(obus, 0) = <<>>
  /\ \A n \in 0..(Len(obus) - 1) :
       /\ Reads(RegistryAt(obus, n), obus[n + 1])
       /\ Observe(RegistryAt(obus, n), obus[n + 1]) = RegistryAt(obus, n + 1)

LEMMA ModelReadsThrough ==
  ASSUME NEW d, NEW us, Accepts(d, us)
  PROVE  ReadsThrough(FromParts(d, us))
<1> DEFINE model == FromParts(d, us)
           p     == Len(Prologue(d))
           reg   == FromDescriptors(d)
<1>1. ModelShape(d, us, model, p)
  BY ModelIsShaped
<1> HIDE DEF model, p, reg
<1>2. RegistryAt(model, 0) = <<>>
  <2>1. [i \in 1..0 |-> Adds(model[i])] = <<>>
    OBVIOUS
  <2> QED  BY <2>1, FlattenEmpty DEF RegistryAt
<1>3. ASSUME NEW n \in 0..(Len(model) - 1)
      PROVE  /\ Reads(RegistryAt(model, n), model[n + 1])
             /\ Observe(RegistryAt(model, n), model[n + 1]) = RegistryAt(model, n + 1)
  <2>1. /\ n \in Nat /\ p \in Nat /\ Len(AllItems(us)) \in Nat
        /\ Len(model) = p + Len(AllItems(us))
        /\ n + 1 \in 1..Len(model)
    BY <1>1 DEF ModelShape
  <2>2. \A i \in 1..(n + 1) : Adds(model[i]) \in Seq(Definition)
    BY <1>1, <2>1, ModelAdds
  <2>3. /\ RegistryAt(model, n) \in Seq(Definition)
        /\ RegistryAt(model, n + 1) = RegistryAt(model, n) \o Adds(model[n + 1])
    BY <2>1, <2>2, RegistryGrows
  <2>4. CASE n + 1 \in 1..p
    <3>1. IsPlain(model[n + 1])
      BY <1>1, <2>4, PlainObus DEF ModelShape, Accepts
    <3>2. Observe(RegistryAt(model, n), model[n + 1]) = RegistryAt(model, n + 1)
      BY <2>3, <3>1 DEF IsPlain
    <3> QED  BY <3>1, <3>2, PlainReads
  <2>5. CASE n + 1 \notin 1..p
    <3> DEFINE k == n + 1 - p
    <3>1. /\ k \in 1..Len(AllItems(us)) /\ n + 1 = p + k
          /\ k - 1 \in 0..Len(AllItems(us)) /\ n = p + (k - 1) /\ k \in 0..Len(AllItems(us))
      BY <2>1, <2>5
    <3> HIDE DEF k
    <3>2. RegistryAt(model, n) = reg /\ RegistryAt(model, n + 1) = reg
      BY <1>1, <3>1, RegistryPublished DEF reg
    <3>3. model[n + 1] = ModelOf(AllItems(us)[k]) /\ AllItems(us)[k] \in ItemTypes
      BY <1>1, <3>1 DEF ModelShape
    <3>4. Serializable(reg, AllItems(us)[k])
      <4>1. k \in DOMAIN AllItems(us)
        BY <3>1, ItemListsTyped DEF Accepts
      <4> QED  BY <4>1, UnitsSerialized DEF Accepts, reg
    <3> QED  BY <3>2, <3>3, <3>4, ItemReads
  <2> QED  BY <2>4, <2>5
<1> QED  BY <1>2, <1>3 DEF ReadsThrough, model

FirstOf(obus, n) == [i \in 1..n |-> obus[i]]

Sent(obus, n) == [i \in 1..n |-> OnWire(obus[i])]

\* The flat writer takes such a sequence, and all of its beginnings.
LEMMA WrittenThrough ==
  ASSUME NEW S, NEW obus \in Seq(S), ReadsThrough(obus)
  PROVE  \A n \in 0..Len(obus) :
           WriteParsedSequence(FirstOf(obus, n)) =
             [accepted |-> TRUE, registry |-> RegistryAt(obus, n), wire |-> Sent(obus, n)]
<1> DEFINE Right(n) == WriteParsedSequence(FirstOf(obus, n)) =
                         [accepted |-> TRUE, registry |-> RegistryAt(obus, n), wire |-> Sent(obus, n)]
           T == {n \in Nat : n <= Len(obus) => Right(n)}
<1>1. Len(obus) \in Nat /\ \A i \in 1..Len(obus) : obus[i] \in S
  OBVIOUS
<1>2. 0 \in T
  <2>1. FirstOf(obus, 0) = <<>> /\ Sent(obus, 0) = <<>>
    BY DEF FirstOf, Sent
  <2> QED  BY <2>1, WriteEmpty DEF ReadsThrough, Blank
<1>3. ASSUME NEW n \in Nat, n \in T PROVE n + 1 \in T
  <2> SUFFICES ASSUME n + 1 <= Len(obus) PROVE Right(n + 1)
    OBVIOUS
  <2> DEFINE x   == obus[n + 1]
             reg == RegistryAt(obus, n)
  <2>1. n \in 0..(Len(obus) - 1) /\ n + 1 \in 1..Len(obus) /\ n <= Len(obus)
    BY <1>1
  <2>2. CanWrite(reg, x) /\ Observe(reg, x) = RegistryAt(obus, n + 1)
    BY <2>1 DEF ReadsThrough, Reads
  <2>3. Right(n)
    BY <1>3, <2>1
  <2>4. FirstOf(obus, n) \in Seq(S)
    BY <1>1, <2>1 DEF FirstOf
  <2>5. FirstOf(obus, n + 1) = Append(FirstOf(obus, n), x)
    BY DEF FirstOf
  <2>6. Sent(obus, n + 1) = Append(Sent(obus, n), OnWire(x))
    BY DEF Sent
  <2> HIDE DEF x, reg
  <2>7. WriteParsedSequence(FirstOf(obus, n + 1))
          = WriteNext(WriteParsedSequence(FirstOf(obus, n)), x)
    BY <2>4, <2>5, WriteAppend
  <2>8. WriteParsedSequence(FirstOf(obus, n)) =
          [accepted |-> TRUE, registry |-> reg, wire |-> Sent(obus, n)]
    BY <2>3 DEF reg
  <2>9. WriteNext([accepted |-> TRUE, registry |-> reg, wire |-> Sent(obus, n)], x) =
          [accepted |-> TRUE, registry |-> RegistryAt(obus, n + 1), wire |-> Sent(obus, n + 1)]
    BY <2>2, <2>6 DEF WriteNext
  <2> QED  BY <2>7, <2>8, <2>9
<1> HIDE DEF T
<1>4. Nat \subseteq T
  BY <1>2, <1>3, NaturalSteps
<1> QED  BY <1>1, <1>4 DEF T

----------------------------------------------------------------------------
(* The file of a model                                                     *)

\* What the writer is asked to write of them: the prologue, and one OBU for
\* each item.
AsksFor(d, us, s) ==
  /\ s \in Seq(Obus)
  /\ Len(s) = 1 + Len(AllItems(us))
  /\ s[1] = PrologueObu(d)
  /\ \A k \in 1..Len(AllItems(us)) : s[1 + k] = Serialize(FromDescriptors(d), AllItems(us)[k])

\* Each of them is framed as the next OBUs of the model on the wire.
LEMMA AskedFramed ==
  ASSUME NEW d, NEW us, Accepts(d, us), NEW asked, AsksFor(d, us, asked)
  PROVE  LET model == FromParts(d, us)
             p     == Len(Prologue(d))
         IN  /\ Framed(asked[1]) = Prologue(d)
             /\ \A i \in 1..p : Prologue(d)[i] = OnWire(model[i])
             /\ \A k \in 1..Len(AllItems(us)) : Framed(asked[1 + k]) = <<OnWire(model[p + k])>>
<1> DEFINE model == FromParts(d, us)
           P     == Prologue(d)
           p     == Len(P)
           reg   == FromDescriptors(d)
           F     == AllItems(us)
<1>1. /\ Len(F) \in Nat
      /\ \A i \in 1..p : model[i] = P[i] /\ model[i] \in Plain(d)
      /\ \A k \in 1..Len(F) : F[k] \in ItemTypes /\ model[p + k] = ModelOf(F[k])
  <2>1. ModelShape(d, us, model, p)
    BY ModelIsShaped
  <2> HIDE DEF model, p
  <2> QED  BY <2>1 DEF ModelShape
<1>2. Framed(asked[1]) = P
  <2>1. PrologueObu(d).kind = "descriptors" /\ PrologueObu(d).owners = WriteDescriptors(d)
    BY DEF PrologueObu
  <2> QED  BY <2>1, PrologueTyped DEF AsksFor, Framed, Accepts
<1>3. \A k \in 1..Len(F) : Framed(asked[1 + k]) = <<OnWire(model[p + k])>>
  <2> TAKE k \in 1..Len(F)
  <2>1. k \in DOMAIN F
    BY <1>1, ItemListsTyped DEF Accepts
  <2>2. Serializable(reg, F[k])
    BY <2>1, UnitsSerialized DEF Accepts
  <2>3. asked[1 + k] = Serialize(reg, F[k])
    BY DEF AsksFor
  <2> QED  BY <1>1, <2>2, <2>3, ItemFramed
<1>4. \A i \in 1..p : P[i] = OnWire(model[i])
  <2>1. \A i \in 1..p : OnWire(model[i]) = model[i]
    BY <1>1, PlainObus DEF IsPlain, Accepts
  <2> QED  BY <1>1, <2>1
<1> QED  BY <1>2, <1>3, <1>4

\* Its first OBUs are the model's first OBUs on the wire.
LEMMA WireOfAsked ==
  ASSUME NEW d, NEW us, Accepts(d, us), NEW asked, AsksFor(d, us, asked),
         NEW m \in 0..Len(AllItems(us))
  PROVE  Wire(FirstOf(asked, 1 + m)) = Sent(FromParts(d, us), Len(Prologue(d)) + m)
<1> DEFINE model == FromParts(d, us)
           P     == Prologue(d)
           p     == Len(P)
           F     == AllItems(us)
           W     == {OnWire(model[i]) : i \in 1..Len(model)}
           tail  == [k \in 1..m |-> OnWire(model[p + k])]
           ones  == [k \in DOMAIN tail |-> <<tail[k]>>]
           lists == [i \in 1..(1 + m) |-> Framed(asked[i])]
<1>1. /\ p \in Nat /\ p >= 1 /\ Len(F) \in Nat /\ m \in Nat /\ m <= Len(F)
      /\ Len(model) = p + Len(F)
      /\ \A i \in 1..p : model[i] = P[i] /\ model[i] \in Plain(d)
      /\ \A k \in 1..Len(F) : F[k] \in ItemTypes /\ model[p + k] = ModelOf(F[k])
  <2>1. ModelShape(d, us, model, p)
    BY ModelIsShaped
  <2> HIDE DEF model, p
  <2> QED  BY <2>1 DEF ModelShape
<1>2. P \in Seq(Plain(d)) /\ DOMAIN P = 1..p
  BY PrologueTyped DEF Accepts
<1>3. /\ Framed(asked[1]) = P
      /\ \A i \in 1..p : P[i] = OnWire(model[i])
      /\ \A k \in 1..Len(F) : Framed(asked[1 + k]) = <<OnWire(model[p + k])>>
  BY AskedFramed
<1>4. Wire(FirstOf(asked, 1 + m)) = FlattenSeq(lists)
  BY DEF Wire, FirstOf
<1> HIDE DEF model, P, p, F
<1>5. P \in Seq(W)
  <2>1. \A i \in 1..p : P[i] \in W
    BY <1>1, <1>3
  <2> QED  BY <1>2, <2>1 DEF p
<1>6. tail \in Seq(W) /\ Len(tail) = m
  <2>1. \A k \in 1..m : p + k \in 1..Len(model)
    BY <1>1
  <2> QED  BY <1>1, <2>1
<1>7. lists = <<P>> \o ones
  <2>1. DOMAIN tail = 1..m
    OBVIOUS
  <2> DEFINE both == <<P>> \o ones
  <2>2. /\ DOMAIN both = 1..(1 + m) /\ both[1] = P
        /\ \A k \in 1..m : both[1 + k] = <<tail[k]>>
    BY <1>1, <2>1
  <2>3. both = [i \in 1..(1 + m) |-> both[i]]
    BY <1>1, <2>1
  <2> HIDE DEF both
  <2>4. \A i \in 1..(1 + m) : i = 1 \/ \E k \in 1..m : i = 1 + k
    <3> TAKE i \in 1..(1 + m)
    <3>1. i = 1 \/ (i - 1 \in 1..m /\ i = 1 + (i - 1))
      BY <1>1
    <3> QED  BY <3>1
  <2>5. \A i \in 1..(1 + m) : Framed(asked[i]) = both[i]
    <3>1. \A k \in 1..m : tail[k] = OnWire(model[p + k]) /\ k \in 1..Len(F)
      BY <1>1
    <3> HIDE DEF tail
    <3>2. \A k \in 1..m : Framed(asked[1 + k]) = both[1 + k]
      BY <1>3, <2>2, <3>1
    <3> QED  BY <1>3, <2>2, <2>4, <3>2
  <2>6. lists = [i \in 1..(1 + m) |-> both[i]]
    BY <2>5
  <2> QED  BY <2>3, <2>6 DEF both
<1>8. FlattenSeq(lists) = P \o tail
  <2> HIDE DEF W, tail, lists
  <2>1. /\ <<P>> \in Seq(Seq(W)) /\ FlattenSeq(<<P>>) = P
        /\ FlattenSeq(ones) = tail
    BY <1>5, <1>6, FlattenOne, FlattenSingles
  <2>2. ones \in Seq(Seq(W))
    <3>1. ones = [k \in DOMAIN tail |-> ones[k]] /\ \A k \in DOMAIN tail : ones[k] \in Seq(W)
      BY <1>6, SeqMember
    <3> HIDE DEF ones
    <3>2. ListOf(Seq(W), tail, ones)
      BY <1>6, <3>1, ListTyped
    <3> QED  BY <3>2 DEF ListOf
  <2> HIDE DEF ones
  <2>3. FlattenSeq(<<P>> \o ones) = FlattenSeq(<<P>>) \o FlattenSeq(ones)
    BY <2>1, <2>2, FlattenConcat
  <2> QED  BY <1>7, <2>1, <2>3
<1>9. P \o tail = Sent(model, p + m)
  <2>1. Concatenates(W, P, tail) /\ P \o tail \in Seq(W) /\ Len(P) = p
    <3> HIDE DEF W, tail
    <3> QED  BY <1>5, <1>6, ConcatMembers DEF p
  <2> DEFINE all == P \o tail
  <2>2. /\ DOMAIN all = 1..(p + m) /\ all \in Seq(W)
        /\ \A i \in 1..p : all[i] = P[i]
        /\ \A k \in 1..m : all[p + k] = tail[k]
    <3> HIDE DEF W, tail
    <3> QED  BY <1>1, <1>6, <2>1 DEF Concatenates
  <2>3. \A i \in 1..(p + m) : i \in 1..p \/ \E k \in 1..m : i = p + k
    <3> TAKE i \in 1..(p + m)
    <3>1. i \in 1..p \/ (i - p \in 1..m /\ i = p + (i - p))
      BY <1>1
    <3> QED  BY <3>1
  <2>4. \A k \in 1..m : tail[k] = OnWire(model[p + k])
    OBVIOUS
  <2> HIDE DEF tail, all, W
  <2>5. \A k \in 1..m : all[p + k] = OnWire(model[p + k])
    BY <2>2, <2>4
  <2>6. \A i \in 1..(p + m) : all[i] = OnWire(model[i])
    BY <1>3, <2>2, <2>3, <2>5
  <2>7. all = [i \in 1..(p + m) |-> all[i]]
    BY <2>2
  <2> QED  BY <2>6, <2>7 DEF Sent, all
<1> QED  BY <1>4, <1>8, <1>9 DEF model, P, p

\* The buffer after so many is framed as the OBUs that follow those.
NextBuffer(model, w, rest) ==
  /\ Len(rest) \in Nat \ {0} /\ w + Len(rest) <= Len(model)
  /\ \A j \in 1..Len(rest) : rest[j] = OnWire(model[w + j])

LEMMA BeginningOfAsked ==
  ASSUME NEW d, NEW us, Accepts(d, us), NEW asked, AsksFor(d, us, asked), NEW n \in 0..Len(asked)
  PROVE  \E w \in Nat :
           /\ Wire(FirstOf(asked, n)) = Sent(FromParts(d, us), w)
           /\ w <= Len(FromParts(d, us))
           /\ n = Len(asked) => w = Len(FromParts(d, us))
           /\ n < Len(asked) => NextBuffer(FromParts(d, us), w, Framed(asked[n + 1]))
<1> DEFINE model == FromParts(d, us)
           P     == Prologue(d)
           p     == Len(P)
           F     == AllItems(us)
<1>1. /\ p \in Nat /\ p >= 1 /\ Len(F) \in Nat /\ Len(model) = p + Len(F)
      /\ Len(asked) = 1 + Len(F) /\ n \in Nat
  <2>1. ModelShape(d, us, model, p) /\ Len(asked) = 1 + Len(F)
    BY ModelIsShaped DEF AsksFor
  <2> HIDE DEF model, p
  <2> QED  BY <2>1 DEF ModelShape
<1>2. /\ Framed(asked[1]) = P
      /\ \A i \in 1..p : P[i] = OnWire(model[i])
      /\ \A k \in 1..Len(F) : Framed(asked[1 + k]) = <<OnWire(model[p + k])>>
  BY AskedFramed
<1>3. CASE n = 0
  <2>1. Wire(FirstOf(asked, n)) = Sent(model, 0)
    <3>1. FirstOf(asked, n) = <<>> /\ Sent(model, 0) = <<>> /\ Wire(<<>>) = FlattenSeq(<<>>)
      BY <1>3 DEF FirstOf, Sent, Wire
    <3> QED  BY <3>1, FlattenEmpty
  <2> HIDE DEF model, P, p, F
  <2>2. NextBuffer(model, 0, Framed(asked[n + 1]))
    BY <1>1, <1>2, <1>3 DEF NextBuffer, p
  <2> QED  BY <1>1, <1>3, <2>1, <2>2 DEF model
<1>4. CASE n # 0
  <2> DEFINE m == n - 1
             w == p + m
  <2>1. /\ m \in 0..Len(F) /\ n = 1 + m /\ w \in Nat /\ w <= Len(model)
        /\ n = Len(asked) => w = Len(model)
        /\ n < Len(asked) => m + 1 \in 1..Len(F) /\ w + 1 = p + (m + 1) /\ w + 1 <= Len(model)
                             /\ n + 1 = 1 + (m + 1)
    BY <1>1, <1>4
  <2>2. Wire(FirstOf(asked, 1 + m)) = Sent(model, p + m)
    BY <2>1, WireOfAsked
  <2> HIDE DEF m, model, P, p, F
  <2>3. ASSUME n < Len(asked) PROVE NextBuffer(model, w, Framed(asked[n + 1]))
    <3> DEFINE rest == Framed(asked[n + 1])
    <3>1. rest = <<OnWire(model[w + 1])>>
      BY <1>2, <2>1, <2>3
    <3>2. Len(rest) = 1 /\ rest[1] = OnWire(model[w + 1])
      BY <3>1
    <3> HIDE DEF rest, w
    <3> QED  BY <2>1, <2>3, <3>2 DEF NextBuffer, rest
  <2> QED  BY <2>1, <2>2, <2>3 DEF model
<1> QED  BY <1>3, <1>4

----------------------------------------------------------------------------
(* What the writer was given                                               *)

\* The history agrees with the writer: before a set is accepted nothing is
\* asked for; from then on the set, and the units accepted under it, are.
Given ==
  /\ units \in Seq(Units)
  /\ set = <<>> =>
       state = "Fresh" /\ call \in {"none", "finished"} /\ units = <<>> /\ Asked = <<>>
  /\ set # <<>> =>
       /\ set[1] \in DescriptorSets
       /\ definitions = FromDescriptors(set[1])
       /\ \A i \in DOMAIN units : Acceptable(definitions, units[i])
       /\ AsksFor(set[1], units, Asked)
       /\ state = "Fresh" => call = "push_descriptors"

\* Another unit asks for its image after what was asked for.
LEMMA AsksForMore ==
  ASSUME NEW d, NEW us \in Seq(Units), NEW unit \in Units, NEW asked, AsksFor(d, us, asked),
         Acceptable(FromDescriptors(d), unit), NEW more \in Seq(Obus),
         Len(more) = Len(asked) + Len(Image(FromDescriptors(d), unit)),
         \A i \in 1..Len(asked) : more[i] = asked[i],
         \A j \in 1..Len(Image(FromDescriptors(d), unit)) :
            more[Len(asked) + j] = Image(FromDescriptors(d), unit)[j]
  PROVE  AsksFor(d, Append(us, unit), more)
<1> DEFINE reg   == FromDescriptors(d)
           image == Image(reg, unit)
           items == Items(unit)
           F     == AllItems(us)
           G     == AllItems(Append(us, unit))
           lists == [i \in DOMAIN us |-> Items(us[i])]
           longer == [i \in DOMAIN Append(us, unit) |-> Items(Append(us, unit)[i])]
<1>1. /\ F \in Seq(ItemTypes) /\ items \in Seq(ItemTypes) /\ lists \in Seq(Seq(ItemTypes))
  BY ItemListsTyped, ItemsType
<1>2. G = F \o items
  <2>1. longer = Append(lists, items)
    OBVIOUS
  <2>2. F = FlattenSeq(lists) /\ G = FlattenSeq(longer)
    BY DEF AllItems
  <2> HIDE DEF lists, longer, items, F, G
  <2> QED  BY <1>1, <2>1, <2>2, FlattenAppend
<1>3. /\ Len(image) = Len(items)
      /\ \A j \in 1..Len(items) : image[j] = Serialize(reg, items[j])
  BY ImageOfUnit
<1>4. /\ Len(asked) = 1 + Len(F) /\ asked[1] = PrologueObu(d)
      /\ \A k \in 1..Len(F) : asked[1 + k] = Serialize(reg, F[k])
      /\ Len(more) = Len(asked) + Len(image)
      /\ \A i \in 1..Len(asked) : more[i] = asked[i]
      /\ \A j \in 1..Len(image) : more[Len(asked) + j] = image[j]
  BY DEF AsksFor
<1> HIDE DEF reg, image, items, F, G, lists, longer
<1>5. Concatenates(ItemTypes, F, items)
  BY <1>1, ConcatMembers
<1>6. /\ Len(F) \in Nat /\ Len(items) \in Nat /\ Len(G) = Len(F) + Len(items)
      /\ \A k \in 1..Len(F) : G[k] = F[k]
      /\ \A k \in 1..Len(items) : G[Len(F) + k] = items[k]
  BY <1>2, <1>5 DEF Concatenates
<1>7. Len(more) = 1 + Len(G) /\ more[1] = PrologueObu(d)
  BY <1>3, <1>4, <1>6
<1>8. ASSUME NEW k \in 1..Len(G) PROVE more[1 + k] = Serialize(reg, G[k])
  <2>1. CASE k \in 1..Len(F)
    <3>1. 1 + k \in 1..Len(asked)
      BY <1>4, <1>6, <2>1
    <3> QED  BY <1>4, <1>6, <2>1, <3>1
  <2>2. CASE k \notin 1..Len(F)
    <3> DEFINE j == k - Len(F)
    <3>1. j \in 1..Len(items) /\ k = Len(F) + j /\ 1 + k = Len(asked) + j
      BY <1>4, <1>6, <2>2
    <3> HIDE DEF j
    <3> QED  BY <1>3, <1>4, <1>6, <3>1
  <2> QED  BY <2>1, <2>2
<1> QED  BY <1>7, <1>8 DEF AsksFor, G, reg

LEMMA InitGiven == RoundTripInit => IInv /\ Given
BY InitIInv DEF RoundTripInit, Init, Given, Asked

\* A step of the writer that asks for nothing else.
LEMMA SameGiven ==
  ASSUME Given, definitions' = definitions, promised' = promised, pledge' = pledge,
         set' = set, units' = units,
         call' \in {"none", "finished"} \/ call' = call,
         state' = state \/ (state' = "Poisoned" /\ set # <<>>),
         state = "Fresh" /\ call = "push_descriptors" =>
           call' = call \/ state' # "Fresh"
  PROVE  Given'
<1>1. Asked' = Asked
  BY DEF Asked
<1> QED  BY <1>1 DEF Given

\* Every step of a round trip is one of the writer or leaves it alone.
LEMMA WriterSteps ==
  ASSUME [RoundTripNext]_roundTripVars
  PROVE  [Next]_vars
BY DEF RoundTripNext, roundTripVars, Describe, Submit, Write, Reopen, Read, Next

LEMMA DescribeGiven ==
  ASSUME IInv, IInv', Given, NEW descriptors \in DescriptorSets, Describe(descriptors)
  PROVE  Given'
<1>1. call = "none" /\ PushDescriptors(descriptors) /\ units' = units
      /\ set' = IF call' = "push_descriptors" THEN <<descriptors>> ELSE set
  BY DEF Describe, PushDescriptors
<1>2. CASE OutOfTurn("Fresh")
  BY <1>1, <1>2, SameGiven DEF OutOfTurn, writerVars, historyVars
<1>3. CASE ~OutOfTurn("Fresh")
  <2>1. /\ state = "Fresh" /\ state' = "Fresh" /\ definitions' = FromDescriptors(descriptors)
        /\ set = <<>> /\ units = <<>>
    BY <1>1, <1>3 DEF PushDescriptors, InTurn, Given
  <2>2. promised = <<>> /\ pledge = <<>>
    <3>1. Asked = promised /\ pledge = <<>> /\ Asked = <<>>
      BY <1>1, <2>1, AtRest DEF Given
    <3> QED  BY <3>1
  <2>3. CASE descriptors.writable
    <3>1. call' = "push_descriptors" /\ promised' = <<>> /\ pledge' = <<PrologueObu(descriptors)>>
      BY <1>1, <1>3, <2>2, <2>3 DEF PushDescriptors
    <3>2. set' = <<descriptors>> /\ units' = <<>> /\ set' # <<>> /\ set'[1] = descriptors
      BY <1>1, <2>1, <3>1
    <3>3. Asked' = <<PrologueObu(descriptors)>> /\ <<PrologueObu(descriptors)>> \in Seq(Obus)
      <4>1. <<PrologueObu(descriptors)>> \in Seq(Obus)
        BY PrologueType
      <4> QED  BY <3>1, <4>1, ConcatEmptySeq DEF Asked
    <3>4. AllItems(<<>>) = <<>>
      <4>1. [i \in DOMAIN <<>> |-> Items(<<>>[i])] = <<>>
        OBVIOUS
      <4> QED  BY <4>1, FlattenEmpty DEF AllItems
    <3>5. AsksFor(descriptors, <<>>, Asked')
      <4> DEFINE obu == PrologueObu(descriptors)
      <4>1. Len(<<obu>>) = 1 + Len(AllItems(<<>>)) /\ <<obu>>[1] = obu /\ Len(AllItems(<<>>)) = 0
        BY <3>4
      <4>2. <<obu>> \in Seq(Obus)
        BY <3>3
      <4> HIDE DEF obu
      <4>3. AsksFor(descriptors, <<>>, <<obu>>)
        BY <4>1, <4>2 DEF AsksFor, obu
      <4> QED  BY <3>3, <4>3 DEF obu
    <3>6. units' \in Seq(Units) /\ DOMAIN units' = {}
      BY <3>2
    <3> QED  BY <2>1, <3>1, <3>2, <3>5, <3>6 DEF Given
  <2>4. CASE ~descriptors.writable
    <3>1. call' = "none" /\ promised' = <<>> /\ pledge' = <<>>
      BY <1>1, <1>3, <2>2, <2>4 DEF PushDescriptors, historyVars
    <3>2. Asked' = <<>> /\ set' = <<>> /\ units' = <<>>
      BY <1>1, <2>1, <3>1 DEF Asked
    <3>3. units' \in Seq(Units)
      BY <3>2
    <3> QED  BY <2>1, <3>1, <3>2, <3>3 DEF Given
  <2> QED  BY <2>3, <2>4
<1> QED  BY <1>2, <1>3

LEMMA SubmitGiven ==
  ASSUME IInv, IInv', Given, NEW unit \in Units, Submit(unit)
  PROVE  Given'
<1>1. call = "none" /\ PushTemporalUnit(unit) /\ set' = set
      /\ units' = IF call' = "push_temporal_unit" THEN Append(units, unit) ELSE units
  BY DEF Submit, PushTemporalUnit
<1>2. CASE OutOfTurn("DescriptorsWritten")
  BY <1>1, <1>2, SameGiven DEF OutOfTurn, writerVars, historyVars
<1>3. CASE ~OutOfTurn("DescriptorsWritten")
  <2>1. state = "DescriptorsWritten" /\ state' = state /\ definitions' = definitions
    BY <1>1, <1>3 DEF PushTemporalUnit, InTurn, writerVars
  <2>2. set # <<>> /\ definitions = FromDescriptors(set[1]) /\ units \in Seq(Units)
        /\ AsksFor(set[1], units, Asked)
    BY <2>1 DEF Given
  <2>3. CASE Acceptable(definitions, unit)
    <3> DEFINE image == Image(definitions, unit)
    <3>1. call' = "push_temporal_unit" /\ promised' = promised /\ pledge' = image
      BY <1>1, <1>3, <2>3 DEF PushTemporalUnit
    <3>2. image \in Seq(Obus)
      BY <2>3, ImageOfUnit
    <3> HIDE DEF image
    <3>3. sink = promised /\ Asked = promised
      BY <1>1, <2>1, AtRest
    <3>4. /\ Asked' \in Seq(Obus)
          /\ Len(Asked') = Len(sink) + Len(image)
          /\ \A i \in 1..Len(sink) : Asked'[i] = sink[i]
          /\ \A j \in 1..Len(image) : Asked'[Len(sink) + j] = image[j]
      BY <1>1, <2>1, <3>1, <3>2, NewPledge
    <3>5. AsksFor(set[1], Append(units, unit), Asked')
      BY <2>2, <2>3, <3>3, <3>4, AsksForMore DEF image
    <3>6. units' = Append(units, unit)
      BY <1>1, <3>1
    <3>7. units' \in Seq(Units) /\ \A i \in DOMAIN units' : Acceptable(definitions, units'[i])
      <4>1. \A i \in DOMAIN units' : (i \in DOMAIN units /\ units'[i] = units[i]) \/ units'[i] = unit
        BY <2>2, <3>6
      <4>2. \A i \in DOMAIN units : Acceptable(definitions, units[i])
        BY <2>2 DEF Given
      <4>3. units' \in Seq(Units)
        BY <2>2, <3>6
      <4> QED  BY <2>3, <4>1, <4>2, <4>3
    <3> QED  BY <1>1, <2>1, <2>2, <3>5, <3>6, <3>7 DEF Given
  <2>4. CASE ~Acceptable(definitions, unit)
    <3>1. UNCHANGED <<call, promised, pledge, set, units, definitions>>
      BY <1>1, <1>3, <2>1, <2>4 DEF PushTemporalUnit, historyVars
    <3> QED  BY <2>1, <3>1, SameGiven
  <2> QED  BY <2>3, <2>4
<1> QED  BY <1>2, <1>3

LEMMA WriteGiven ==
  ASSUME IInv, IInv', Given, Write
  PROVE  Given'
<1>1. set' = set /\ units' = units /\ Proceed
  BY DEF Write, inputsOfWriter
<1>2. call = "push_descriptors" \/ call = "push_temporal_unit" => set # <<>>
  BY DEF Given
<1>3. scratch # <<>> => call = "push_descriptors" \/ call = "push_temporal_unit"
  BY DEF IInv, TypeOK, CallsAgree
<1>4. CASE \E n \in 1..remaining : AcceptBytes(n)
  BY <1>1, <1>2, <1>3, <1>4, SameGiven DEF AcceptBytes, Poison, Return, callVars, historyVars
<1>5. CASE RefuseBytes \/ SinkError
  BY <1>1, <1>2, <1>3, <1>5, SameGiven
     DEF RefuseBytes, SinkError, Poison, Return, historyVars
<1>6. CASE Interrupted
  BY <1>1, <1>6, SameGiven
     DEF Interrupted, vars, writerVars, callVars, historyVars
<1>7. CASE EmitNext
  BY <1>1, <1>2, <1>7, SameGiven DEF EmitNext, Poison, Return, LoadScratch, historyVars
<1>8. CASE Succeed
  <2>1. /\ call \in {"push_descriptors", "push_temporal_unit"} /\ call' = "none"
        /\ state' = IF call = "push_descriptors" THEN "DescriptorsWritten" ELSE state
        /\ promised' = Asked /\ pledge' = <<>> /\ definitions' = definitions
    BY <1>8 DEF Succeed, Return, Asked
  <2>2. Asked' = Asked
    <3>1. Asked \in Seq(Obus)
      BY AskedType DEF IInv
    <3> QED  BY <2>1, <3>1 DEF Asked
  <2>3. state' # "Fresh"
    BY <2>1 DEF IInv, CallsAgree
  <2> QED  BY <1>1, <1>2, <2>1, <2>2, <2>3 DEF Given
<1> QED  BY <1>1, <1>4, <1>5, <1>6, <1>7, <1>8 DEF Proceed

LEMMA NextGiven ==
  ASSUME IInv, Given, [RoundTripNext]_roundTripVars
  PROVE  IInv' /\ Given'
<1>1. IInv'
  BY WriterSteps, NextIInv
<1>2. CASE \E descriptors \in DescriptorSets : Describe(descriptors)
  BY <1>1, <1>2, DescribeGiven
<1>3. CASE \E unit \in Units : Submit(unit)
  BY <1>1, <1>3, SubmitGiven
<1>4. CASE Write
  BY <1>1, <1>4, WriteGiven
<1>5. CASE Reopen
  BY <1>1, <1>5, SameGiven
     DEF Reopen, Finish, Finished, writerVars, historyVars, inputsOfWriter
<1>6. CASE Read \/ UNCHANGED roundTripVars
  BY <1>1, <1>6, SameGiven
     DEF Read, roundTripVars, vars, writerVars, callVars, historyVars, inputsOfWriter
<1> QED  BY <1>1, <1>2, <1>3, <1>4, <1>5, <1>6 DEF RoundTripNext

----------------------------------------------------------------------------
(* What the reader is given                                                *)

\* The model of what the writer was given.
Model == IF set = <<>> THEN <<>> ELSE FromParts(set[1], units)

LEMMA ModelReadable ==
  ASSUME Given
  PROVE  ReadsThrough(Model) /\ Len(Model) \in Nat /\ \E S : Model \in Seq(S)
<1>1. CASE set = <<>>
  <2>1. Model = <<>> /\ Len(Model) = 0
    BY <1>1 DEF Model
  <2>2. [i \in 1..0 |-> Adds(<<>>[i])] = <<>> /\ 0..(Len(<<>>) - 1) = {} /\ <<>> \in Seq({})
    OBVIOUS
  <2> QED  BY <2>1, <2>2, FlattenEmpty DEF ReadsThrough, RegistryAt
<1>2. CASE set # <<>>
  <2>1. Accepts(set[1], units) /\ Model = FromParts(set[1], units)
    BY <1>2 DEF Given, Accepts, Model
  <2>2. ModelShape(set[1], units, Model, Len(Prologue(set[1])))
    BY <2>1, ModelIsShaped
  <2>3. Model \in Seq(Plain(set[1]) \cup ModelObus) /\ Len(Model) \in Nat
    BY <2>2 DEF ModelShape
  <2> QED  BY <2>1, <2>3, ModelReadsThrough
<1> QED  BY <1>1, <1>2

\* A file holds a beginning of the model on the wire.  Only a torn sink has
\* an OBU that cannot be read.
FileOf(model, file) ==
  /\ Len(file) \in Nat /\ Len(file) <= Len(model)
  /\ \A i \in 1..Len(file) :
       /\ file[i].obu = OnWire(model[i])
       /\ file[i].fault # "none" => torn # <<>>

\* So does whatever a writer leaves in its sink, and a writer that is not
\* poisoned leaves all of it.
LEMMA ContentsRead ==
  ASSUME IInv, Given, call \in {"none", "finished"}, NEW file \in Contents
  PROVE  /\ FileOf(Model, file)
         /\ state # "Poisoned" => /\ Wire(sink) = Sent(Model, Len(Model))
                                  /\ Len(file) = Len(Model) /\ torn = <<>>
<1> DEFINE n     == Len(sink)
           wire  == Wire(sink)
           whole == [i \in DOMAIN wire |-> Whole(wire[i])]
           rest  == Framed(Asked[n + 1])
           part(k) == [i \in 1..k |-> Whole(rest[i])]
           L     == Len(Model)
<1>1. InWireOrder /\ Asked \in Seq(Obus) /\ sink \in Seq(Obus)
  BY AccountedInOrder, AskedType DEF IInv, PoisonedAtRest, TypeOK
<1>2. /\ n \in 0..Len(Asked) /\ sink = FirstOf(Asked, n)
      /\ torn # <<>> => n < Len(Asked)
  <2>1. /\ n \in Nat /\ Len(Asked) \in Nat /\ n <= Len(Asked) /\ sink = SubSeq(Asked, 1, n)
        /\ torn # <<>> => n < Len(Asked)
    BY <1>1 DEF InWireOrder, Asked
  <2>2. SubSeq(Asked, 1, n) = FirstOf(Asked, n)
    BY <1>1, <2>1 DEF FirstOf
  <2> QED  BY <2>1, <2>2
<1>3. \E w \in Nat :
        /\ wire = Sent(Model, w) /\ w <= L
        /\ n = Len(Asked) => w = L
        /\ n < Len(Asked) => NextBuffer(Model, w, rest)
  <2>1. CASE set = <<>>
    <3>1. Asked = <<>> /\ Model = <<>> /\ n = 0 /\ Len(Asked) = 0 /\ L = 0
      BY <1>2, <2>1 DEF Given, Model
    <3>2. sink = <<>>
      BY <1>1, <3>1, EmptySeq
    <3>3. Wire(<<>>) = FlattenSeq(<<>>) /\ Sent(<<>>, 0) = <<>>
      BY DEF Wire, Sent
    <3> QED  BY <3>1, <3>2, <3>3, FlattenEmpty
  <2>2. CASE set # <<>>
    <3>1. Accepts(set[1], units) /\ Model = FromParts(set[1], units) /\ AsksFor(set[1], units, Asked)
      BY <2>2 DEF Given, Accepts, Model
    <3> QED  BY <1>2, <3>1, BeginningOfAsked
  <2> QED  BY <2>1, <2>2
<1>4. PICK w \in Nat : /\ wire = Sent(Model, w) /\ w <= L
                       /\ n = Len(Asked) => w = L
                       /\ n < Len(Asked) => NextBuffer(Model, w, rest)
  BY <1>3
<1>5. L \in Nat
  BY ModelReadable
<1> HIDE DEF L, n
<1>6. /\ whole = [i \in 1..w |-> Whole(OnWire(Model[i]))] /\ Len(whole) = w
      /\ \A i \in 1..w : whole[i].obu = OnWire(Model[i]) /\ whole[i].fault = "none"
  <2>1. DOMAIN wire = 1..w /\ \A i \in 1..w : wire[i] = OnWire(Model[i])
    BY <1>4 DEF Sent
  <2> HIDE DEF wire
  <2> QED  BY <1>4, <2>1 DEF Whole
<1>7. CASE torn = <<>>
  <2>1. file = whole
    BY <1>7 DEF Contents
  <2>2. FileOf(Model, file)
    BY <1>4, <1>6, <2>1 DEF FileOf, L
  <2>3. state # "Poisoned" => n = Len(Asked)
    BY AtRest DEF n
  <2> QED  BY <1>4, <1>6, <1>7, <2>1, <2>2, <2>3 DEF L
<1>8. CASE torn # <<>>
  <2>1. state = "Poisoned"
    BY <1>8, AtRest
  <2>2. /\ Len(rest) \in Nat \ {0} /\ w + Len(rest) <= L
        /\ \A j \in 1..Len(rest) : rest[j] = OnWire(Model[w + j])
    BY <1>2, <1>4, <1>8 DEF NextBuffer, L
  <2>3. \/ \E k \in 1..(Len(rest) - 1) : file = whole \o part(k)
        \/ \E k \in 0..(Len(rest) - 1) : file = Append(whole \o part(k), Cut(rest[k + 1]))
    BY <1>8 DEF Contents, n, Asked
  <2> HIDE DEF rest, whole
  <2>4. ASSUME NEW k \in 0..(Len(rest) - 1)
        PROVE  /\ Len(whole \o part(k)) = w + k
               /\ \A i \in 1..(w + k) : /\ (whole \o part(k))[i].obu = OnWire(Model[i])
                                        /\ (whole \o part(k))[i].fault = "none"
               /\ \E S : whole \o part(k) \in Seq(S)
    <3> DEFINE S == {Whole(OnWire(Model[i])) : i \in 1..(w + k)}
               p == part(k)
    <3>0. k \in Nat /\ \A i \in 1..k : i \in 1..Len(rest)
      BY <2>2
    <3>1. \A i \in 1..k : p[i] = Whole(OnWire(Model[w + i])) /\ w + i \in 1..(w + k)
      BY <2>2, <3>0
    <3>2. p \in Seq(S) /\ Len(p) = k
      <4>1. \A i \in 1..k : p[i] \in S
        BY <3>1
      <4>2. p = [i \in 1..k |-> p[i]]
        OBVIOUS
      <4> HIDE DEF p, S
      <4> QED  BY <3>0, <4>1, <4>2
    <3>3. whole \in Seq(S)
      <4>1. \A i \in 1..w : i \in 1..(w + k)
        OBVIOUS
      <4> QED  BY <1>6, <4>1
    <3> HIDE DEF S, p
    <3>4. Concatenates(S, whole, p)
      BY <3>2, <3>3, ConcatMembers
    <3> DEFINE c == whole \o p
    <3>5. /\ Len(c) = w + k /\ c \in Seq(S)
          /\ \A i \in 1..w : c[i] = whole[i]
          /\ \A i \in 1..k : c[w + i] = Whole(OnWire(Model[w + i]))
      BY <1>6, <3>1, <3>2, <3>4 DEF Concatenates
    <3> HIDE DEF c
    <3>6. ASSUME NEW i \in 1..(w + k) PROVE c[i].obu = OnWire(Model[i]) /\ c[i].fault = "none"
      <4>1. CASE i \in 1..w
        BY <1>6, <3>5, <4>1
      <4>2. CASE i \notin 1..w
        <5> DEFINE j == i - w
        <5>1. j \in 1..k /\ i = w + j
          BY <3>0, <4>2
        <5> HIDE DEF j
        <5>2. c[i] = Whole(OnWire(Model[i]))
          BY <3>5, <5>1
        <5> QED  BY <5>2 DEF Whole
      <4> QED  BY <4>1, <4>2
    <3> QED  BY <3>5, <3>6 DEF c, p
  <2>5. FileOf(Model, file)
    <3>1. CASE \E k \in 1..(Len(rest) - 1) : file = whole \o part(k)
      <4>1. PICK k \in 1..(Len(rest) - 1) : file = whole \o part(k)
        BY <3>1
      <4>2. k \in 0..(Len(rest) - 1) /\ w + k \in Nat /\ w + k <= L
        BY <1>5, <2>2
      <4> QED  BY <2>4, <4>1, <4>2 DEF FileOf, L
    <3>2. CASE \E k \in 0..(Len(rest) - 1) : file = Append(whole \o part(k), Cut(rest[k + 1]))
      <4>1. PICK k \in 0..(Len(rest) - 1) : file = Append(whole \o part(k), Cut(rest[k + 1]))
        BY <3>2
      <4> DEFINE c == whole \o part(k)
      <4>2. /\ Len(c) = w + k
            /\ \A i \in 1..(w + k) : c[i].obu = OnWire(Model[i]) /\ c[i].fault = "none"
            /\ \E S : c \in Seq(S)
        BY <2>4
      <4>3. /\ w + k + 1 \in Nat /\ w + k + 1 <= L /\ k + 1 \in 1..Len(rest)
            /\ w + (k + 1) = w + k + 1
        BY <1>5, <2>2
      <4>4. rest[k + 1] = OnWire(Model[w + k + 1])
        BY <2>2, <4>3
      <4> HIDE DEF c
      <4>5. PICK S : c \in Seq(S)
        BY <4>2
      <4>6. /\ Len(file) = w + k + 1
            /\ \A i \in 1..(w + k) : file[i] = c[i]
            /\ file[w + k + 1] = Cut(OnWire(Model[w + k + 1]))
        <5>1. file = Append(c, Cut(OnWire(Model[w + k + 1])))
          BY <4>1, <4>4 DEF c
        <5> QED  BY <4>2, <4>5, <5>1
      <4>7. \A i \in 1..(w + k + 1) : i \in 1..(w + k) \/ i = w + k + 1
        OBVIOUS
      <4>8. \A i \in 1..(w + k + 1) : file[i].obu = OnWire(Model[i])
        BY <4>2, <4>6, <4>7 DEF Cut
      <4> QED  BY <1>8, <4>3, <4>6, <4>8 DEF FileOf, L
    <3> QED  BY <2>3, <3>1, <3>2
  <2> QED  BY <2>1, <2>5
<1> QED  BY <1>7, <1>8

----------------------------------------------------------------------------
(* Reading it back                                                         *)

\* The reader has yielded the model as far as it has come, and can stop short
\* of its end only where the sink is torn.
Opened ==
  /\ call # "finished" => Start(<<>>)
  /\ call = "finished" =>
       /\ FileOf(Model, input)
       /\ delivered => Len(input) = Len(Model)
       /\ position \in 0..Len(input)
       /\ registry = RegistryAt(Model, position)
       /\ yielded = FirstOf(Model, position)
       /\ finished \/ answer = "error" => torn # <<>>
       /\ answer = "end" => finished \/ position = Len(input)

RTInv == IInv /\ Given /\ Opened

LEMMA ReopenOpened ==
  ASSUME IInv, Given, Opened, Reopen
  PROVE  Opened'
<1>1. /\ call = "none" /\ call' = "finished" /\ input' \in Contents /\ torn' = torn
      /\ delivered' => state # "Poisoned"
      /\ UNCHANGED <<position, registry, finished, yielded, answer, set, units>>
  BY DEF Reopen, Finish, Finished, inputsOfWriter
<1>2. /\ position = 0 /\ registry = <<>> /\ finished = FALSE /\ yielded = <<>> /\ answer = "none"
  BY <1>1 DEF Opened, Start
<1>3. /\ FileOf(Model, input')
      /\ state # "Poisoned" => Len(input') = Len(Model)
  BY <1>1, ContentsRead
<1>4. Model' = Model
  BY <1>1 DEF Model
<1>5. FileOf(Model, input)'
  BY <1>1, <1>3, <1>4 DEF FileOf
<1>6. RegistryAt(Model, 0) = <<>> /\ FirstOf(Model, 0) = <<>>
  BY ModelReadable DEF ReadsThrough, FirstOf
<1>7. Len(input') \in Nat
  BY <1>3 DEF FileOf
<1> QED  BY <1>1, <1>2, <1>3, <1>4, <1>5, <1>6, <1>7 DEF Opened

LEMMA ReadOpened ==
  ASSUME Given, Opened, Read
  PROVE  Opened'
<1>1. /\ call = "finished" /\ ReaderNext /\ call' = call /\ torn' = torn /\ delivered' = delivered
      /\ set' = set /\ units' = units
  BY DEF Read, vars, callVars, sinkVars, inputsOfWriter
<1>2. /\ FileOf(Model, input)
      /\ delivered => Len(input) = Len(Model)
      /\ position \in 0..Len(input) /\ position \in Nat
      /\ registry = RegistryAt(Model, position)
      /\ yielded = FirstOf(Model, position)
      /\ finished \/ answer = "error" => torn # <<>>
      /\ answer = "end" => finished \/ position = Len(input)
  BY <1>1 DEF Opened
<1>3. Model' = Model /\ input' = input
  BY <1>1 DEF Model, ReaderNext, End, Yield, Fail
<1>4. FileOf(Model, input)'
  BY <1>1, <1>2, <1>3 DEF FileOf
<1>5. CASE End
  BY <1>1, <1>2, <1>3, <1>4, <1>5 DEF End, AtEnd, Opened
<1> DEFINE n == position + 1
<1>6. ASSUME ~AtEnd
      PROVE  /\ n \in 1..Len(input) /\ input[n].obu = OnWire(Model[n])
             /\ input[n].fault # "none" => torn # <<>>
             /\ Reads(registry, Model[n])
             /\ Observe(registry, Model[n]) = RegistryAt(Model, n)
  <2>1. /\ n \in 1..Len(input) /\ Len(input) \in Nat /\ Len(Model) \in Nat
        /\ position \in 0..(Len(Model) - 1)
    BY <1>2, <1>6, ModelReadable DEF AtEnd, FileOf
  <2>2. ReadsThrough(Model)
    BY ModelReadable
  <2> QED  BY <1>2, <2>1, <2>2 DEF ReadsThrough, FileOf
<1>7. CASE Yield
  <2>1. /\ ~AtEnd /\ yielded' = Append(yielded, Parse(registry, input[n].obu))
        /\ registry' = Observe(registry, input[n].obu) /\ position' = n
        /\ answer' = "some" /\ finished' = finished
    BY <1>7 DEF Yield
  <2>2. registry' = RegistryAt(Model, n) /\ yielded' = Append(FirstOf(Model, position), Model[n])
    BY <1>2, <1>6, <2>1 DEF Reads
  <2>3. Append(FirstOf(Model, position), Model[n]) = FirstOf(Model, n)
    BY <1>2 DEF FirstOf
  <2>4. position' \in 0..Len(input') /\ (finished' => torn # <<>>)
    BY <1>2, <1>3, <1>6, <2>1
  <2> QED  BY <1>1, <1>2, <1>3, <1>4, <2>1, <2>2, <2>3, <2>4 DEF Opened
<1>8. CASE Fail
  <2>1. /\ ~AtEnd /\ position' = position /\ registry' = registry /\ yielded' = yielded
        /\ answer' = "error"
        /\ input[n].fault # "none" \/ MayFail(registry, input[n].obu)
    BY <1>8 DEF Fail, Restored
  <2>2. torn # <<>>
    BY <1>6, <2>1 DEF Reads
  <2> QED  BY <1>1, <1>2, <1>3, <1>4, <2>1, <2>2 DEF Opened
<1> QED  BY <1>1, <1>5, <1>7, <1>8 DEF ReaderNext

\* RTInv is inductive.
LEMMA InitRTInv == RoundTripInit => RTInv
BY InitGiven DEF RoundTripInit, Init, RTInv, Opened

LEMMA NextRTInv ==
  ASSUME RTInv, [RoundTripNext]_roundTripVars
  PROVE  RTInv'
<1>1. IInv' /\ Given' /\ IInv /\ Given /\ Opened
  BY NextGiven DEF RTInv
<1>2. ASSUME call # "finished", call' # "finished", UNCHANGED readerVars PROVE Opened'
  BY <1>1, <1>2 DEF Opened, Start, readerVars
<1>3. CASE (\E descriptors \in DescriptorSets : Describe(descriptors))
             \/ (\E unit \in Units : Submit(unit))
  BY <1>1, <1>2, <1>3
     DEF RTInv, Describe, Submit, PushDescriptors, PushTemporalUnit, OutOfTurn
<1>4. CASE Write
  <2>1. scratch # <<>> => call \notin {"none", "finished"}
    BY <1>1 DEF IInv, CallsAgree
  <2>2. call # "finished" /\ call' # "finished" /\ UNCHANGED readerVars
    BY <1>4, <2>1
       DEF Write, Proceed, AcceptBytes, RefuseBytes, Interrupted, SinkError, EmitNext, Succeed,
           Poison, Return, vars, callVars
  <2> QED  BY <1>1, <1>2, <2>2 DEF RTInv
<1>5. CASE Reopen
  BY <1>1, <1>5, ReopenOpened DEF RTInv
<1>6. CASE Read
  BY <1>1, <1>6, ReadOpened DEF RTInv
<1>7. CASE UNCHANGED roundTripVars
  <2>1. Opened'
    BY <1>1, <1>7
       DEF Opened, Start, FileOf, Model, roundTripVars, vars, callVars, sinkVars, readerVars,
           inputsOfWriter
  <2> QED  BY <1>1, <2>1 DEF RTInv
<1> QED  BY <1>3, <1>4, <1>5, <1>6, <1>7 DEF RoundTripNext

\* For every descriptor set, unit and sink: whatever became of the writer,
\* SequenceReader yields a beginning of ParsedSequence::from_parts of what was
\* pushed, and fails only at a torn tail.
THEOREM BacksModel == RoundTripSpec => []ReadsBackModel
<1>1. RTInv => ReadsBackModel
  <2> SUFFICES ASSUME RTInv, set # <<>>
               PROVE  IsPrefix(yielded, FromParts(set[1], units)) /\ (answer = "error" => torn # <<>>)
    BY DEF ReadsBackModel
  <2>1. Model = FromParts(set[1], units)
    BY DEF Model
  <2>2. Len(Model) \in Nat /\ \E S : Model \in Seq(S)
    BY ModelReadable DEF RTInv
  <2>3. \E n \in 0..Len(Model) : yielded = FirstOf(Model, n)
    <3>1. CASE call # "finished"
      BY <2>2, <3>1 DEF RTInv, Opened, Start, FirstOf
    <3>2. CASE call = "finished"
      BY <2>2, <3>2 DEF RTInv, Opened, FileOf
    <3> QED  BY <3>1, <3>2
  <2>4. PICK n \in 0..Len(Model) : yielded = FirstOf(Model, n)
    BY <2>3
  <2>5. PICK S : Model \in Seq(S)
    BY <2>2
  <2>6. /\ Len(yielded) = n /\ SubSeq(yielded, 1, n) = SubSeq(Model, 1, n)
    BY <2>2, <2>4, <2>5 DEF FirstOf
  <2>7. IsPrefix(yielded, Model)
    BY <2>2, <2>4, <2>6 DEF IsPrefix
  <2>8. answer = "error" => torn # <<>>
    BY DEF RTInv, Opened, Start
  <2> QED  BY <2>1, <2>7, <2>8
<1> QED  BY <1>1, InitRTInv, NextRTInv, PTL DEF RoundTripSpec

\* A delivered file that has been read to its end was read as all of it.
LEMMA DeliveredIsModel ==
  ASSUME RTInv, delivered, answer = "end"
  PROVE  yielded = Model /\ Wire(sink) = Sent(Model, Len(Model))
<1>1. call = "finished" /\ state # "Poisoned" /\ IInv /\ Given
  BY DEF RTInv, IInv, PoisonedAtRest
<1>2. torn = <<>>
  BY <1>1, AtRest
<1>3. Wire(sink) = Sent(Model, Len(Model))
  <2>1. \E file : file \in Contents
    BY <1>2 DEF Contents
  <2> QED  BY <1>1, <2>1, ContentsRead
<1>4. position = Len(Model) /\ yielded = FirstOf(Model, position)
  BY <1>1, <1>2 DEF RTInv, Opened
<1>5. FirstOf(Model, Len(Model)) = Model
  <2>1. PICK S : Model \in Seq(S)
    BY <1>1, ModelReadable
  <2> QED  BY <2>1 DEF FirstOf
<1> QED  BY <1>3, <1>4, <1>5

\* A file that finish handed back reads to its end as exactly the model of
\* what was pushed, which write_parsed_sequence turns into the same bytes.
THEOREM DeliveredTwice == RoundTripSpec => []DeliveredRoundTrips
<1>1. RTInv => DeliveredRoundTrips
  <2> SUFFICES ASSUME RTInv, delivered, answer = "end"
               PROVE  /\ yielded = IF set = <<>> THEN <<>> ELSE FromParts(set[1], units)
                      /\ WriteParsedSequence(yielded).accepted
                      /\ WriteParsedSequence(yielded).wire = Wire(sink)
    BY DEF DeliveredRoundTrips
  <2>1. yielded = Model /\ Wire(sink) = Sent(Model, Len(Model))
    BY DeliveredIsModel
  <2>2. ReadsThrough(Model) /\ Len(Model) \in Nat /\ \E S : Model \in Seq(S)
    BY ModelReadable DEF RTInv
  <2>3. FirstOf(Model, Len(Model)) = Model
    BY <2>2 DEF FirstOf
  <2>4. WriteParsedSequence(Model) =
          [accepted |-> TRUE, registry |-> RegistryAt(Model, Len(Model)),
           wire |-> Sent(Model, Len(Model))]
    BY <2>2, <2>3, WrittenThrough
  <2> QED  BY <2>1, <2>4 DEF Model
<1> QED  BY <1>1, InitRTInv, NextRTInv, PTL DEF RoundTripSpec

----------------------------------------------------------------------------
(* Chains of ranges                                                       *)

\* A chain of L ranges from lo[r] to hi[r] that ends at end.
Chain(L, lo, hi, end) ==
  /\ L \in Nat /\ lo \in [1..L -> Nat] /\ hi \in [1..L -> Nat]
  /\ \A r \in 1..L : lo[r] < hi[r]
  /\ \A r \in 1..L : hi[r] = IF r = L THEN end ELSE lo[r + 1]

LEMMA ChainOrdered ==
  ASSUME NEW L, NEW lo, NEW hi, NEW end, Chain(L, lo, hi, end)
  PROVE  /\ \A r \in 1..L : hi[r] <= end
         /\ \A r, s \in 1..L : r < s => hi[r] <= lo[s]
<1>1. \A i \in 1..(L - 1) : hi[i] <= hi[i + 1]
  BY DEF Chain
<1>2. \A r, s \in 1..L : r <= s => hi[r] <= hi[s]
  BY <1>1, NeverFalls DEF Chain
<1>3. ASSUME NEW r \in 1..L PROVE hi[r] <= end
  BY <1>2 DEF Chain
<1>4. ASSUME NEW r \in 1..L, NEW s \in 1..L, r < s PROVE hi[r] <= lo[s]
  <2> DEFINE q == s - 1
  <2>1. q \in 1..L /\ q + 1 = s /\ r <= q /\ q # L
    BY <1>4 DEF Chain
  <2> HIDE DEF q
  <2>2. hi[q] = lo[s] /\ hi[r] <= hi[q]
    BY <1>2, <2>1 DEF Chain
  <2> QED  BY <2>2
<1> QED  BY <1>3, <1>4

\* One range of a chain, and what comes before and after it.
Link(L, lo, hi, end, r) ==
  /\ lo[r] \in Nat /\ hi[r] \in Nat /\ lo[r] < hi[r]
  /\ r = L => hi[r] = end
  /\ r # L => r + 1 \in 1..L /\ hi[r] = lo[r + 1]
  /\ hi[r] <= end
  /\ \A s \in 1..L : s < r => lo[s] < lo[r]
  /\ \A s \in 1..L : r < s => hi[r] <= lo[s]

LEMMA ChainLinks ==
  ASSUME NEW L, NEW lo, NEW hi, NEW end, Chain(L, lo, hi, end), NEW r \in 1..L
  PROVE  Link(L, lo, hi, end, r)
<1>1. L \in Nat /\ \A s \in 1..L : lo[s] \in Nat /\ hi[s] \in Nat /\ lo[s] < hi[s]
  BY DEF Chain
<1>2. /\ r = L => hi[r] = end
      /\ r # L => r + 1 \in 1..L /\ hi[r] = lo[r + 1]
  <2>1. r # L => r + 1 \in 1..L
    BY <1>1
  <2> QED  BY <2>1 DEF Chain
<1>3. /\ hi[r] <= end
      /\ \A s \in 1..L : r < s => hi[r] <= lo[s]
      /\ \A s \in 1..L : s < r => hi[s] <= lo[r]
  BY ChainOrdered
<1>4. \A s \in 1..L : s < r => lo[s] < lo[r]
  BY <1>1, <1>3
<1> QED  BY <1>1, <1>2, <1>3, <1>4 DEF Link

\* Two chains to one end that begin alike, the second of which is left where
\* the first is, are one.
LEMMA SameChain ==
  ASSUME NEW L, NEW lo, NEW hi, NEW end, Chain(L, lo, hi, end),
         NEW N, NEW b, NEW e, Chain(N, b, e, end), end \in Nat,
         L > 0 <=> N > 0, L > 0 => lo[1] = b[1],
         \A k \in 1..N : k \in 1..L /\ lo[k] = b[k] => hi[k] = e[k]
  PROVE  L = N /\ \A k \in 1..N : lo[k] = b[k] /\ hi[k] = e[k]
<1> DEFINE T == {n \in Nat : n + 1 <= L /\ n + 1 <= N => lo[n + 1] = b[n + 1]}
<1>1. 0 \in T
  BY DEF Chain
<1>2. ASSUME NEW n \in Nat, n \in T PROVE n + 1 \in T
  <2> SUFFICES ASSUME n + 2 <= L, n + 2 <= N PROVE lo[n + 2] = b[n + 2]
    OBVIOUS
  <2> DEFINE k == n + 1
  <2>1. k \in 1..N /\ k \in 1..L /\ k # N /\ k # L /\ k + 1 = n + 2
    BY DEF Chain
  <2>2. lo[k] = b[k]
    BY <1>2, <2>1
  <2> HIDE DEF k
  <2>3. hi[k] = e[k] /\ hi[k] = lo[k + 1] /\ e[k] = b[k + 1]
    BY <2>1, <2>2 DEF Chain
  <2> QED  BY <2>1, <2>3
<1> HIDE DEF T
<1>3. Nat \subseteq T
  BY <1>1, <1>2, NaturalSteps
<1>4. ASSUME NEW k \in 1..N, k <= L PROVE lo[k] = b[k] /\ hi[k] = e[k]
  <2>1. k - 1 \in T /\ (k - 1) + 1 = k /\ N \in Nat /\ L \in Nat
    BY <1>3, <1>4 DEF Chain
  <2>2. lo[k] = b[k]
    BY <1>4, <2>1 DEF T
  <2> QED  BY <1>4, <2>1, <2>2
<1>5. ~ (L < N)
  <2> SUFFICES ASSUME L < N PROVE FALSE
    OBVIOUS
  <2>1. L \in 1..N /\ L # N /\ L \in 1..L /\ L + 1 \in 1..N
    BY DEF Chain
  <2>2. hi[L] = e[L] /\ hi[L] = end /\ e[L] = b[L + 1]
    BY <1>4, <2>1 DEF Chain
  <2>3. b[L + 1] < e[L + 1] /\ e[L + 1] <= end /\ b[L + 1] \in Nat /\ e[L + 1] \in Nat
    BY <2>1, ChainOrdered DEF Chain
  <2>4. end = b[L + 1]
    BY <2>2
  <2>5. b[L + 1] < end
    BY <2>3
  <2> QED  BY <2>4, <2>5
<1>6. ~ (N < L)
  <2> SUFFICES ASSUME N < L PROVE FALSE
    OBVIOUS
  <2>1. N \in 1..N /\ N # L /\ N \in 1..L /\ N + 1 \in 1..L
    BY DEF Chain
  <2>2. hi[N] = e[N] /\ e[N] = end /\ hi[N] = lo[N + 1]
    BY <1>4, <2>1 DEF Chain
  <2>3. lo[N + 1] < hi[N + 1] /\ hi[N + 1] <= end /\ lo[N + 1] \in Nat /\ hi[N + 1] \in Nat
    BY <2>1, ChainOrdered DEF Chain
  <2> QED  BY <2>2, <2>3
<1>7. L = N
  BY <1>5, <1>6 DEF Chain
<1> QED  BY <1>4, <1>7 DEF Chain

----------------------------------------------------------------------------
(* Units found again                                                       *)

\* The OBUs of a unit: its delimiter, its blocks, its frames.
Lead(unit) == IF unit.delimiter THEN 1 ELSE 0

Blocked(unit) == Lead(unit) + Len(unit.blocks)

UnitSize(unit) == Blocked(unit) + Len(unit.frames)

UnitTyped(unit) ==
  /\ unit.delimiter \in BOOLEAN
  /\ unit.blocks \in Seq(Blocks) /\ unit.frames \in Seq(Frames)
  /\ Lead(unit) \in Nat /\ Blocked(unit) \in Nat /\ UnitSize(unit) \in Nat
  /\ Len(unit.blocks) \in Nat /\ Len(unit.frames) \in Nat

LEMMA ItemsPlaced ==
  ASSUME NEW unit \in Units
  PROVE  /\ UnitTyped(unit)
         /\ Len(Items(unit)) = UnitSize(unit)
         /\ unit.delimiter => Items(unit)[1] = Delimiter
         /\ \A j \in 1..Len(unit.blocks) : Items(unit)[Lead(unit) + j] = BlockItem(unit.blocks[j])
         /\ \A j \in 1..Len(unit.frames) : Items(unit)[Blocked(unit) + j] = FrameItem(unit.frames[j])
<1> DEFINE lead   == IF unit.delimiter THEN <<Delimiter>> ELSE <<>>
           blocks == [i \in DOMAIN unit.blocks |-> BlockItem(unit.blocks[i])]
           frames == [i \in DOMAIN unit.frames |-> FrameItem(unit.frames[i])]
           start  == lead \o blocks
<1>1. unit.delimiter \in BOOLEAN /\ unit.blocks \in Seq(Blocks) /\ unit.frames \in Seq(Frames)
  BY UnitsAssumption
<1>2. UnitTyped(unit)
  <2>1. Lead(unit) \in Nat /\ Len(unit.blocks) \in Nat /\ Len(unit.frames) \in Nat
    BY <1>1 DEF Lead
  <2> QED  BY <1>1, <2>1 DEF UnitTyped, Blocked, UnitSize
<1>3. /\ lead \in Seq(ItemTypes) /\ Len(lead) = Lead(unit)
      /\ unit.delimiter => lead[1] = Delimiter /\ Lead(unit) = 1
  <2>1. <<Delimiter>> \in Seq(ItemTypes) /\ <<>> \in Seq(ItemTypes)
        /\ Len(<<Delimiter>>) = 1 /\ <<Delimiter>>[1] = Delimiter /\ Len(<<>>) = 0
    BY ItemKinds
  <2> QED  BY <2>1 DEF Lead
<1>4. /\ blocks \in Seq(ItemTypes) /\ Len(blocks) = Len(unit.blocks)
      /\ \A j \in 1..Len(unit.blocks) : blocks[j] = BlockItem(unit.blocks[j])
  <2>1. \A i \in 1..Len(unit.blocks) : BlockItem(unit.blocks[i]) \in ItemTypes
    BY <1>1, ItemKinds
  <2> QED  BY <1>1, <2>1
<1>5. /\ frames \in Seq(ItemTypes) /\ Len(frames) = Len(unit.frames)
      /\ \A j \in 1..Len(unit.frames) : frames[j] = FrameItem(unit.frames[j])
  <2>1. \A i \in 1..Len(unit.frames) : FrameItem(unit.frames[i]) \in ItemTypes
    BY <1>1, ItemKinds
  <2> QED  BY <1>1, <2>1
<1>6. Items(unit) = start \o frames
  BY DEF Items
<1> HIDE DEF lead, blocks, frames
<1>7. Concatenates(ItemTypes, lead, blocks)
  BY <1>3, <1>4, ConcatMembers
<1>8. start \in Seq(ItemTypes)
  BY <1>3, <1>4
<1> HIDE DEF start
<1>9. Concatenates(ItemTypes, start, frames)
  BY <1>5, <1>8, ConcatMembers
<1>10. /\ Len(start) = Blocked(unit)
       /\ \A j \in 1..Lead(unit) : start[j] = lead[j]
       /\ \A j \in 1..Len(unit.blocks) : start[Lead(unit) + j] = blocks[j]
  BY <1>3, <1>4, <1>7 DEF Concatenates, Blocked, start
<1>11. /\ Len(Items(unit)) = UnitSize(unit)
       /\ \A j \in 1..Blocked(unit) : Items(unit)[j] = start[j]
       /\ \A j \in 1..Len(unit.frames) : Items(unit)[Blocked(unit) + j] = frames[j]
  BY <1>5, <1>6, <1>9, <1>10 DEF Concatenates, UnitSize
<1>12. unit.delimiter => Items(unit)[1] = Delimiter
  BY <1>2, <1>3, <1>10, <1>11 DEF UnitTyped, Blocked
<1>13. \A j \in 1..Len(unit.blocks) : Items(unit)[Lead(unit) + j] = BlockItem(unit.blocks[j])
  <2> TAKE j \in 1..Len(unit.blocks)
  <2>1. Lead(unit) + j \in 1..Blocked(unit)
    BY <1>2 DEF UnitTyped, Blocked
  <2> QED  BY <1>4, <1>10, <1>11, <2>1
<1> QED  BY <1>2, <1>5, <1>11, <1>12, <1>13

\* What unit looks like in a model where it begins at at.
UnitAt(unit, model, at) ==
  /\ unit.delimiter => model[at] = DelimiterObu
  /\ \A j \in 0..(Len(unit.blocks) - 1) :
       model[at + Lead(unit) + j] = BlockModel(unit.blocks[j + 1])
  /\ \A j \in 0..(Len(unit.frames) - 1) :
       model[at + Blocked(unit) + j] = FrameObu(unit.frames[j + 1].substream)

\* The units us are in the model one after the other, each at its place.
UnitsAt(us, model, from) ==
  /\ Len(us) \in Nat /\ DOMAIN us = 1..Len(us)
  /\ Len(model) \in Nat /\ DOMAIN model = 1..Len(model)
  /\ from \in [1..(Len(us) + 1) -> Nat]
  /\ from[1] >= 1 /\ from[Len(us) + 1] = Len(model) + 1
  /\ \A n \in 1..(from[1] - 1) : n \in DOMAIN model /\ model[n].kind \notin Temporal
  /\ \A i \in 1..Len(us) :
       /\ UnitTyped(us[i])
       /\ from[i + 1] = from[i] + UnitSize(us[i])
       /\ UnitAt(us[i], model, from[i])

LEMMA ModelLaidOut ==
  ASSUME NEW d, NEW us, Accepts(d, us)
  PROVE  \E from : UnitsAt(us, FromParts(d, us), from)
<1> DEFINE lists == [i \in DOMAIN us |-> Items(us[i])]
           model == FromParts(d, us)
           p     == Len(Prologue(d))
           all   == AllItems(us)
<1>1. /\ lists \in Seq(Seq(ItemTypes)) /\ all = FlattenSeq(lists)
      /\ Len(lists) = Len(us) /\ Len(us) \in Nat /\ DOMAIN us = 1..Len(us)
      /\ \A i \in 1..Len(us) : lists[i] = Items(us[i]) /\ us[i] \in Units
  BY ItemListsTyped DEF Accepts, AllItems
<1> HIDE DEF lists, model, p, all
<1>2. PICK c : Places(lists, c)
  BY <1>1, FlattenPlaces
<1>3. ModelShape(d, us, model, p)
  BY ModelIsShaped DEF model, p
<1>4. /\ p \in Nat /\ p >= 1 /\ Len(all) \in Nat /\ Len(model) = p + Len(all)
      /\ DOMAIN model = 1..Len(model)
      /\ \A i \in 1..p : model[i] \in Plain(d)
      /\ \A k \in 1..Len(all) : model[p + k] = ModelOf(all[k])
  BY <1>3 DEF ModelShape, all
<1>5. /\ c \in [1..(Len(us) + 1) -> Nat] /\ c[1] = 0 /\ c[Len(us) + 1] = Len(all)
      /\ \A i \in 1..Len(us) :
           /\ c[i + 1] = c[i] + Len(Items(us[i])) /\ c[i + 1] <= Len(all)
           /\ \A j \in 1..Len(Items(us[i])) : all[c[i] + j] = Items(us[i])[j]
  BY <1>1, <1>2 DEF Places
<1> DEFINE from == [i \in 1..(Len(us) + 1) |-> p + 1 + c[i]]
<1>6. /\ from \in [1..(Len(us) + 1) -> Nat] /\ from[1] = p + 1
      /\ from[Len(us) + 1] = Len(model) + 1
      /\ \A i \in 1..(Len(us) + 1) : from[i] = p + 1 + c[i]
  BY <1>1, <1>4, <1>5
<1> HIDE DEF from
<1>7. ASSUME NEW n \in 1..(from[1] - 1)
      PROVE  n \in DOMAIN model /\ model[n].kind \notin Temporal
  <2>1. n \in 1..p
    BY <1>4, <1>6
  <2> QED  BY <1>4, <2>1, PlainObus DEF IsPlain, Accepts
<1>8. ASSUME NEW i \in 1..Len(us)
      PROVE  /\ UnitTyped(us[i])
             /\ from[i + 1] = from[i] + UnitSize(us[i])
             /\ UnitAt(us[i], model, from[i])
  <2> DEFINE u  == us[i]
             at == c[i]
  <2>1. /\ UnitTyped(u) /\ Len(Items(u)) = UnitSize(u)
        /\ u.delimiter => Items(u)[1] = Delimiter
        /\ \A j \in 1..Len(u.blocks) : Items(u)[Lead(u) + j] = BlockItem(u.blocks[j])
        /\ \A j \in 1..Len(u.frames) : Items(u)[Blocked(u) + j] = FrameItem(u.frames[j])
    BY <1>1, ItemsPlaced
  <2>2. /\ at \in Nat /\ at + UnitSize(u) <= Len(all) /\ c[i + 1] = at + UnitSize(u)
        /\ from[i] = p + 1 + at /\ from[i + 1] = from[i] + UnitSize(u)
        /\ \A j \in 1..UnitSize(u) : all[at + j] = Items(u)[j]
    <3>1. i \in 1..(Len(us) + 1) /\ i + 1 \in 1..(Len(us) + 1)
      BY <1>1
    <3>2. c[i] \in Nat /\ c[i + 1] = c[i] + UnitSize(u) /\ c[i + 1] <= Len(all)
      BY <1>5, <2>1, <3>1
    <3>3. from[i] = p + 1 + c[i] /\ from[i + 1] = p + 1 + c[i + 1]
      BY <1>6, <3>1
    <3>4. \A j \in 1..UnitSize(u) : all[c[i] + j] = Items(u)[j]
      BY <1>5, <2>1
    <3>5. from[i + 1] = from[i] + UnitSize(u)
      BY <1>4, <2>1, <3>2, <3>3 DEF UnitTyped
    <3> QED  BY <3>2, <3>3, <3>4, <3>5
  <2> HIDE DEF u, at
  <2> DEFINE nb == Len(u.blocks)
             nf == Len(u.frames)
             l  == Lead(u)
             m  == Blocked(u)
             z  == UnitSize(u)
  <2>3. /\ p \in Nat /\ at \in Nat /\ nb \in Nat /\ nf \in Nat /\ l \in Nat
        /\ m = l + nb /\ z = m + nf
        /\ u.delimiter => l = 1
    BY <1>4, <2>1, <2>2 DEF UnitTyped, UnitSize, Blocked, Lead
  <2> HIDE DEF nb, nf, l, m, z
  <2>4. ASSUME NEW j \in 1..UnitSize(u)
        PROVE  model[(p + 1 + at) + (j - 1)] = ModelOf(Items(u)[j])
    <3>1. at + j \in 1..Len(all) /\ (p + 1 + at) + (j - 1) = p + (at + j)
      BY <1>4, <2>1, <2>2 DEF UnitTyped
    <3> QED  BY <1>4, <2>2, <3>1
  <2>5. u.delimiter => model[p + 1 + at] = DelimiterObu
    <3> SUFFICES ASSUME u.delimiter PROVE model[p + 1 + at] = DelimiterObu
      OBVIOUS
    <3>1. 1 \in 1..z /\ (p + 1 + at) + (1 - 1) = p + 1 + at
      BY <2>3
    <3>2. ModelOf(Delimiter) = DelimiterObu
      BY ItemKinds DEF ModelOf
    <3> QED  BY <2>1, <2>4, <3>1, <3>2 DEF nb, nf, l, m, z
  <2>6. ASSUME NEW j \in 0..(nb - 1)
        PROVE  model[(p + 1 + at) + Lead(u) + j] = BlockModel(u.blocks[j + 1])
    <3>1. /\ j + 1 \in 1..nb /\ l + (j + 1) \in 1..z
          /\ (p + 1 + at) + ((l + (j + 1)) - 1) = (p + 1 + at) + l + j
      BY <2>3
    <3>2. ModelOf(BlockItem(u.blocks[j + 1])) = BlockModel(u.blocks[j + 1])
      BY ItemKinds DEF ModelOf
    <3> QED  BY <2>1, <2>4, <3>1, <3>2 DEF nb, nf, l, m, z
  <2>7. ASSUME NEW j \in 0..(nf - 1)
        PROVE  model[(p + 1 + at) + Blocked(u) + j] = FrameObu(u.frames[j + 1].substream)
    <3>1. /\ j + 1 \in 1..nf /\ m + (j + 1) \in 1..z
          /\ (p + 1 + at) + ((m + (j + 1)) - 1) = (p + 1 + at) + m + j
      BY <2>3
    <3>2. ModelOf(FrameItem(u.frames[j + 1])) = FrameObu(u.frames[j + 1].substream)
      BY ItemKinds DEF ModelOf
    <3> QED  BY <2>1, <2>4, <3>1, <3>2 DEF nb, nf, l, m, z
  <2>8. UnitAt(u, model, from[i])
    BY <2>2, <2>5, <2>6, <2>7 DEF UnitAt, nb, nf
  <2> QED  BY <2>1, <2>2, <2>8 DEF u
<1>9. UnitsAt(us, model, from)
  BY <1>1, <1>4, <1>6, <1>7, <1>8 DEF UnitsAt
<1> QED  BY <1>9 DEF model

\* What stands at place n of a model in which unit begins at at.
InUnit(unit, model, at, n) ==
  \/ unit.delimiter /\ n = at /\ model[n] = DelimiterObu
  \/ \E j \in 0..(Len(unit.blocks) - 1) :
       n = at + Lead(unit) + j /\ model[n] = BlockModel(unit.blocks[j + 1])
  \/ \E j \in 0..(Len(unit.frames) - 1) :
       n = at + Blocked(unit) + j /\ model[n] = FrameObu(unit.frames[j + 1].substream)

LEMMA WithinUnit ==
  ASSUME NEW unit, NEW model, NEW at \in Nat, UnitTyped(unit), UnitAt(unit, model, at),
         NEW n \in at..(at + UnitSize(unit) - 1)
  PROVE  InUnit(unit, model, at, n)
<1> DEFINE nb == Len(unit.blocks)
           nf == Len(unit.frames)
           l  == Lead(unit)
           m  == Blocked(unit)
<1>1. /\ nb \in Nat /\ nf \in Nat /\ l \in Nat /\ m = l + nb /\ UnitSize(unit) = m + nf
      /\ ((l = 1 /\ unit.delimiter) \/ l = 0)
  BY DEF UnitTyped, Lead, Blocked, UnitSize
<1>2. CASE n < at + l
  <2> HIDE DEF nb, nf, m, l
  <2>1. n = at /\ unit.delimiter
    BY <1>1, <1>2
  <2>2. model[n] = DelimiterObu
    BY <2>1 DEF UnitAt
  <2> QED  BY <2>1, <2>2 DEF InUnit
<1>3. CASE at + l <= n /\ n < at + m
  <2> DEFINE j == n - (at + l)
  <2> HIDE DEF nb, nf, m, l
  <2>1. j \in 0..(nb - 1) /\ n = at + l + j
    BY <1>1, <1>3
  <2> HIDE DEF j
  <2>2. model[n] = BlockModel(unit.blocks[j + 1])
    BY <2>1 DEF UnitAt, nb, l
  <2> QED  BY <2>1, <2>2 DEF InUnit, nb, l
<1>4. CASE at + m <= n
  <2> DEFINE j == n - (at + m)
  <2> HIDE DEF nb, nf, m, l
  <2>1. j \in 0..(nf - 1) /\ n = at + m + j
    BY <1>1, <1>4
  <2> HIDE DEF j
  <2>2. model[n] = FrameObu(unit.frames[j + 1].substream)
    BY <2>1 DEF UnitAt, nf, m
  <2> QED  BY <2>1, <2>2 DEF InUnit, nf, m
<1> HIDE DEF nb, nf, m, l
<1> QED  BY <1>1, <1>2, <1>3, <1>4

\* Every OBU after the prologue is in a unit.
LEMMA WhichUnit ==
  ASSUME NEW us, NEW model, NEW from, UnitsAt(us, model, from),
         NEW n \in from[1]..Len(model)
  PROVE  \E i \in 1..Len(us) : n \in from[i]..(from[i + 1] - 1)
                               /\ InUnit(us[i], model, from[i], n)
<1> DEFINE N == Len(us)
           T == {k \in Nat : k <= N /\ n < from[k + 1] =>
                   \E i \in 1..N : n \in from[i]..(from[i + 1] - 1)}
<1>1. N \in Nat /\ Len(model) \in Nat /\ from \in [1..(N + 1) -> Nat]
      /\ from[N + 1] = Len(model) + 1
  BY DEF UnitsAt
<1> HIDE DEF N
<1>2. n \in Nat /\ from[1] <= n /\ n <= Len(model)
  <2>1. from[1] \in Nat
    BY <1>1
  <2> QED  BY <1>1, <2>1
<1>3. 0 \in T
  BY <1>1, <1>2
<1>4. ASSUME NEW k \in Nat, k \in T PROVE k + 1 \in T
  <2> SUFFICES ASSUME k + 1 <= N, n < from[k + 2]
               PROVE  \E i \in 1..N : n \in from[i]..(from[i + 1] - 1)
    OBVIOUS
  <2>1. CASE n < from[k + 1]
    BY <1>1, <1>4, <2>1
  <2>2. CASE ~ (n < from[k + 1])
    <3>1. k + 1 \in 1..N /\ (k + 1) + 1 = k + 2 /\ from[k + 1] \in Nat /\ from[k + 2] \in Nat
      BY <1>1
    <3>2. n \in from[k + 1]..(from[(k + 1) + 1] - 1)
      BY <1>2, <2>2, <3>1
    <3> QED  BY <3>1, <3>2
  <2> QED  BY <2>1, <2>2
<1> HIDE DEF T
<1>5. N \in T
  BY <1>1, <1>3, <1>4, NaturalSteps
<1>6. PICK i \in 1..N : n \in from[i]..(from[i + 1] - 1)
  BY <1>1, <1>2, <1>5 DEF T
<1>7. /\ from[i] \in Nat /\ UnitTyped(us[i]) /\ UnitAt(us[i], model, from[i])
      /\ from[i + 1] = from[i] + UnitSize(us[i])
  BY <1>1, <1>6 DEF UnitsAt, N
<1>8. n \in from[i]..(from[i] + UnitSize(us[i]) - 1)
  <2> DEFINE lo == from[i]
             hi == from[i + 1]
             z  == UnitSize(us[i])
  <2>1. n \in lo..(hi - 1) /\ lo \in Nat /\ hi = lo + z
    BY <1>6, <1>7
  <2>2. z \in Nat
    BY <1>7 DEF UnitTyped
  <2> HIDE DEF lo, hi, z
  <2>3. n \in lo..(lo + z - 1)
    BY <2>1, <2>2
  <2> QED  BY <2>3 DEF lo, z
<1>9. InUnit(us[i], model, from[i], n)
  BY <1>7, <1>8, WithinUnit
<1> QED  BY <1>6, <1>9 DEF N

----------------------------------------------------------------------------

\* Where ranges begin and end, and units.
RangeFroms(ranges) == [r \in 1..Len(ranges) |-> ranges[r][1]]

RangeTos(ranges) == [r \in 1..Len(ranges) |-> ranges[r][2]]

UnitFroms(us, from) == [i \in 1..Len(us) |-> from[i]]

UnitTos(us, from) == [i \in 1..Len(us) |-> from[i + 1]]

LEMMA RangesChained ==
  ASSUME NEW obus, NEW ranges \in Seq(Nat \X Nat), CutIntoUnits(obus, ranges)
  PROVE  /\ Chain(Len(ranges), RangeFroms(ranges), RangeTos(ranges), Len(obus) + 1)
         /\ DOMAIN ranges = 1..Len(ranges)
<1>1. Len(ranges) \in Nat /\ DOMAIN ranges = 1..Len(ranges)
      /\ \A r \in 1..Len(ranges) : ranges[r][1] \in Nat /\ ranges[r][2] \in Nat
  <2>1. \A r \in 1..Len(ranges) : ranges[r] \in Nat \X Nat
    OBVIOUS
  <2> QED  BY <2>1
<1>2. \A r \in 1..Len(ranges) :
        /\ ranges[r][1] < ranges[r][2]
        /\ ranges[r][2] = IF r = Len(ranges) THEN Len(obus) + 1 ELSE ranges[r + 1][1]
  BY <1>1 DEF CutIntoUnits
<1>3. \A r \in 1..Len(ranges) : r # Len(ranges) => r + 1 \in 1..Len(ranges)
  <2>1. \A n \in Nat : \A r \in 1..n : r # n => r + 1 \in 1..n
    OBVIOUS
  <2> QED  BY <1>1, <2>1
<1> QED  BY <1>1, <1>2, <1>3 DEF Chain, RangeFroms, RangeTos

LEMMA UnitsChained ==
  ASSUME NEW us, NEW model, NEW from, UnitsAt(us, model, from),
         \A i \in 1..Len(us) : UnitSize(us[i]) # 0
  PROVE  Chain(Len(us), UnitFroms(us, from), UnitTos(us, from), Len(model) + 1)
<1>1. /\ Len(us) \in Nat /\ from \in [1..(Len(us) + 1) -> Nat]
      /\ from[Len(us) + 1] = Len(model) + 1
  BY DEF UnitsAt
<1>2. ASSUME NEW i \in 1..Len(us)
      PROVE  from[i] \in Nat /\ from[i + 1] \in Nat /\ from[i] < from[i + 1]
  <2>1. from[i] \in Nat /\ from[i + 1] \in Nat
    BY <1>1
  <2>2. from[i + 1] = from[i] + UnitSize(us[i]) /\ UnitSize(us[i]) \in Nat
    BY DEF UnitsAt, UnitTyped
  <2> QED  BY <2>1, <2>2
<1>3. \A i \in 1..Len(us) : i # Len(us) => i + 1 \in 1..Len(us)
  BY <1>1
<1>4. /\ UnitFroms(us, from) \in [1..Len(us) -> Nat] /\ UnitTos(us, from) \in [1..Len(us) -> Nat]
      /\ \A i \in 1..Len(us) : UnitFroms(us, from)[i] = from[i] /\ UnitTos(us, from)[i] = from[i + 1]
  BY <1>2 DEF UnitFroms, UnitTos
<1> QED  BY <1>1, <1>2, <1>3, <1>4 DEF Chain

LEMMA InUnitKinds ==
  ASSUME NEW unit, NEW model, NEW at, NEW n, InUnit(unit, model, at, n)
  PROVE  /\ model[n].kind \in Temporal
         /\ model[n].kind = "delimiter" => unit.delimiter /\ n = at
<1>1. /\ DelimiterObu.kind = "delimiter"
      /\ \A block : BlockModel(block).kind = "block"
      /\ \A substream : FrameObu(substream).kind = "frame"
  BY DEF DelimiterObu, BlockModel, FrameObu
<1>2. CASE unit.delimiter /\ n = at /\ model[n] = DelimiterObu
  BY <1>1, <1>2 DEF Temporal
<1>3. CASE \E block : model[n] = BlockModel(block)
  BY <1>1, <1>3 DEF Temporal
<1>4. CASE \E substream : model[n] = FrameObu(substream)
  BY <1>1, <1>4 DEF Temporal
<1> QED  BY <1>2, <1>3, <1>4 DEF InUnit

\* The first range begins where the first unit does.
LEMMA FirstBegins ==
  ASSUME NEW us, NEW model, NEW from, UnitsAt(us, model, from),
         \A i \in 1..Len(us) : UnitSize(us[i]) # 0,
         NEW ranges \in Seq(Nat \X Nat), CutIntoUnits(model, ranges)
  PROVE  /\ Len(ranges) > 0 <=> Len(us) > 0
         /\ Len(ranges) > 0 => ranges[1][1] = from[1]
<1> DEFINE temporal == {i \in DOMAIN model : model[i].kind \in Temporal}
           first    == {i \in temporal : \A j \in temporal : i <= j}
           e        == Len(model)
<1>1. /\ e \in Nat /\ DOMAIN model = 1..e /\ Len(us) \in Nat
      /\ from[1] \in Nat /\ from[1] >= 1
      /\ \A n \in 1..(from[1] - 1) : model[n].kind \notin Temporal
  <2>1. 1 \in 1..(Len(us) + 1)
    BY DEF UnitsAt
  <2> QED  BY <2>1 DEF UnitsAt
<1>2. \A n \in from[1]..e : model[n].kind \in Temporal
  BY WhichUnit, InUnitKinds
<1> HIDE DEF e
<1>3. temporal = from[1]..e
  BY <1>1, <1>2
<1> HIDE DEF temporal
<1>4. /\ first # {} <=> from[1] <= e
      /\ \A n \in first : n = from[1]
  <2>1. from[1] <= e => from[1] \in first
    BY <1>1, <1>3
  <2>2. ASSUME NEW n \in first PROVE n = from[1]
    <3>1. n \in from[1]..e /\ from[1] \in from[1]..e
      BY <1>1, <1>3
    <3>2. n <= from[1]
      BY <1>3, <3>1
    <3> QED  BY <1>1, <3>1, <3>2
  <2>3. first # {} => from[1] <= e
    BY <1>1, <1>3
  <2> QED  BY <2>1, <2>2, <2>3
<1>5. {ranges[r][1] : r \in {r \in DOMAIN ranges : r = 1}} = first
  BY DEF CutIntoUnits, first, temporal
<1> HIDE DEF first
<1>6. /\ Len(ranges) \in Nat /\ DOMAIN ranges = 1..Len(ranges)
  BY RangesChained DEF Chain
<1>7. /\ Len(ranges) > 0 <=> first # {}
      /\ Len(ranges) > 0 => ranges[1][1] \in first
  <2>1. 1 \in DOMAIN ranges <=> Len(ranges) > 0
    BY <1>6
  <2> QED  BY <1>5, <2>1
<1>8. from[1] <= e <=> Len(us) > 0
  <2>1. CASE Len(us) = 0
    <3>1. from[1] = e + 1
      BY <2>1 DEF UnitsAt, e
    <3> QED  BY <1>1, <2>1, <3>1
  <2>2. CASE Len(us) # 0
    <3>1. Chain(Len(us), UnitFroms(us, from), UnitTos(us, from), e + 1)
      BY UnitsChained DEF e
    <3>2. 1 \in 1..Len(us)
      BY <1>1, <2>2
    <3>3. UnitTos(us, from)[1] <= e + 1 /\ UnitFroms(us, from)[1] < UnitTos(us, from)[1]
      BY <3>1, <3>2, ChainOrdered DEF Chain
    <3>4. UnitFroms(us, from)[1] = from[1] /\ UnitTos(us, from)[1] \in Nat
      BY <3>1, <3>2 DEF UnitFroms, Chain
    <3> QED  BY <1>1, <2>2, <3>3, <3>4
  <2> QED  BY <2>1, <2>2
<1> QED  BY <1>4, <1>7, <1>8

EndsAt(ranges, k, n) == ranges[k][2] = n

\* With delimiters a range that begins with a unit ends with it, ...
LEMMA MarkedEnds ==
  ASSUME NEW us, NEW model, NEW from, UnitsAt(us, model, from),
         \A i \in DOMAIN us : us[i].delimiter,
         NEW ranges \in Seq(Nat \X Nat), CutIntoUnits(model, ranges),
         NEW k \in 1..Len(us), k \in DOMAIN ranges, ranges[k][1] = from[k]
  PROVE  EndsAt(ranges, k, from[k + 1])
<1> DEFINE N      == Len(us)
           L      == Len(ranges)
           e      == Len(model)
           lo     == RangeFroms(ranges)
           hi     == RangeTos(ranges)
           b      == UnitFroms(us, from)
           c      == UnitTos(us, from)
           begins == {ranges[r][1] : r \in DOMAIN ranges}
           marks  == {i \in DOMAIN model : model[i].kind = "delimiter"}
           temporal == {i \in DOMAIN model : model[i].kind \in Temporal}
           first  == {i \in temporal : \A j \in temporal : i <= j}
<1>1. /\ N \in Nat /\ e \in Nat /\ DOMAIN us = 1..N /\ DOMAIN model = 1..e
      /\ from[1] \in Nat /\ from[1] >= 1
      /\ \A i \in 1..N : UnitTyped(us[i]) /\ UnitAt(us[i], model, from[i])
  <2>1. Len(us) \in Nat => 1 \in 1..(Len(us) + 1)
    OBVIOUS
  <2> QED  BY <2>1 DEF UnitsAt
<1>2. \A i \in 1..N : UnitSize(us[i]) # 0
  <2> TAKE i \in 1..N
  <2>1. Lead(us[i]) = 1 /\ Len(us[i].blocks) \in Nat /\ Len(us[i].frames) \in Nat
    BY <1>1 DEF Lead, UnitTyped
  <2> DEFINE nb == Len(us[i].blocks)
             nf == Len(us[i].frames)
  <2>2. nb \in Nat /\ nf \in Nat /\ UnitSize(us[i]) = (1 + nb) + nf
    BY <2>1 DEF UnitSize, Blocked
  <2> HIDE DEF nb, nf
  <2> QED  BY <2>2
<1>3. Chain(N, b, c, e + 1) /\ Chain(L, lo, hi, e + 1) /\ DOMAIN ranges = 1..L
  BY <1>2, UnitsChained, RangesChained
<1>4. /\ \A i \in 1..N : b[i] = from[i] /\ c[i] = from[i + 1]
      /\ \A r \in 1..L : lo[r] = ranges[r][1] /\ hi[r] = ranges[r][2]
  BY DEF UnitFroms, UnitTos, RangeFroms, RangeTos
<1>5. /\ \A i \in 1..N : Link(N, b, c, e + 1, i)
       /\ \A r \in 1..L : Link(L, lo, hi, e + 1, r)
  BY <1>3, ChainLinks
<1>6. \A i \in 1..N : b[i] \in 1..e /\ b[i] \in marks
  <2> TAKE i \in 1..N
  <2>1. b[i] < c[i] /\ c[i] <= e + 1 /\ b[i] \in Nat /\ c[i] \in Nat
    BY <1>5 DEF Link
  <2>2. b[1] \in Nat /\ b[1] >= 1 /\ 1 \in 1..N
    BY <1>1, <1>4
  <2>3. b[1] <= b[i]
    <3>1. i = 1 \/ 1 < i
      OBVIOUS
    <3>2. 1 < i => b[1] < b[i]
      BY <1>5, <2>2 DEF Link
    <3> QED  BY <2>1, <2>2, <3>1, <3>2
  <2>4. b[i] \in 1..e
    <3>1. \A x, y, z \in Nat : x >= 1 /\ x <= y /\ y < z /\ z <= e + 1 => y \in 1..e
      BY <1>1
    <3> QED  BY <2>1, <2>2, <2>3, <3>1
  <2>5. model[from[i]] = DelimiterObu
    BY <1>1 DEF UnitAt
  <2> QED  BY <1>1, <1>4, <2>4, <2>5 DEF DelimiterObu
<1>7. \A n \in temporal : \E i \in 1..N : n \in b[i]..(c[i] - 1) /\ InUnit(us[i], model, from[i], n)
  <2> TAKE n \in temporal
  <2>1. n \in from[1]..e
    <3>1. n \in 1..e /\ ~ (n \in 1..(from[1] - 1))
      BY <1>1 DEF UnitsAt
    <3> QED  BY <1>1, <3>1
  <2> QED  BY <1>4, <2>1, WhichUnit
<1>8. marks # {}
  BY <1>6
<1>9. begins = marks \cup first
  BY <1>8 DEF CutIntoUnits
<1>10. \A n \in begins : \E i \in 1..N : n = b[i]
  <2> TAKE n \in begins
  <2>1. n \in temporal
    BY <1>9 DEF Temporal
  <2>2. PICK i \in 1..N : n \in b[i]..(c[i] - 1) /\ InUnit(us[i], model, from[i], n)
    BY <1>7, <2>1
  <2>3. CASE n \in marks
    <3>1. model[n].kind = "delimiter"
      BY <2>3
    <3>2. n = from[i]
      BY <2>2, <3>1, InUnitKinds
    <3> QED  BY <1>4, <3>2
  <2>4. CASE n \in first
    <3>1. b[i] \in temporal
      BY <1>6 DEF Temporal
    <3>2. n <= b[i] /\ b[i] <= n /\ b[i] \in Nat /\ n \in Nat
      BY <1>6, <2>2, <2>4, <3>1
    <3> QED  BY <3>2
  <2> QED  BY <1>9, <2>3, <2>4
<1> HIDE DEF N, L, e, lo, hi, b, c, begins, marks, temporal, first
<1>11. lo[k] = b[k] /\ k \in 1..N /\ k \in 1..L
  BY <1>3, <1>4 DEF N
<1>12. /\ lo[k] \in Nat /\ hi[k] \in Nat /\ c[k] \in Nat /\ lo[k] < hi[k] /\ lo[k] < c[k]
       /\ hi[k] <= e + 1 /\ c[k] <= e + 1
  BY <1>11, <1>5 DEF Link
<1>13. c[k] <= hi[k]
  <2>1. CASE k = L
    <3>1. hi[k] = e + 1
      BY <1>11, <1>5, <2>1 DEF Link
    <3> QED  BY <1>12, <3>1
  <2>2. CASE k # L
    <3>1. k + 1 \in 1..L /\ hi[k] = lo[k + 1]
      BY <1>11, <1>5, <2>2 DEF Link
    <3>2. hi[k] \in begins
      BY <1>3, <1>4, <3>1 DEF begins
    <3>3. PICK i \in 1..N : hi[k] = b[i]
      BY <1>10, <3>2
    <3>4. (k < i) \/ (i = k) \/ (i < k)
      BY <1>11
    <3>5. ~ (i < k)
      <4>1. i < k => b[i] < b[k]
        BY <1>11, <1>5 DEF Link
      <4> QED  BY <1>11, <1>12, <3>3, <4>1
    <3>6. i # k
      BY <1>11, <1>12, <3>3
    <3>7. k < i
      BY <3>4, <3>5, <3>6
    <3> QED  BY <1>11, <1>5, <3>3, <3>7 DEF Link
  <2> QED  BY <2>1, <2>2
<1>14. hi[k] <= c[k]
  <2>1. CASE k = N
    <3>1. c[k] = e + 1
      BY <1>11, <1>5, <2>1 DEF Link
    <3> QED  BY <1>12, <3>1
  <2>2. CASE k # N
    <3>1. k + 1 \in 1..N /\ c[k] = b[k + 1]
      BY <1>11, <1>5, <2>2 DEF Link
    <3>2. c[k] \in begins
      BY <1>6, <1>9, <3>1
    <3>3. PICK r \in 1..L : c[k] = lo[r]
      BY <1>3, <1>4, <3>2 DEF begins
    <3>4. (k < r) \/ (r = k) \/ (r < k)
      BY <1>11
    <3>5. ~ (r < k)
      <4>1. r < k => lo[r] < lo[k]
        BY <1>11, <1>5 DEF Link
      <4> QED  BY <1>12, <3>3, <4>1
    <3>6. r # k
      BY <1>12, <3>3
    <3>7. k < r
      BY <3>4, <3>5, <3>6
    <3> QED  BY <1>11, <1>5, <3>3, <3>7 DEF Link
  <2> QED  BY <2>1, <2>2
<1> QED  BY <1>4, <1>11, <1>12, <1>13, <1>14 DEF EndsAt

\* Units without delimiters whose bounds a reader can see.
Unmarked(us) ==
  \A i \in DOMAIN us :
    /\ ~us[i].delimiter
    /\ us[i].frames # <<>>
    /\ i > 1 => \/ us[i].blocks # <<>>
                \/ \E j \in DOMAIN us[i - 1].frames :
                     us[i - 1].frames[j].substream = us[i].frames[1].substream

LEMMA UnmarkedSizes ==
  ASSUME NEW us, Unmarked(us), NEW i \in DOMAIN us, UnitTyped(us[i])
  PROVE  /\ UnitSize(us[i]) # 0 /\ Lead(us[i]) = 0 /\ Blocked(us[i]) = Len(us[i].blocks)
         /\ 1 \in DOMAIN us[i].frames
<1>1. Lead(us[i]) = 0 /\ us[i].frames # <<>>
  BY DEF Unmarked, Lead
<1> DEFINE nb == Len(us[i].blocks)
           nf == Len(us[i].frames)
<1>2. us[i].frames \in Seq(Frames) /\ nb \in Nat
  BY DEF UnitTyped
<1>3. nf \in Nat /\ nf # 0 /\ DOMAIN us[i].frames = 1..nf
  BY <1>1, <1>2, EmptySeq
<1>4. Blocked(us[i]) = 0 + nb /\ UnitSize(us[i]) = (0 + nb) + nf
  BY <1>1 DEF Blocked, UnitSize
<1> HIDE DEF nb, nf
<1>5. 0 + nb = nb /\ (0 + nb) + nf # 0 /\ 1 \in 1..nf
  BY <1>2, <1>3
<1> QED  BY <1>1, <1>3, <1>4, <1>5 DEF nb

\* No OBU of such a unit starts another.
LEMMA UnitHolds ==
  ASSUME NEW unit, NEW model, NEW at \in Nat, UnitTyped(unit), ~unit.delimiter,
         ValidateTemporalUnit(unit.frames), UnitAt(unit, model, at),
         NEW n \in (at + 1)..(at + UnitSize(unit) - 1)
  PROVE  ~StartsAnother(model, n, at)
<1> SUFFICES ASSUME NEW i \in at..(n - 1), model[i].kind = "frame",
                    model[n].kind \in {"block", "ungoverned"} \/
                      (model[n].kind = "frame" /\ model[n].substream = model[i].substream)
             PROVE  FALSE
  BY DEF StartsAnother
<1> DEFINE z  == UnitSize(unit)
           m  == Blocked(unit)
           l  == Lead(unit)
           nb == Len(unit.blocks)
           nf == Len(unit.frames)
<1>1. z \in Nat /\ m \in Nat /\ l = 0 /\ nb \in Nat /\ nf \in Nat /\ m = l + nb
      /\ DOMAIN unit.frames = 1..nf
  BY DEF UnitTyped, Blocked, Lead
<1> HIDE DEF z, m, l, nb, nf
<1>2. /\ n \in Nat /\ i \in Nat /\ i < n
      /\ n \in at..(at + z - 1) /\ i \in at..(at + z - 1)
  BY <1>1 DEF z
<1>3. InUnit(unit, model, at, n) /\ InUnit(unit, model, at, i)
  BY <1>2, WithinUnit DEF z
<1>4. /\ \A block : BlockModel(block).kind = "block"
      /\ \A substream : FrameObu(substream).kind = "frame"
                        /\ FrameObu(substream).substream = substream
  BY DEF BlockModel, FrameObu
<1>5. PICK j \in 0..(nf - 1) :
        i = at + m + j /\ model[i] = FrameObu(unit.frames[j + 1].substream)
  BY <1>3, <1>4 DEF InUnit, m, nf
<1>6. CASE \E k \in 0..(nb - 1) : n = at + l + k
  BY <1>1, <1>2, <1>5, <1>6
<1>7. CASE \E k \in 0..(nf - 1) :
             n = at + m + k /\ model[n] = FrameObu(unit.frames[k + 1].substream)
  <2>1. PICK k \in 0..(nf - 1) :
          n = at + m + k /\ model[n] = FrameObu(unit.frames[k + 1].substream)
    BY <1>7
  <2>2. /\ j + 1 \in DOMAIN unit.frames /\ k + 1 \in DOMAIN unit.frames /\ j + 1 # k + 1
    BY <1>1, <1>2, <1>5, <2>1
  <2>3. unit.frames[j + 1].substream # unit.frames[k + 1].substream
    BY <2>2 DEF ValidateTemporalUnit
  <2>4. model[n].kind = "frame" /\ model[n].substream = unit.frames[k + 1].substream
        /\ model[i].substream = unit.frames[j + 1].substream
    BY <1>4, <1>5, <2>1
  <2> QED  BY <2>3, <2>4
<1> QED  BY <1>3, <1>6, <1>7 DEF InUnit, m, nf, nb, l

\* The first OBU of the next one does.
LEMMA NextStarts ==
  ASSUME NEW us, NEW model, NEW from, UnitsAt(us, model, from), Unmarked(us),
         NEW k \in 1..Len(us), k # Len(us)
  PROVE  StartsAnother(model, from[k + 1], from[k])
<1> DEFINE u == us[k]
           v == us[k + 1]
           a == from[k]
           n == from[k + 1]
<1>1. k \in DOMAIN us /\ k + 1 \in DOMAIN us /\ k + 1 > 1 /\ (k + 1) - 1 = k
      /\ k + 1 \in 1..Len(us)
  <2> DEFINE N == Len(us)
  <2>1. N \in Nat /\ DOMAIN us = 1..N
    BY DEF UnitsAt
  <2> HIDE DEF N
  <2>2. k \in 1..N /\ k # N
    BY DEF N
  <2>3. k \in 1..N /\ k + 1 \in 1..N /\ k + 1 > 1 /\ (k + 1) - 1 = k
    BY <2>1, <2>2
  <2> QED  BY <2>1, <2>3 DEF N
<1>2. /\ a \in Nat /\ n = a + UnitSize(u) /\ n \in Nat
      /\ UnitTyped(u) /\ UnitTyped(v) /\ UnitAt(u, model, a) /\ UnitAt(v, model, n)
  <2>1. k \in 1..(Len(us) + 1) /\ k + 1 \in 1..(Len(us) + 1)
    BY <1>1 DEF UnitsAt
  <2> QED  BY <1>1, <2>1 DEF UnitsAt
<1>3. v.blocks # <<>> \/ \E j \in DOMAIN u.frames : u.frames[j].substream = v.frames[1].substream
  BY <1>1 DEF Unmarked
<1>4. /\ 1 \in DOMAIN u.frames /\ 1 \in DOMAIN v.frames
      /\ Lead(v) = 0 /\ Blocked(v) = Len(v.blocks)
  BY <1>1, <1>2, UnmarkedSizes
<1> HIDE DEF u, v, a, n
<1>5. ASSUME NEW j \in DOMAIN u.frames
      PROVE  \E i \in a..(n - 1) :
               model[i].kind = "frame" /\ model[i].substream = u.frames[j].substream
  <2> DEFINE nf == Len(u.frames)
             m  == Blocked(u)
             i  == a + m + (j - 1)
  <2>1. m \in Nat /\ nf \in Nat /\ UnitSize(u) = m + nf /\ DOMAIN u.frames = 1..nf
    BY <1>2 DEF UnitTyped, UnitSize
  <2> HIDE DEF nf, m
  <2>2. j - 1 \in 0..(nf - 1) /\ (j - 1) + 1 = j
    BY <2>1
  <2>3. i \in a..(n - 1)
    BY <1>2, <2>1, <2>2
  <2>4. model[i] = FrameObu(u.frames[(j - 1) + 1].substream)
    BY <1>2, <2>2 DEF UnitAt, nf, m
  <2>5. model[i].kind = "frame" /\ model[i].substream = u.frames[j].substream
    BY <2>2, <2>4 DEF FrameObu
  <2> QED  BY <2>3, <2>5
<1>6. v.blocks \in Seq(Blocks) /\ Len(v.blocks) \in Nat /\ Len(v.frames) \in Nat
      /\ DOMAIN v.frames = 1..Len(v.frames)
  BY <1>2 DEF UnitTyped
<1>7. CASE v.blocks # <<>>
  <2>1. Len(v.blocks) # 0
    BY <1>6, <1>7, EmptySeq
  <2>2. 0 \in 0..(Len(v.blocks) - 1)
    BY <1>6, <2>1
  <2>3. model[n + Lead(v) + 0] = BlockModel(v.blocks[0 + 1])
    BY <1>2, <2>2 DEF UnitAt
  <2>4. n + Lead(v) + 0 = n
    BY <1>2, <1>4
  <2>5. model[n].kind = "block"
    BY <2>3, <2>4 DEF BlockModel
  <2>6. StartsAnother(model, n, a)
    BY <1>4, <1>5, <2>5 DEF StartsAnother
  <2> QED  BY <2>6 DEF n, a
<1>8. CASE v.blocks = <<>>
  <2>1. Len(v.blocks) = 0 /\ 0 \in 0..(Len(v.frames) - 1)
    BY <1>4, <1>6, <1>8
  <2>2. model[n + Blocked(v) + 0] = FrameObu(v.frames[0 + 1].substream)
    BY <1>2, <2>1 DEF UnitAt
  <2>3. n + Blocked(v) + 0 = n
    BY <1>2, <1>4, <2>1
  <2>4. model[n].kind = "frame" /\ model[n].substream = v.frames[1].substream
    BY <2>2, <2>3 DEF FrameObu
  <2>5. StartsAnother(model, n, a)
    BY <1>3, <1>5, <1>8, <2>4 DEF StartsAnother
  <2> QED  BY <2>5 DEF n, a
<1> QED  BY <1>7, <1>8

\* ... and without delimiters, too.
LEMMA UnmarkedEnds ==
  ASSUME NEW us, NEW model, NEW from, UnitsAt(us, model, from), Unmarked(us),
         \A i \in DOMAIN us : ValidateTemporalUnit(us[i].frames),
         NEW ranges \in Seq(Nat \X Nat), CutIntoUnits(model, ranges),
         NEW k \in 1..Len(us), k \in DOMAIN ranges, ranges[k][1] = from[k]
  PROVE  EndsAt(ranges, k, from[k + 1])
<1> DEFINE e  == Len(model)
           a  == from[k]
           n  == from[k + 1]
           to == ranges[k][2]
<1>1. /\ e \in Nat /\ DOMAIN us = 1..Len(us) /\ DOMAIN model = 1..e /\ Len(us) \in Nat
      /\ \A i \in 1..Len(us) : UnitTyped(us[i]) /\ ~us[i].delimiter
  BY DEF UnitsAt, Unmarked
<1>2. /\ a \in Nat /\ UnitAt(us[k], model, a) /\ n = a + UnitSize(us[k]) /\ n \in Nat
  <2>1. k \in 1..(Len(us) + 1) /\ k + 1 \in 1..(Len(us) + 1)
    BY <1>1
  <2> QED  BY <2>1 DEF UnitsAt
<1>3. \A i \in 1..Len(us) : UnitSize(us[i]) # 0
  BY <1>1, UnmarkedSizes
<1>4. {i \in DOMAIN model : model[i].kind = "delimiter"} = {}
  <2> SUFFICES ASSUME NEW i \in 1..e, model[i].kind = "delimiter" PROVE FALSE
    BY <1>1
  <2>1. from[1] \in Nat
    <3>1. 1 \in 1..(Len(us) + 1)
      BY <1>1
    <3> QED  BY <3>1 DEF UnitsAt
  <2>2. ~ (i \in 1..(from[1] - 1))
    <3>1. model[i].kind \in Temporal
      BY DEF Temporal
    <3> QED  BY <3>1 DEF UnitsAt
  <2>3. i \in from[1]..Len(model)
    BY <1>1, <2>1, <2>2 DEF e
  <2>4. PICK r \in 1..Len(us) : InUnit(us[r], model, from[r], i)
    BY <2>3, WhichUnit
  <2>5. us[r].delimiter
    BY <2>4, InUnitKinds
  <2> QED  BY <1>1, <2>5
<1>5. \A i \in (a + 1)..to : i <= e => (StartsAnother(model, i, a) <=> i = to)
  BY <1>4 DEF CutIntoUnits
<1>6. /\ to \in Nat /\ a < to /\ to <= e + 1
  <2>1. Chain(Len(ranges), RangeFroms(ranges), RangeTos(ranges), e + 1)
        /\ DOMAIN ranges = 1..Len(ranges)
    BY RangesChained
  <2>2. Link(Len(ranges), RangeFroms(ranges), RangeTos(ranges), e + 1, k)
    BY <2>1, ChainLinks
  <2>3. RangeFroms(ranges)[k] = a /\ RangeTos(ranges)[k] = to
    BY <2>1 DEF RangeFroms, RangeTos
  <2> QED  BY <2>2, <2>3 DEF Link
<1>7. n <= e + 1 /\ (k = Len(us) => n = e + 1)
  <2>1. Link(Len(us), UnitFroms(us, from), UnitTos(us, from), e + 1, k)
    BY <1>3, UnitsChained, ChainLinks
  <2>2. UnitTos(us, from)[k] = n
    BY DEF UnitTos
  <2> QED  BY <2>1, <2>2 DEF Link
<1>8. \A i \in (a + 1)..(n - 1) : ~StartsAnother(model, i, a)
  <2> TAKE i \in (a + 1)..(n - 1)
  <2>1. i \in (a + 1)..(a + UnitSize(us[k]) - 1)
    <3> DEFINE z == UnitSize(us[k])
    <3>1. n = a + z /\ a \in Nat /\ n \in Nat /\ z \in Nat
      BY <1>1, <1>2 DEF UnitTyped
    <3> HIDE DEF a, n, z
    <3>2. i \in (a + 1)..(a + z - 1)
      BY <3>1
    <3> QED  BY <3>2 DEF a, z
  <2>2. UnitTyped(us[k]) /\ ~us[k].delimiter /\ ValidateTemporalUnit(us[k].frames)
    BY <1>1
  <2> QED  BY <1>2, <2>1, <2>2, UnitHolds
<1>9. k # Len(us) => StartsAnother(model, n, a)
  BY NextStarts
<1>10. a < n
  <2>1. UnitSize(us[k]) \in Nat /\ UnitSize(us[k]) # 0
    BY <1>1, <1>3 DEF UnitTyped
  <2> QED  BY <1>2, <2>1
<1> HIDE DEF e, a, n, to
<1>11. ~ (to < n)
  BY <1>1, <1>2, <1>5, <1>6, <1>7, <1>8
<1>12. ~ (n < to)
  BY <1>1, <1>2, <1>5, <1>6, <1>7, <1>9, <1>10
<1>13. to = n
  BY <1>2, <1>6, <1>11, <1>12
<1> QED  BY <1>13 DEF to, n, EndsAt

\* Cut at all its units, and nowhere else.
LEMMA UnitsRecovered ==
  ASSUME NEW us, NEW model, NEW from, UnitsAt(us, model, from),
         (\A i \in DOMAIN us : us[i].delimiter) \/ Unmarked(us),
         \A i \in DOMAIN us : ValidateTemporalUnit(us[i].frames),
         NEW ranges \in Seq(Nat \X Nat), CutIntoUnits(model, ranges)
  PROVE  /\ Len(ranges) = Len(us)
         /\ \A i \in DOMAIN us : ranges[i][2] - ranges[i][1] = UnitSize(us[i])
<1> DEFINE N   == Len(us)
           L   == Len(ranges)
           end == Len(model) + 1
           lo  == RangeFroms(ranges)
           hi  == RangeTos(ranges)
           b   == UnitFroms(us, from)
           c   == UnitTos(us, from)
<1>1. /\ DOMAIN us = 1..N /\ end \in Nat
      /\ \A i \in 1..N : UnitTyped(us[i]) /\ from[i + 1] = from[i] + UnitSize(us[i])
  BY DEF UnitsAt
<1>2. \A i \in 1..N : UnitSize(us[i]) # 0
  <2>1. CASE Unmarked(us)
    BY <1>1, <2>1, UnmarkedSizes
  <2>2. CASE \A i \in DOMAIN us : us[i].delimiter
    <3> TAKE i \in 1..N
    <3> DEFINE nb == Len(us[i].blocks)
               nf == Len(us[i].frames)
    <3>1. nb \in Nat /\ nf \in Nat /\ UnitSize(us[i]) = (1 + nb) + nf
      BY <1>1, <2>2 DEF UnitTyped, UnitSize, Blocked, Lead
    <3> HIDE DEF nb, nf
    <3> QED  BY <3>1
  <2> QED  BY <2>1, <2>2
<1>3. Chain(N, b, c, end) /\ Chain(L, lo, hi, end) /\ DOMAIN ranges = 1..L
  BY <1>2, UnitsChained, RangesChained
<1>4. /\ \A i \in 1..N : b[i] = from[i] /\ c[i] = from[i + 1]
      /\ \A r \in 1..L : lo[r] = ranges[r][1] /\ hi[r] = ranges[r][2]
  BY DEF UnitFroms, UnitTos, RangeFroms, RangeTos
<1>5. L > 0 <=> N > 0
  BY <1>2, FirstBegins
<1>6. L > 0 => lo[1] = b[1]
  <2>1. L > 0 => ranges[1][1] = from[1]
    BY <1>2, FirstBegins
  <2>2. L > 0 => 1 \in 1..L /\ 1 \in 1..N
    <3>1. L \in Nat /\ N \in Nat
      BY <1>3 DEF Chain
    <3> HIDE DEF L, N
    <3> QED  BY <1>5, <3>1
  <2> QED  BY <1>4, <2>1, <2>2
<1>7. ASSUME NEW k \in 1..N, k \in 1..L, lo[k] = b[k]
      PROVE  hi[k] = c[k]
  <2>1. k \in DOMAIN ranges /\ ranges[k][1] = from[k]
    BY <1>3, <1>4, <1>7
  <2>2. EndsAt(ranges, k, from[k + 1])
    <3>1. CASE \A i \in DOMAIN us : us[i].delimiter
      BY <2>1, <3>1, MarkedEnds
    <3>2. CASE Unmarked(us)
      BY <2>1, <3>2, UnmarkedEnds
    <3> QED  BY <3>1, <3>2
  <2> QED  BY <1>4, <1>7, <2>2 DEF EndsAt
<1>8. L = N /\ \A k \in 1..N : lo[k] = b[k] /\ hi[k] = c[k]
  <2> HIDE DEF N, L, end, lo, hi, b, c
  <2> QED  BY <1>1, <1>3, <1>5, <1>6, <1>7, SameChain
<1>9. ASSUME NEW i \in 1..N PROVE ranges[i][2] - ranges[i][1] = UnitSize(us[i])
  <2>1. ranges[i][1] = from[i] /\ ranges[i][2] = from[i + 1]
    BY <1>4, <1>8
  <2>2. from[i] \in Nat /\ UnitSize(us[i]) \in Nat
    <3>1. b[i] \in Nat
      BY <1>3 DEF Chain
    <3> QED  BY <1>1, <1>4, <3>1 DEF UnitTyped
  <2>3. \A x, z \in Nat : (x + z) - x = z
    OBVIOUS
  <2> QED  BY <1>1, <2>1, <2>2, <2>3
<1> QED  BY <1>1, <1>8, <1>9

\* temporal_unit_ranges of a file that finish handed back finds the units that
\* were pushed: one range for each, of its length, if they can be told apart.
THEOREM UnitsReturn == RoundTripSpec => []UnitsFoundAgain
<1>1. RTInv => UnitsFoundAgain
  <2> DEFINE ranges == TemporalUnitRanges(yielded)
  <2> SUFFICES ASSUME RTInv, delivered, answer = "end", Delimitable
               PROVE  /\ Len(ranges) = Len(units)
                      /\ \A i \in DOMAIN units :
                           ranges[i][2] - ranges[i][1] = Len(Items(units[i]))
    BY DEF UnitsFoundAgain
  <2>1. yielded = Model /\ units \in Seq(Units) /\ Given
    BY DeliveredIsModel DEF RTInv, Given
  <2>2. PICK S : Model \in Seq(S)
    BY <2>1, ModelReadable
  <2>3. CutIntoUnits(Model, ranges) /\ ranges \in Seq(Nat \X Nat)
    BY <2>1, <2>2, UnitsCut
  <2>4. (\A i \in DOMAIN units : units[i].delimiter) \/ Unmarked(units)
    BY DEF Delimitable, Unmarked
  <2>5. \A i \in DOMAIN units : ValidateTemporalUnit(units[i].frames)
    <3>1. set = <<>> => DOMAIN units = {}
      BY DEF RTInv, Given
    <3>2. set # <<>> => \A i \in DOMAIN units : Acceptable(definitions, units[i])
      BY DEF RTInv, Given
    <3> QED  BY <3>1, <3>2 DEF Acceptable
  <2>6. \E from : UnitsAt(units, Model, from)
    <3>1. CASE set = <<>>
      <4> DEFINE from == [i \in 1..1 |-> 1]
      <4>1. /\ units = <<>> /\ Model = <<>> /\ Len(<<>>) = 0 /\ DOMAIN <<>> = 1..0
            /\ 1..0 = {} /\ 1..(1 - 1) = {} /\ from \in [1..(0 + 1) -> Nat]
            /\ from[1] = 1 /\ from[0 + 1] = 0 + 1
        BY <2>1, <3>1 DEF Given, Model
      <4> HIDE DEF from
      <4>2. UnitsAt(units, Model, from)
        BY <4>1 DEF UnitsAt
      <4> QED  BY <4>2
    <3>2. CASE set # <<>>
      <4>1. Accepts(set[1], units) /\ Model = FromParts(set[1], units)
        BY <2>1, <3>2 DEF Given, Accepts, Model
      <4> QED  BY <4>1, ModelLaidOut
    <3> QED  BY <3>1, <3>2
  <2>7. PICK from : UnitsAt(units, Model, from)
    BY <2>6
  <2> HIDE DEF ranges
  <2>8. /\ Len(ranges) = Len(units)
        /\ \A i \in DOMAIN units : ranges[i][2] - ranges[i][1] = UnitSize(units[i])
    BY <2>3, <2>4, <2>5, <2>7, UnitsRecovered
  <2>9. \A i \in DOMAIN units : Len(Items(units[i])) = UnitSize(units[i])
    BY <2>1, SeqMember, ItemsPlaced
  <2> QED  BY <2>8, <2>9
<1> QED  BY <1>1, InitRTInv, NextRTInv, PTL DEF RoundTripSpec
=============================================================================
