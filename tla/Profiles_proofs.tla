--------------------------- MODULE Profiles_proofs ---------------------------
(***************************************************************************)
(* The selected profile draws no finding, for all limits, elements and     *)
(* presentations.                                                          *)
(***************************************************************************)
EXTENDS Profiles, SequenceLemmas

Levels == 0..5

\* Every floor is a profile or an error.
LEMMA FloorLevels ==
  ASSUME NEW owners, NEW presentation
  PROVE  /\ SequenceFloor(owners) \in Levels
         /\ PresentationMinimumProfile(presentation, owners) \in Levels
<1>1. \A any : SequenceCountFloor(any) \in Levels
  BY DEF SequenceCountFloor, Levels, Simple, Base, BaseEnhanced
<1>2. SequenceFloor(owners) \in Levels
  BY <1>1 DEF SequenceFloor, Levels, Ceiling, Unfixed
<1>3. \A any : PresentationFloor(any) \in Levels
  BY DEF PresentationFloor, Levels, Simple, Base, BaseEnhanced, Ceiling, Unfixed
<1>4. PresentationMinimumProfile(presentation, owners) \in Levels
  BY <1>3 DEF PresentationMinimumProfile, Levels, Invalid
<1> QED  BY <1>2, <1>4

\* The greatest of some levels.
LEMMA MaxOfLevels ==
  ASSUME NEW levels \in SUBSET Levels, levels # {}
  PROVE  Max(levels) \in levels /\ \A level \in levels : level <= Max(levels)
<1>1. \E greatest \in levels : \A level \in levels : greatest >= level
  <2>1. \A level \in levels : level \in Nat /\ level \in {0, 1, 2, 3, 4, 5}
    BY DEF Levels
  <2>2. CASE 5 \in levels
    BY <2>1, <2>2
  <2>3. CASE 5 \notin levels /\ 4 \in levels
    BY <2>1, <2>3
  <2>4. CASE 5 \notin levels /\ 4 \notin levels /\ 3 \in levels
    BY <2>1, <2>4
  <2>5. CASE 5 \notin levels /\ 4 \notin levels /\ 3 \notin levels /\ 2 \in levels
    BY <2>1, <2>5
  <2>6. CASE levels \subseteq {0, 1}
    <3>1. CASE 1 \in levels
      BY <2>6, <3>1
    <3>2. CASE 1 \notin levels
      <4>1. \A level \in levels : level = 0
        BY <2>6, <3>2
      <4>2. 0 \in levels
        BY <4>1
      <4> QED  BY <4>1, <4>2
    <3> QED  BY <3>1, <3>2
  <2>7. 5 \in levels \/ 4 \in levels \/ 3 \in levels \/ 2 \in levels \/ levels \subseteq {0, 1}
    BY <2>1
  <2> QED  BY <2>2, <2>3, <2>4, <2>5, <2>6, <2>7
<1>2. /\ Max(levels) \in levels
      /\ \A level \in levels : Max(levels) >= level
  BY <1>1 DEF Max
<1> QED  BY <1>2 DEF Levels

LEMMA PresentationsListed == ProfileSpec => [](presentations \in Seq(Presentations))
<1>1. ProfileInit => presentations \in Seq(Presentations)
  BY DEF ProfileInit
<1>2. presentations \in Seq(Presentations) /\ [ProfileNext]_profileVars
        => (presentations \in Seq(Presentations))'
  BY DEF ProfileNext, AddElement, AddPresentation, Complete, profileVars
<1> QED  BY <1>1, <1>2, PTL DEF ProfileSpec

\* What the writer selects the validator accepts: under any limits, a header
\* with the selected profile has neither a compliance finding nor one about
\* the limits of the sequence.
THEOREM WriterAgreesWithValidator == ProfileSpec => []SelectedValidates
<1>1. presentations \in Seq(Presentations) => SelectedValidates
  <2> SUFFICES ASSUME presentations \in Seq(Presentations),
                      Selected \in Named, presentations # <<>>
               PROVE  /\ ComplianceFindings(Selected, Selected, elements, presentations) = {}
                      /\ SequenceLimitFindings(Selected, elements) = {}
    BY DEF SelectedValidates
  <2> DEFINE needs == {PresentationMinimumProfile(presentations[i], elements) :
                         i \in DOMAIN presentations}
             all   == {SequenceFloor(elements)} \cup needs
  <2>1. all \in SUBSET Levels /\ all # {}
    BY FloorLevels
  <2>2. \A level \in all : level <= Max(all)
    BY <2>1, MaxOfLevels
  <2>3. Selected = Max(all)
    BY DEF Selected, SelectSequenceProfile
  <2>4. SequenceFloor(elements) <= Selected
    BY <2>2, <2>3
  <2>5. CompliesWith(Selected, elements, presentations)
    <3>1. 1 \in DOMAIN presentations
      OBVIOUS
    <3>2. PresentationMinimumProfile(presentations[1], elements) \in all
      BY <3>1
    <3> HIDE DEF all
    <3> QED  BY <2>2, <2>3, <3>1, <3>2 DEF CompliesWith
  <2>6. ComplianceFindings(Selected, Selected, elements, presentations) = {}
    BY <2>5 DEF ComplianceFindings
  <2>7. SequenceLimitFindings(Selected, elements) = {}
    <3>1. SequenceFloor(elements) # Unfixed
      BY <2>4, FloorLevels DEF Named, Simple, Base, BaseEnhanced, Unfixed, Levels
    <3>2. Selected \in Nat /\ SequenceFloor(elements) \in Nat
      BY FloorLevels DEF Named, Simple, Base, BaseEnhanced, Levels
    <3>3. ~(SequenceFloor(elements) > Selected)
      BY <2>4, <3>2
    <3> QED  BY <3>1, <3>3 DEF SequenceLimitFindings
  <2> QED  BY <2>6, <2>7
<1> QED  BY <1>1, PresentationsListed, PTL

----------------------------------------------------------------------------
(* Elements and carriers                                                   *)

ElementType == [id : Nat, fixed : BOOLEAN, channels : Nat,
                scene : BOOLEAN, layered : BOOLEAN, expanded : BOOLEAN]

PresentationType == [refs : Seq(Nat), sound : BOOLEAN]

Owners == Seq(ElementType)

\* What the sequence of descriptors holds.
Listed == elements \in Owners /\ presentations \in Seq(PresentationType)

LEMMA DescriptorsListed == ProfileSpec => []Listed
<1>1. ProfileInit => Listed
  BY DEF ProfileInit, Listed, Owners
<1>2. Listed /\ [ProfileNext]_profileVars => Listed'
  <2> SUFFICES ASSUME Listed, [ProfileNext]_profileVars PROVE Listed'
    OBVIOUS
  <2>1. ASSUME NEW element \in Elements, AddElement(element) PROVE Listed'
    <3>1. element \in ElementType
      BY ElementsAssumption DEF ElementType
    <3> QED  BY <2>1, <3>1 DEF AddElement, Listed, Owners
  <2>2. ASSUME NEW presentation \in Presentations, AddPresentation(presentation) PROVE Listed'
    <3>1. presentation \in PresentationType
      BY PresentationsAssumption DEF PresentationType
    <3> QED  BY <2>2, <3>1 DEF AddPresentation, Listed
  <2>3. CASE Complete \/ UNCHANGED profileVars
    BY <2>3 DEF Complete, profileVars, Listed
  <2> QED  BY <2>1, <2>2, <2>3 DEF ProfileNext
<1> QED  BY <1>1, <1>2, PTL DEF ProfileSpec

\* The position of the first element with an id, if it has one.
FirstCarrier(owners, id, c) ==
  \/ /\ c \in DOMAIN owners /\ c # 0 /\ owners[c].id = id
     /\ \A j \in DOMAIN owners : owners[j].id = id => c <= j
  \/ c = 0 /\ \A j \in DOMAIN owners : owners[j].id # id

LEMMA CarrierIsFirst ==
  ASSUME NEW owners \in Owners, NEW id
  PROVE  FirstCarrier(owners, id, Carrier(owners, id))
<1> DEFINE carriers == {i \in 1..Len(owners) : owners[i].id = id}
<1>1. Len(owners) \in Nat /\ DOMAIN owners = 1..Len(owners)
  BY DEF Owners
<1>2. carriers \in SUBSET Nat
  BY <1>1
<1>3. Carrier(owners, id) = IF carriers # {} THEN Min(carriers) ELSE 0
  BY DEF Carrier, SelectInSeq
<1>4. CASE carriers # {}
  <2>1. \E c \in carriers : \A j \in carriers : c <= j
    <3> HIDE DEF carriers
    <3> QED  BY <1>2, <1>4, LeastMember
  <2>2. Min(carriers) \in carriers /\ \A j \in carriers : Min(carriers) <= j
    <3> HIDE DEF carriers
    <3> QED  BY <2>1 DEF Min
  <2>3. Carrier(owners, id) \in carriers /\ \A j \in carriers : Carrier(owners, id) <= j
    BY <1>3, <1>4, <2>2
  <2> QED  BY <1>1, <2>3 DEF FirstCarrier
<1>5. CASE carriers = {}
  BY <1>1, <1>3, <1>5 DEF FirstCarrier
<1> QED  BY <1>4, <1>5

LEMMA OneFirstCarrier ==
  ASSUME NEW owners \in Owners, NEW id, NEW c, NEW d,
         FirstCarrier(owners, id, c), FirstCarrier(owners, id, d)
  PROVE  c = d
<1>1. \A j \in DOMAIN owners : j \in Nat
  BY DEF Owners
<1> QED  BY <1>1 DEF FirstCarrier

\* An element at the end takes no id away from its carrier.
LEMMA CarrierOfAppended ==
  ASSUME NEW owners \in Owners, NEW element \in ElementType, NEW id
  PROVE  /\ Carrier(owners, id) # 0 \/ id # element.id
              => Carrier(Append(owners, element), id) = Carrier(owners, id)
         /\ Carrier(owners, id) # 0
              => Append(owners, element)[Carrier(owners, id)] = owners[Carrier(owners, id)]
<1> DEFINE more == Append(owners, element)
           c    == Carrier(owners, id)
<1>1. /\ more \in Owners /\ Len(owners) \in Nat
      /\ DOMAIN owners = 1..Len(owners) /\ DOMAIN more = 1..(Len(owners) + 1)
      /\ \A i \in 1..Len(owners) : owners[i] = more[i]
      /\ more[Len(owners) + 1] = element
  BY DEF Owners
<1>2. FirstCarrier(owners, id, c)
  BY CarrierIsFirst
<1>3. FirstCarrier(more, id, Carrier(more, id))
  BY <1>1, CarrierIsFirst
<1> HIDE DEF more, c
<1>4. c # 0 => more[c] = owners[c]
  BY <1>1, <1>2 DEF FirstCarrier
<1>5. ASSUME c # 0 \/ id # element.id PROVE Carrier(more, id) = c
  <2>1. \A j \in DOMAIN more : j \in DOMAIN owners \/ j = Len(owners) + 1
    BY <1>1
  <2>2. FirstCarrier(more, id, c)
    <3>1. CASE c = 0
      BY <1>1, <1>2, <1>5, <2>1, <3>1 DEF FirstCarrier
    <3>2. CASE c # 0
      <4>1. c \in 1..Len(owners) /\ more[c].id = id
        BY <1>1, <1>2, <3>2 DEF FirstCarrier
      <4>2. \A j \in DOMAIN more : more[j].id = id => c <= j
        BY <1>1, <1>2, <2>1, <3>2, <4>1 DEF FirstCarrier
      <4> QED  BY <1>1, <4>1, <4>2 DEF FirstCarrier
    <3> QED  BY <3>1, <3>2
  <2> QED  BY <1>1, <1>3, <2>2, OneFirstCarrier
<1> QED  BY <1>4, <1>5 DEF more, c

----------------------------------------------------------------------------
(* Unique elements                                                         *)

UniqueTable(owners, m, f) ==
  f = [n \in 0..m |-> IF n = 0 THEN <<>> ELSE PushUnlessSeen(f[n - 1], owners[n])]

LEMMA UniqueTableExists ==
  ASSUME NEW owners, NEW m \in Nat
  PROVE  \E f : UniqueTable(owners, m, f)
<1> DEFINE S == {k \in Nat : \E f : UniqueTable(owners, k, f)}
<1>1. 0 \in S
  <2> DEFINE f == [n \in 0..0 |-> <<>>]
  <2>1. UniqueTable(owners, 0, f)
    BY DEF UniqueTable
  <2> QED  BY <2>1
<1>2. ASSUME NEW k \in Nat, k \in S PROVE k + 1 \in S
  <2>1. PICK f : UniqueTable(owners, k, f)
    BY <1>2
  <2> DEFINE g == [n \in 0..(k + 1) |-> IF n = 0 THEN <<>> ELSE PushUnlessSeen(f[n - 1], owners[n])]
  <2>2. \A n \in 0..k : f[n] = IF n = 0 THEN <<>> ELSE PushUnlessSeen(f[n - 1], owners[n])
    BY <2>1 DEF UniqueTable
  <2>3. \A n \in 0..k : g[n] = f[n]
    BY <2>2
  <2>4. \A n \in 0..(k + 1) :
            (IF n = 0 THEN <<>> ELSE PushUnlessSeen(g[n - 1], owners[n]))
          = (IF n = 0 THEN <<>> ELSE PushUnlessSeen(f[n - 1], owners[n]))
    <3> HIDE DEF g
    <3>1. \A n \in 0..(k + 1) : n # 0 => n - 1 \in 0..k
      OBVIOUS
    <3> QED  BY <2>3, <3>1
  <2>5. g = [n \in 0..(k + 1) |-> IF n = 0 THEN <<>> ELSE PushUnlessSeen(g[n - 1], owners[n])]
    BY <2>4
  <2>6. UniqueTable(owners, k + 1, g)
    BY <2>5 DEF UniqueTable
  <2> QED  BY <2>6
<1> HIDE DEF S
<1>3. Nat \subseteq S
  BY <1>1, <1>2, NaturalSteps
<1> QED  BY <1>3 DEF S

LEMMA UniqueOfTable ==
  ASSUME NEW owners \in Owners
  PROVE  \E f : UniqueTable(owners, Len(owners), f) /\ UniqueById(owners) = f[Len(owners)]
<1> DEFINE f == CHOOSE f : UniqueTable(owners, Len(owners), f)
<1>1. Len(owners) \in Nat
  BY DEF Owners
<1>2. UniqueTable(owners, Len(owners), f)
  BY <1>1, UniqueTableExists
<1>3. UniqueById(owners) = f[Len(owners)]
  BY DEF UniqueById, UniqueTable
<1> HIDE DEF f
<1> QED  BY <1>2, <1>3

\* Two tables agree as far as their lists do.
LEMMA UniqueTablesAgree ==
  ASSUME NEW s, NEW t, NEW m \in Nat, NEW k \in Nat, m <= k, SameUpTo(m, s, t),
         NEW f, UniqueTable(s, m, f), NEW g, UniqueTable(t, k, g)
  PROVE  f[m] = g[m]
<1> DEFINE S == {n \in Nat : n \in 0..m => f[n] = g[n]}
<1>1. \A n \in 0..m : /\ f[n] = IF n = 0 THEN <<>> ELSE PushUnlessSeen(f[n - 1], s[n])
                      /\ g[n] = IF n = 0 THEN <<>> ELSE PushUnlessSeen(g[n - 1], t[n])
  <2> SUFFICES ASSUME NEW n \in 0..m
               PROVE  /\ f[n] = IF n = 0 THEN <<>> ELSE PushUnlessSeen(f[n - 1], s[n])
                      /\ g[n] = IF n = 0 THEN <<>> ELSE PushUnlessSeen(g[n - 1], t[n])
    OBVIOUS
  <2>1. n \in 0..k
    OBVIOUS
  <2> QED  BY <2>1 DEF UniqueTable
<1>2. 0 \in S
  BY <1>1
<1>3. ASSUME NEW n \in Nat, n \in S PROVE n + 1 \in S
  <2> SUFFICES ASSUME n + 1 \in 0..m PROVE f[n + 1] = g[n + 1]
    OBVIOUS
  <2>1. n \in 0..m /\ n + 1 \in 1..m /\ n + 1 # 0 /\ (n + 1) - 1 = n
    OBVIOUS
  <2>2. f[n] = g[n] /\ s[n + 1] = t[n + 1]
    BY <1>3, <2>1 DEF SameUpTo
  <2> QED  BY <1>1, <2>1, <2>2
<1> HIDE DEF S
<1>4. Nat \subseteq S
  BY <1>2, <1>3, NaturalSteps
<1> QED  BY <1>4 DEF S

\* One more element is pushed onto the unique ones unless its id is there.
LEMMA UniqueOfAppended ==
  ASSUME NEW owners \in Owners, NEW element \in ElementType
  PROVE  UniqueById(Append(owners, element)) = PushUnlessSeen(UniqueById(owners), element)
<1> DEFINE more == Append(owners, element)
           m    == Len(owners)
<1>1. /\ more \in Owners /\ m \in Nat /\ Len(more) = m + 1
      /\ \A i \in 1..m : owners[i] = more[i]
      /\ more[m + 1] = element
  BY DEF Owners
<1>2. PICK f : UniqueTable(owners, m, f) /\ UniqueById(owners) = f[m]
  BY UniqueOfTable
<1>3. PICK g : UniqueTable(more, m + 1, g) /\ UniqueById(more) = g[m + 1]
  BY <1>1, UniqueOfTable
<1> HIDE DEF more, m
<1>4. f[m] = g[m]
  <2>1. m \in Nat /\ m + 1 \in Nat /\ m <= m + 1
    BY <1>1
  <2>2. SameUpTo(m, owners, more)
    BY <1>1 DEF SameUpTo
  <2> QED  BY <1>2, <1>3, <2>1, <2>2, UniqueTablesAgree
<1>5. g[m + 1] = PushUnlessSeen(g[m], element)
  <2>1. m + 1 \in 0..(m + 1) /\ m + 1 # 0 /\ (m + 1) - 1 = m
    BY <1>1
  <2>2. g[m + 1] = IF m + 1 = 0 THEN <<>> ELSE PushUnlessSeen(g[(m + 1) - 1], more[m + 1])
    BY <1>3, <2>1 DEF UniqueTable
  <2> QED  BY <1>1, <2>1, <2>2
<1> QED  BY <1>2, <1>3, <1>4, <1>5 DEF more

\* The unique elements of an empty list.
LEMMA UniqueOfNone == UniqueById(<<>>) = <<>>
<1>1. <<>> \in Owners /\ Len(<<>>) = 0
  BY DEF Owners
<1>2. PICK f : UniqueTable(<<>>, 0, f) /\ UniqueById(<<>>) = f[0]
  BY <1>1, UniqueOfTable
<1> QED  BY <1>2 DEF UniqueTable

\* The position is the first with its id.
FirstAt(owners, i) == \A j \in 1..(i - 1) : owners[j].id # owners[i].id

\* The positions of the unique elements: every first one, once.
FirstsListed(owners, unique, pos) ==
  /\ unique \in Owners
  /\ pos \in Seq(Nat) /\ Len(pos) = Len(unique) /\ Distinct(pos)
  /\ \A k \in DOMAIN pos :
       pos[k] \in DOMAIN owners /\ FirstAt(owners, pos[k]) /\ unique[k] = owners[pos[k]]
  /\ \A i \in DOMAIN owners : FirstAt(owners, i) => \E k \in DOMAIN pos : pos[k] = i

LEMMA FirstsListedAppend ==
  ASSUME NEW owners \in Owners, NEW element \in ElementType, NEW unique, NEW pos,
         FirstsListed(owners, unique, pos)
  PROVE  \E more : FirstsListed(Append(owners, element), PushUnlessSeen(unique, element), more)
<1> DEFINE all == Append(owners, element)
           m   == Len(owners)
<1>1. /\ all \in Owners /\ m \in Nat /\ DOMAIN owners = 1..m /\ DOMAIN all = 1..(m + 1)
      /\ \A i \in 1..m : owners[i] = all[i]
      /\ all[m + 1] = element
  BY DEF Owners
<1>2. /\ unique \in Owners
      /\ pos \in Seq(Nat) /\ Len(pos) = Len(unique) /\ Distinct(pos)
      /\ DOMAIN pos = 1..Len(pos) /\ Len(pos) \in Nat /\ DOMAIN unique = 1..Len(pos)
      /\ \A k \in DOMAIN pos : pos[k] \in 1..m /\ FirstAt(owners, pos[k])
                               /\ unique[k] = owners[pos[k]]
      /\ \A i \in 1..m : FirstAt(owners, i) => \E k \in DOMAIN pos : pos[k] = i
  BY <1>1 DEF FirstsListed, Owners
<1> HIDE DEF all, m
<1>3. \A i \in 1..m : FirstAt(owners, i) <=> FirstAt(all, i)
  <2> SUFFICES ASSUME NEW i \in 1..m PROVE FirstAt(owners, i) <=> FirstAt(all, i)
    OBVIOUS
  <2>1. \A j \in 1..(i - 1) : j \in 1..m
    BY <1>1
  <2> QED  BY <1>1, <2>1 DEF FirstAt
<1>4. FirstAt(all, m + 1) <=> \A k \in DOMAIN unique : unique[k].id # element.id
  <2>1. FirstAt(all, m + 1) <=> \A j \in 1..m : owners[j].id # element.id
    BY <1>1 DEF FirstAt
  <2>2. ASSUME NEW j \in 1..m, owners[j].id = element.id
        PROVE  \E k \in DOMAIN unique : unique[k].id = element.id
    <3> DEFINE c == Carrier(owners, element.id)
    <3>1. FirstCarrier(owners, element.id, c)
      BY CarrierIsFirst
    <3> HIDE DEF c
    <3>2. c \in 1..m /\ owners[c].id = element.id /\ \A i \in 1..m : owners[i].id = element.id => c <= i
      BY <1>1, <2>2, <3>1 DEF FirstCarrier
    <3>3. FirstAt(owners, c)
      BY <1>1, <3>2 DEF FirstAt
    <3>4. PICK k \in DOMAIN pos : pos[k] = c
      BY <1>2, <3>2, <3>3
    <3> QED  BY <1>2, <3>2, <3>4
  <2>3. ASSUME NEW k \in DOMAIN unique, unique[k].id = element.id
        PROVE  \E j \in 1..m : owners[j].id = element.id
    BY <1>2, <2>3
  <2> QED  BY <2>1, <2>2, <2>3
<1>5. CASE ~FirstAt(all, m + 1)
  <2>1. PushUnlessSeen(unique, element) = unique
    BY <1>4, <1>5 DEF PushUnlessSeen
  <2>2. \A i \in 1..(m + 1) : i \in 1..m \/ i = m + 1
    BY <1>1
  <2>3. \A i \in 1..m : i \in 1..(m + 1)
    BY <1>1
  <2>4. FirstsListed(all, unique, pos)
    BY <1>1, <1>2, <1>3, <1>5, <2>2, <2>3 DEF FirstsListed
  <2> QED  BY <2>1, <2>4 DEF all
<1>6. CASE FirstAt(all, m + 1)
  <2> DEFINE n     == Len(pos)
             added == Append(unique, element)
             more  == Append(pos, m + 1)
  <2>1. PushUnlessSeen(unique, element) = added
    BY <1>4, <1>6 DEF PushUnlessSeen
  <2>2. /\ added \in Owners /\ Len(added) = n + 1 /\ added[n + 1] = element
        /\ \A k \in 1..n : added[k] = unique[k]
    BY <1>2 DEF Owners
  <2>3. /\ more \in Seq(Nat) /\ Len(more) = n + 1 /\ more[n + 1] = m + 1
        /\ DOMAIN more = 1..(n + 1) /\ n \in Nat
        /\ \A k \in 1..n : more[k] = pos[k]
    BY <1>1, <1>2
  <2>4. DOMAIN pos = 1..n
    BY <1>2
  <2> HIDE DEF n, added, more
  <2>5. \A k \in DOMAIN more : k \in 1..n \/ k = n + 1
    BY <2>3
  <2>6. Distinct(more)
    <3> SUFFICES ASSUME NEW k \in DOMAIN more, NEW l \in DOMAIN more, more[k] = more[l]
                 PROVE  k = l
      BY DEF Distinct
    <3>1. \A h \in 1..n : more[h] # m + 1
      <4> SUFFICES ASSUME NEW h \in 1..n PROVE more[h] # m + 1
        OBVIOUS
      <4>1. pos[h] \in 1..m /\ more[h] = pos[h]
        BY <1>2, <2>3, <2>4
      <4> QED  BY <1>1, <4>1
    <3>2. CASE k \in 1..n /\ l \in 1..n
      BY <1>2, <2>3, <2>4, <3>2 DEF Distinct
    <3> QED  BY <2>3, <2>5, <3>1, <3>2
  <2>7. \A k \in DOMAIN more : more[k] \in 1..(m + 1) /\ FirstAt(all, more[k])
                               /\ added[k] = all[more[k]]
    <3> SUFFICES ASSUME NEW k \in DOMAIN more
                 PROVE  more[k] \in 1..(m + 1) /\ FirstAt(all, more[k]) /\ added[k] = all[more[k]]
      OBVIOUS
    <3>1. CASE k \in 1..n
      <4>1. pos[k] \in 1..m /\ FirstAt(owners, pos[k]) /\ unique[k] = owners[pos[k]]
        BY <1>2, <2>4, <3>1
      <4>2. pos[k] \in 1..(m + 1) /\ FirstAt(all, pos[k]) /\ owners[pos[k]] = all[pos[k]]
        BY <1>1, <1>3, <4>1
      <4> QED  BY <2>2, <2>3, <3>1, <4>1, <4>2
    <3>2. CASE k = n + 1
      BY <1>1, <1>6, <2>2, <2>3, <3>2
    <3> QED  BY <2>5, <3>1, <3>2
  <2>8. ASSUME NEW i \in 1..(m + 1), FirstAt(all, i)
        PROVE  \E k \in DOMAIN more : more[k] = i
    <3>1. CASE i = m + 1
      <4>1. n + 1 \in DOMAIN more
        BY <2>3
      <4> QED  BY <2>3, <3>1, <4>1
    <3>2. CASE i # m + 1
      <4>1. i \in 1..m
        BY <1>1, <3>2
      <4>2. PICK k \in DOMAIN pos : pos[k] = i
        BY <1>2, <1>3, <2>8, <4>1
      <4>3. k \in 1..n /\ k \in DOMAIN more
        BY <2>3, <2>4
      <4> QED  BY <2>3, <4>2, <4>3
    <3> QED  BY <3>1, <3>2
  <2>9. FirstsListed(all, added, more)
    BY <1>1, <2>2, <2>3, <2>6, <2>7, <2>8 DEF FirstsListed
  <2> QED  BY <2>1, <2>9 DEF all
<1> QED  BY <1>5, <1>6

HasFirsts(owners) == \E pos : FirstsListed(owners, UniqueById(owners), pos)

\* The unique elements are those at the first position of each id.
LEMMA UniqueAreFirsts == \A owners \in Owners : HasFirsts(owners)
<1> DEFINE S == {n \in Nat : \A owners \in Owners : Len(owners) = n => HasFirsts(owners)}
<1>1. 0 \in S
  <2> SUFFICES ASSUME NEW owners \in Owners, Len(owners) = 0 PROVE HasFirsts(owners)
    OBVIOUS
  <2>1. owners = <<>>
    BY DEF Owners
  <2>2. UniqueById(owners) = <<>>
    BY <2>1, UniqueOfNone
  <2>3. FirstsListed(owners, <<>>, <<>>)
    BY <2>1 DEF FirstsListed, Owners, Distinct
  <2> QED  BY <2>2, <2>3 DEF HasFirsts
<1>2. ASSUME NEW n \in Nat, n \in S PROVE n + 1 \in S
  <2> SUFFICES ASSUME NEW owners \in Owners, Len(owners) = n + 1 PROVE HasFirsts(owners)
    OBVIOUS
  <2>1. PICK earlier \in Owners, element \in ElementType :
          Len(earlier) = n /\ owners = Append(earlier, element)
    <3>1. EndsInMember(ElementType, n, owners)
      BY LastAppended DEF Owners
    <3> QED  BY <3>1 DEF EndsInMember, Owners
  <2>2. PICK pos : FirstsListed(earlier, UniqueById(earlier), pos)
    BY <1>2, <2>1 DEF HasFirsts
  <2>3. PICK more : FirstsListed(owners, PushUnlessSeen(UniqueById(earlier), element), more)
    BY <2>1, <2>2, FirstsListedAppend
  <2> QED  BY <2>1, <2>3, UniqueOfAppended DEF HasFirsts
<1> HIDE DEF S
<1>3. Nat \subseteq S
  BY <1>1, <1>2, NaturalSteps
<1> QED
  <2> SUFFICES ASSUME NEW owners \in Owners PROVE HasFirsts(owners)
    OBVIOUS
  <2>1. Len(owners) \in Nat
    BY DEF Owners
  <2> QED  BY <1>3, <2>1 DEF S

----------------------------------------------------------------------------
(* Growth                                                                  *)

LEMMA FrontOfAppended ==
  ASSUME NEW S, NEW s \in Seq(S), NEW x \in S
  PROVE  Front(Append(s, x)) = s /\ Last(Append(s, x)) = x
<1> DEFINE t == Append(s, x)
<1>1. /\ t \in Seq(S) /\ Len(s) \in Nat /\ Len(t) = Len(s) + 1 /\ t[Len(s) + 1] = x
      /\ \A i \in 1..Len(s) : s[i] = t[i]
  BY AppendMembers
<1> HIDE DEF t
<1>2. Front(t) \in Seq(S) /\ Len(Front(t)) = Len(s) /\ \A i \in 1..Len(s) : Front(t)[i] = t[i]
  BY <1>1 DEF Front
<1>3. Front(t) = s
  BY <1>1, <1>2, SeqEqual
<1> QED  BY <1>1, <1>3 DEF Last, t

\* An element is among the unique ones if its id has a carrier.
LEMMA SeenIsCarried ==
  ASSUME NEW owners \in Owners, NEW id
  PROVE  (\E k \in DOMAIN UniqueById(owners) : UniqueById(owners)[k].id = id)
           <=> Carrier(owners, id) # 0
<1> DEFINE unique == UniqueById(owners)
           c      == Carrier(owners, id)
<1>1. PICK pos : FirstsListed(owners, unique, pos)
  BY UniqueAreFirsts DEF HasFirsts
<1>2. FirstCarrier(owners, id, c)
  BY CarrierIsFirst
<1>3. DOMAIN unique = DOMAIN pos
  BY <1>1 DEF FirstsListed, Owners
<1> HIDE DEF unique, c
<1>4. ASSUME NEW k \in DOMAIN unique, unique[k].id = id PROVE c # 0
  BY <1>1, <1>2, <1>3, <1>4 DEF FirstsListed, FirstCarrier
<1>5. ASSUME c # 0 PROVE \E k \in DOMAIN unique : unique[k].id = id
  <2>1. c \in DOMAIN owners /\ owners[c].id = id
        /\ \A j \in DOMAIN owners : owners[j].id = id => c <= j
    BY <1>2, <1>5 DEF FirstCarrier
  <2>2. FirstAt(owners, c)
    <3>1. DOMAIN owners = 1..Len(owners) /\ Len(owners) \in Nat
      BY DEF Owners
    <3> QED  BY <2>1, <3>1 DEF FirstAt
  <2>3. PICK k \in DOMAIN pos : pos[k] = c
    BY <1>1, <2>1, <2>2 DEF FirstsListed
  <2>4. unique[k] = owners[c]
    BY <1>1, <2>3 DEF FirstsListed
  <2> QED  BY <1>3, <2>1, <2>4
<1> QED  BY <1>4, <1>5 DEF unique, c

\* More unique elements never need less.
LEMMA CountFloorGrows ==
  ASSUME NEW unique \in Owners, NEW element \in ElementType
  PROVE  SequenceCountFloor(unique) <= SequenceCountFloor(Append(unique, element))
<1> DEFINE more == Append(unique, element)
           m    == Len(unique)
<1>1. /\ more \in Owners /\ m \in Nat /\ Len(more) = m + 1
      /\ DOMAIN unique = 1..m /\ DOMAIN more = 1..(m + 1)
      /\ \A i \in 1..m : unique[i] = more[i]
  BY DEF Owners
<1> HIDE DEF more, m
<1>2. IsExpandedFirstLayer(unique) => IsExpandedFirstLayer(more)
  <2>1. \A i \in 1..m : i \in 1..(m + 1)
    BY <1>1
  <2> QED  BY <1>1, <2>1 DEF IsExpandedFirstLayer
<1>3. BaseCombinationAllowed(more) => BaseCombinationAllowed(unique)
  <2>1. \A i \in 1..m : i \in 1..(m + 1)
    BY <1>1
  <2> QED  BY <1>1, <2>1 DEF BaseCombinationAllowed
<1>4. /\ m <= SimpleElements \/ ~(m + 1 <= SimpleElements)
      /\ m + 1 <= BaseElements => m <= BaseElements
  BY <1>1, LimitsAssumption
<1>5. m = Len(unique)
  BY DEF m
<1> QED  BY <1>1, <1>2, <1>3, <1>4, <1>5
         DEF SequenceCountFloor, Simple, Base, BaseEnhanced, more

LEMMA SequenceFloorGrows ==
  ASSUME NEW owners \in Owners, NEW element \in ElementType
  PROVE  /\ SequenceFloor(owners) \in Named
              => SequenceFloor(owners) <= SequenceFloor(Append(owners, element))
         /\ Carrier(owners, element.id) # 0
              => SequenceFloor(Append(owners, element)) = SequenceFloor(owners)
<1> DEFINE more   == Append(owners, element)
           unique == UniqueById(owners)
<1>1. UniqueById(more) = PushUnlessSeen(unique, element)
  BY UniqueOfAppended
<1>2. unique \in Owners
  BY UniqueAreFirsts DEF HasFirsts, FirstsListed
<1>3. more \in Owners
  BY DEF Owners
<1> HIDE DEF more, unique
<1>4. UniqueById(more) = unique => SequenceFloor(more) = SequenceFloor(owners)
  BY DEF SequenceFloor, unique
<1>5. Carrier(owners, element.id) # 0 => UniqueById(more) = unique
  BY <1>1, SeenIsCarried DEF PushUnlessSeen, unique
<1>6. ASSUME SequenceFloor(owners) \in Named, UniqueById(more) = Append(unique, element)
      PROVE  SequenceFloor(owners) <= SequenceFloor(more)
  <2>1. SequenceFloor(owners) = SequenceCountFloor(unique)
    BY <1>6 DEF SequenceFloor, unique, Named, Simple, Base, BaseEnhanced, Ceiling, Unfixed
  <2>2. SequenceCountFloor(unique) <= SequenceCountFloor(Append(unique, element))
    BY <1>2, CountFloorGrows
  <2>3. \/ SequenceFloor(more) = SequenceCountFloor(Append(unique, element))
        \/ SequenceFloor(more) \in {Ceiling, Unfixed}
    BY <1>6 DEF SequenceFloor
  <2> QED  BY <1>6, <2>1, <2>2, <2>3 DEF Named, Simple, Base, BaseEnhanced, Ceiling, Unfixed
<1>7. ASSUME SequenceFloor(owners) \in Named
      PROVE  SequenceFloor(owners) <= SequenceFloor(more)
  <2>1. CASE UniqueById(more) = unique
    BY <1>4, <1>7, <2>1 DEF Named, Simple, Base, BaseEnhanced
  <2>2. CASE UniqueById(more) = Append(unique, element)
    BY <1>6, <1>7, <2>2
  <2> QED  BY <1>1, <2>1, <2>2 DEF PushUnlessSeen
<1> QED  BY <1>4, <1>5, <1>7 DEF more

\* A presentation that could be judged is judged the same after another element.
LEMMA PresentationKept ==
  ASSUME NEW owners \in Owners, NEW element \in ElementType,
         NEW presentation \in PresentationType,
         \/ PresentationMinimumProfile(presentation, owners) \in Named
         \/ Carrier(owners, element.id) # 0
  PROVE  PresentationMinimumProfile(presentation, Append(owners, element))
           = PresentationMinimumProfile(presentation, owners)
<1> DEFINE more == Append(owners, element)
           refs == presentation.refs
<1>1. \A id : /\ Carrier(owners, id) # 0 \/ id # element.id => Carrier(more, id) = Carrier(owners, id)
              /\ Carrier(owners, id) # 0 => more[Carrier(owners, id)] = owners[Carrier(owners, id)]
  BY CarrierOfAppended
<1> HIDE DEF more
<1>2. CASE ~presentation.sound
  BY <1>2 DEF PresentationMinimumProfile, more
<1>3. CASE presentation.sound /\ Carried(owners, refs)
  <2>1. \A k \in DOMAIN refs : Carrier(more, refs[k]) = Carrier(owners, refs[k])
                               /\ more[Carrier(more, refs[k])] = owners[Carrier(owners, refs[k])]
    BY <1>1, <1>3 DEF Carried
  <2>2. Carried(more, refs)
    BY <1>3, <2>1 DEF Carried
  <2>3. Resolve(more, refs) = Resolve(owners, refs)
    BY <2>1 DEF Resolve
  <2> QED  BY <1>3, <2>2, <2>3 DEF PresentationMinimumProfile, more
<1>4. CASE presentation.sound /\ ~Carried(owners, refs)
  <2>1. PresentationMinimumProfile(presentation, owners) = Invalid
    BY <1>4 DEF PresentationMinimumProfile
  <2>2. Carrier(owners, element.id) # 0
    BY <2>1 DEF Invalid, Named, Simple, Base, BaseEnhanced
  <2>3. \A id : Carrier(more, id) = Carrier(owners, id)
    BY <1>1, <2>2
  <2>4. ~Carried(more, refs)
    BY <1>4, <2>3 DEF Carried
  <2> QED  BY <2>1, <2>4 DEF PresentationMinimumProfile, more
<1> QED  BY <1>2, <1>3, <1>4

\* What a list of presentations and elements needs, one by one.
Needs(owners, mixes) ==
  {SequenceFloor(owners)} \cup {PresentationMinimumProfile(mixes[i], owners) : i \in DOMAIN mixes}

LEMMA SelectedIsGreatest ==
  ASSUME NEW owners, NEW mixes
  PROVE  /\ SelectSequenceProfile(owners, mixes) \in Needs(owners, mixes)
         /\ Needs(owners, mixes) \subseteq Levels
         /\ \A need \in Needs(owners, mixes) : need <= SelectSequenceProfile(owners, mixes)
<1>1. Needs(owners, mixes) \in SUBSET Levels /\ Needs(owners, mixes) # {}
  BY FloorLevels DEF Needs
<1>2. SelectSequenceProfile(owners, mixes) = Max(Needs(owners, mixes))
  BY DEF SelectSequenceProfile, Needs
<1> QED  BY <1>1, <1>2, MaxOfLevels

\* Nothing that is added to a sequence lowers the profile it needs, and a copy
\* of an element leaves it as it is, for all elements, presentations and limits.
THEOREM GrowthKept == ProfileSpec => []GrowthNeverLowers
<1>1. ASSUME Listed, elements # <<>>
      PROVE  LET earlier == Front(elements)
                 before  == SelectSequenceProfile(earlier, presentations)
             IN  /\ before \in Named => Selected >= before
                 /\ Carrier(earlier, Last(elements).id) # 0 => Selected = before
  <2>1. PICK earlier \in Owners, element \in ElementType : elements = Append(earlier, element)
    <3>1. Len(elements) - 1 \in Nat /\ Len(elements) = (Len(elements) - 1) + 1
      BY <1>1 DEF Listed, Owners
    <3>2. EndsInMember(ElementType, Len(elements) - 1, elements)
      BY <1>1, <3>1, LastAppended DEF Listed, Owners
    <3> QED  BY <3>2 DEF EndsInMember, Owners
  <2>2. Front(elements) = earlier /\ Last(elements) = element
    BY <2>1, FrontOfAppended DEF Owners
  <2> DEFINE before == SelectSequenceProfile(earlier, presentations)
             Old(i) == PresentationMinimumProfile(presentations[i], earlier)
             New(i) == PresentationMinimumProfile(presentations[i], elements)
  <2>3. \A i \in DOMAIN presentations : presentations[i] \in PresentationType
    BY <1>1 DEF Listed
  <2>4. \A i \in DOMAIN presentations :
          Old(i) \in Named \/ Carrier(earlier, element.id) # 0 => New(i) = Old(i)
    BY <2>1, <2>3, PresentationKept
  <2>5. /\ SequenceFloor(earlier) \in Named => SequenceFloor(earlier) <= SequenceFloor(elements)
        /\ Carrier(earlier, element.id) # 0 => SequenceFloor(elements) = SequenceFloor(earlier)
    BY <2>1, SequenceFloorGrows
  <2>6. /\ before \in Needs(earlier, presentations)
        /\ Needs(elements, presentations) \subseteq Levels
        /\ \A need \in Needs(elements, presentations) : need <= Selected
        /\ Selected \in Needs(elements, presentations)
    BY SelectedIsGreatest DEF Selected
  <2>7. ASSUME before \in Named PROVE Selected >= before
    <3>1. before \in Nat /\ Selected \in Nat
      BY <2>6, <2>7 DEF Named, Simple, Base, BaseEnhanced, Levels
    <3>2. CASE before = SequenceFloor(earlier)
      <4>1. SequenceFloor(elements) \in Needs(elements, presentations)
        BY DEF Needs
      <4>2. SequenceFloor(elements) \in Nat
        BY <2>6, <4>1 DEF Levels
      <4>3. before <= SequenceFloor(elements) /\ SequenceFloor(elements) <= Selected
        BY <2>5, <2>6, <2>7, <3>2, <4>1
      <4> QED  BY <3>1, <4>2, <4>3
    <3>3. ASSUME NEW i \in DOMAIN presentations, before = Old(i) PROVE Selected >= before
      <4>1. New(i) = before
        BY <2>4, <2>7, <3>3
      <4>2. New(i) \in Needs(elements, presentations)
        BY DEF Needs
      <4>3. before <= Selected
        BY <2>6, <4>1, <4>2
      <4> QED  BY <3>1, <4>3
    <3> QED  BY <2>6, <3>2, <3>3 DEF Needs
  <2>8. ASSUME Carrier(earlier, element.id) # 0 PROVE Selected = before
    <3>1. {New(i) : i \in DOMAIN presentations} = {Old(i) : i \in DOMAIN presentations}
      BY <2>4, <2>8
    <3> QED  BY <2>5, <2>8, <3>1 DEF Selected, SelectSequenceProfile
  <2> QED  BY <2>2, <2>7, <2>8
<1>2. ASSUME Listed, presentations # <<>>
      PROVE  LET before == SelectSequenceProfile(elements, Front(presentations))
             IN  before \in Named => Selected >= before
  <2>1. PICK earlier \in Seq(PresentationType), presentation \in PresentationType :
          presentations = Append(earlier, presentation)
    <3>1. Len(presentations) - 1 \in Nat /\ Len(presentations) = (Len(presentations) - 1) + 1
      BY <1>2 DEF Listed
    <3>2. EndsInMember(PresentationType, Len(presentations) - 1, presentations)
      BY <1>2, <3>1, LastAppended DEF Listed
    <3> QED  BY <3>2 DEF EndsInMember
  <2>2. Front(presentations) = earlier
    BY <2>1, FrontOfAppended
  <2> DEFINE before == SelectSequenceProfile(elements, earlier)
  <2>3. /\ before \in Needs(elements, earlier)
        /\ Needs(elements, presentations) \subseteq Levels
        /\ \A need \in Needs(elements, presentations) : need <= Selected
        /\ Selected \in Needs(elements, presentations)
    BY SelectedIsGreatest DEF Selected
  <2>4. Needs(elements, earlier) \subseteq Needs(elements, presentations)
    <3>1. \A i \in DOMAIN earlier : i \in DOMAIN presentations /\ presentations[i] = earlier[i]
      BY <2>1
    <3> QED  BY <3>1 DEF Needs
  <2>5. before <= Selected /\ before \in Nat /\ Selected \in Nat
    BY <2>3, <2>4 DEF Levels
  <2> QED  BY <2>2, <2>5
<1>3. Listed => GrowthNeverLowers
  BY <1>1, <1>2 DEF GrowthNeverLowers
<1> QED  BY <1>3, DescriptorsListed, PTL

----------------------------------------------------------------------------
(* Sums                                                                    *)

TotalTable(amounts, m, f) == f = [n \in 0..m |-> IF n = 0 THEN 0 ELSE f[n - 1] + amounts[n]]

LEMMA TotalTableExists ==
  ASSUME NEW amounts, NEW m \in Nat
  PROVE  \E f : TotalTable(amounts, m, f)
<1> DEFINE S == {k \in Nat : \E f : TotalTable(amounts, k, f)}
<1>1. 0 \in S
  <2> DEFINE f == [n \in 0..0 |-> 0]
  <2>1. TotalTable(amounts, 0, f)
    BY DEF TotalTable
  <2> QED  BY <2>1
<1>2. ASSUME NEW k \in Nat, k \in S PROVE k + 1 \in S
  <2>1. PICK f : TotalTable(amounts, k, f)
    BY <1>2
  <2> DEFINE g == [n \in 0..(k + 1) |-> IF n = 0 THEN 0 ELSE f[n - 1] + amounts[n]]
  <2>2. \A n \in 0..k : f[n] = IF n = 0 THEN 0 ELSE f[n - 1] + amounts[n]
    BY <2>1 DEF TotalTable
  <2>3. \A n \in 0..k : g[n] = f[n]
    BY <2>2
  <2>4. \A n \in 0..(k + 1) : (IF n = 0 THEN 0 ELSE g[n - 1] + amounts[n])
                              = (IF n = 0 THEN 0 ELSE f[n - 1] + amounts[n])
    <3> HIDE DEF g
    <3>1. \A n \in 0..(k + 1) : n # 0 => n - 1 \in 0..k
      OBVIOUS
    <3> QED  BY <2>3, <3>1
  <2>5. g = [n \in 0..(k + 1) |-> IF n = 0 THEN 0 ELSE g[n - 1] + amounts[n]]
    BY <2>4
  <2>6. TotalTable(amounts, k + 1, g)
    BY <2>5 DEF TotalTable
  <2> QED  BY <2>6
<1> HIDE DEF S
<1>3. Nat \subseteq S
  BY <1>1, <1>2, NaturalSteps
<1> QED  BY <1>3 DEF S

LEMMA TotalOfTable ==
  ASSUME NEW amounts \in Seq(Nat)
  PROVE  \E f : TotalTable(amounts, Len(amounts), f) /\ Total(amounts) = f[Len(amounts)]
<1> DEFINE f == CHOOSE f : TotalTable(amounts, Len(amounts), f)
<1>1. Len(amounts) \in Nat
  OBVIOUS
<1>2. TotalTable(amounts, Len(amounts), f)
  BY <1>1, TotalTableExists
<1>3. Total(amounts) = f[Len(amounts)]
  BY DEF Total, TotalTable
<1> HIDE DEF f
<1> QED  BY <1>2, <1>3

LEMMA TotalTablesAgree ==
  ASSUME NEW s, NEW t, NEW m \in Nat, NEW k \in Nat, m <= k, SameUpTo(m, s, t),
         NEW f, TotalTable(s, m, f), NEW g, TotalTable(t, k, g)
  PROVE  f[m] = g[m]
<1> DEFINE S == {n \in Nat : n \in 0..m => f[n] = g[n]}
<1>1. \A n \in 0..m : /\ f[n] = IF n = 0 THEN 0 ELSE f[n - 1] + s[n]
                      /\ g[n] = IF n = 0 THEN 0 ELSE g[n - 1] + t[n]
  <2> SUFFICES ASSUME NEW n \in 0..m
               PROVE  /\ f[n] = IF n = 0 THEN 0 ELSE f[n - 1] + s[n]
                      /\ g[n] = IF n = 0 THEN 0 ELSE g[n - 1] + t[n]
    OBVIOUS
  <2>1. n \in 0..k
    OBVIOUS
  <2> QED  BY <2>1 DEF TotalTable
<1>2. 0 \in S
  BY <1>1
<1>3. ASSUME NEW n \in Nat, n \in S PROVE n + 1 \in S
  <2> SUFFICES ASSUME n + 1 \in 0..m PROVE f[n + 1] = g[n + 1]
    OBVIOUS
  <2>1. n \in 0..m /\ n + 1 \in 1..m /\ n + 1 # 0 /\ (n + 1) - 1 = n
    OBVIOUS
  <2>2. f[n] = g[n] /\ s[n + 1] = t[n + 1]
    BY <1>3, <2>1 DEF SameUpTo
  <2> QED  BY <1>1, <2>1, <2>2
<1> HIDE DEF S
<1>4. Nat \subseteq S
  BY <1>2, <1>3, NaturalSteps
<1> QED  BY <1>4 DEF S

LEMMA TotalOfNone == Total(<<>>) = 0
<1>1. <<>> \in Seq(Nat) /\ Len(<<>>) = 0
  OBVIOUS
<1>2. PICK f : TotalTable(<<>>, 0, f) /\ Total(<<>>) = f[0]
  BY <1>1, TotalOfTable
<1> QED  BY <1>2 DEF TotalTable

LEMMA TotalOfAppended ==
  ASSUME NEW amounts \in Seq(Nat), NEW amount \in Nat
  PROVE  Total(Append(amounts, amount)) = Total(amounts) + amount
<1> DEFINE more == Append(amounts, amount)
           m    == Len(amounts)
<1>1. /\ more \in Seq(Nat) /\ m \in Nat /\ Len(more) = m + 1
      /\ \A i \in 1..m : amounts[i] = more[i]
      /\ more[m + 1] = amount
  OBVIOUS
<1>2. PICK f : TotalTable(amounts, m, f) /\ Total(amounts) = f[m]
  BY TotalOfTable
<1>3. PICK g : TotalTable(more, m + 1, g) /\ Total(more) = g[m + 1]
  BY <1>1, TotalOfTable
<1> HIDE DEF more, m
<1>4. f[m] = g[m]
  <2>1. m \in Nat /\ m + 1 \in Nat /\ m <= m + 1
    BY <1>1
  <2>2. SameUpTo(m, amounts, more)
    BY <1>1 DEF SameUpTo
  <2> QED  BY <1>2, <1>3, <2>1, <2>2, TotalTablesAgree
<1>5. g[m + 1] = g[m] + amount
  <2>1. m + 1 \in 0..(m + 1) /\ m + 1 # 0 /\ (m + 1) - 1 = m
    BY <1>1
  <2>2. g[m + 1] = IF m + 1 = 0 THEN 0 ELSE g[(m + 1) - 1] + more[m + 1]
    BY <1>3, <2>1 DEF TotalTable
  <2> QED  BY <1>1, <2>1, <2>2
<1> QED  BY <1>2, <1>3, <1>4, <1>5 DEF more

IsTotalled(amounts) == Total(amounts) \in Nat

LEMMA TotalIsNatural == \A amounts \in Seq(Nat) : IsTotalled(amounts)
<1> DEFINE S == {n \in Nat : \A amounts \in Seq(Nat) : Len(amounts) = n => IsTotalled(amounts)}
<1>1. 0 \in S
  <2>1. \A amounts \in Seq(Nat) : Len(amounts) = 0 => amounts = <<>>
    OBVIOUS
  <2> QED  BY <2>1, TotalOfNone DEF IsTotalled
<1>2. ASSUME NEW n \in Nat, n \in S PROVE n + 1 \in S
  <2> SUFFICES ASSUME NEW amounts \in Seq(Nat), Len(amounts) = n + 1 PROVE IsTotalled(amounts)
    OBVIOUS
  <2>1. PICK s \in Seq(Nat), x \in Nat : Len(s) = n /\ amounts = Append(s, x)
    <3>1. EndsInMember(Nat, n, amounts)
      BY LastAppended
    <3> QED  BY <3>1 DEF EndsInMember
  <2>2. Total(s) \in Nat
    BY <1>2, <2>1 DEF IsTotalled
  <2>3. Total(amounts) = Total(s) + x
    BY <2>1, TotalOfAppended
  <2> QED  BY <2>2, <2>3 DEF IsTotalled
<1> HIDE DEF S
<1>3. Nat \subseteq S
  BY <1>1, <1>2, NaturalSteps
<1> QED
  <2> SUFFICES ASSUME NEW amounts \in Seq(Nat) PROVE IsTotalled(amounts)
    OBVIOUS
  <2>1. Len(amounts) \in S
    BY <1>3
  <2> QED  BY <2>1 DEF S

\* c is the sum of a and b, amount by amount.
AddsUp(a, b, c) ==
  Len(a) = Len(c) /\ Len(b) = Len(c) /\ \A i \in 1..Len(c) : c[i] = a[i] + b[i]

Totalled(a, b, c) == AddsUp(a, b, c) => Total(c) = Total(a) + Total(b)

LEMMA TotalAddsUp == \A a, b, c \in Seq(Nat) : Totalled(a, b, c)
<1> DEFINE S == {n \in Nat : \A a, b, c \in Seq(Nat) : Len(c) = n => Totalled(a, b, c)}
<1>1. 0 \in S
  <2> SUFFICES ASSUME NEW a \in Seq(Nat), NEW b \in Seq(Nat), NEW c \in Seq(Nat),
                      Len(c) = 0, AddsUp(a, b, c)
               PROVE  Total(c) = Total(a) + Total(b)
    BY DEF Totalled
  <2>1. a = <<>> /\ b = <<>> /\ c = <<>>
    BY DEF AddsUp
  <2> QED  BY <2>1, TotalOfNone
<1>2. ASSUME NEW n \in Nat, n \in S PROVE n + 1 \in S
  <2> SUFFICES ASSUME NEW a \in Seq(Nat), NEW b \in Seq(Nat), NEW c \in Seq(Nat),
                      Len(c) = n + 1, AddsUp(a, b, c)
               PROVE  Total(c) = Total(a) + Total(b)
    BY DEF Totalled
  <2>1. PICK r \in Seq(Nat), x \in Nat : Len(r) = n /\ a = Append(r, x)
    <3>1. EndsInMember(Nat, n, a)
      BY LastAppended DEF AddsUp
    <3> QED  BY <3>1 DEF EndsInMember
  <2>2. PICK s \in Seq(Nat), y \in Nat : Len(s) = n /\ b = Append(s, y)
    <3>1. EndsInMember(Nat, n, b)
      BY LastAppended DEF AddsUp
    <3> QED  BY <3>1 DEF EndsInMember
  <2>3. PICK t \in Seq(Nat), z \in Nat : Len(t) = n /\ c = Append(t, z)
    <3>1. EndsInMember(Nat, n, c)
      BY LastAppended DEF AddsUp
    <3> QED  BY <3>1 DEF EndsInMember
  <2>4. /\ a[n + 1] = x /\ b[n + 1] = y /\ c[n + 1] = z
        /\ \A i \in 1..n : a[i] = r[i] /\ b[i] = s[i] /\ c[i] = t[i]
    BY <2>1, <2>2, <2>3
  <2>5. \A i \in 1..(n + 1) : c[i] = a[i] + b[i]
    BY DEF AddsUp
  <2>6. z = x + y
    <3>1. n + 1 \in 1..(n + 1)
      OBVIOUS
    <3> QED  BY <2>4, <2>5, <3>1
  <2>7. AddsUp(r, s, t)
    <3>1. \A i \in 1..n : i \in 1..(n + 1)
      OBVIOUS
    <3> QED  BY <2>1, <2>2, <2>3, <2>4, <2>5, <3>1 DEF AddsUp
  <2>8. Total(t) = Total(r) + Total(s)
    BY <1>2, <2>3, <2>7 DEF Totalled
  <2>9. Total(r) \in Nat /\ Total(s) \in Nat /\ Total(t) \in Nat
    BY TotalIsNatural DEF IsTotalled
  <2>10. Total(a) = Total(r) + x /\ Total(b) = Total(s) + y /\ Total(c) = Total(t) + z
    BY <2>1, <2>2, <2>3, TotalOfAppended
  <2> QED  BY <2>6, <2>8, <2>9, <2>10
<1> HIDE DEF S
<1>3. Nat \subseteq S
  BY <1>1, <1>2, NaturalSteps
<1> QED
  <2> SUFFICES ASSUME NEW a \in Seq(Nat), NEW b \in Seq(Nat), NEW c \in Seq(Nat)
               PROVE  Totalled(a, b, c)
    OBVIOUS
  <2>1. Len(c) \in Nat
    OBVIOUS
  <2> QED  BY <1>3, <2>1 DEF S

\* Nothing but the amount at one position, if that is one.
OnlyAt(s, j) == \A i \in 1..Len(s) : i # j => s[i] = 0

OneTotalled(s, j) == OnlyAt(s, j) => Total(s) = IF j \in 1..Len(s) THEN s[j] ELSE 0

LEMMA TotalOfOne == \A s \in Seq(Nat) : \A j \in Nat : OneTotalled(s, j)
<1> DEFINE S == {n \in Nat : \A s \in Seq(Nat) : Len(s) = n => \A j \in Nat : OneTotalled(s, j)}
<1>1. 0 \in S
  <2> SUFFICES ASSUME NEW s \in Seq(Nat), Len(s) = 0, NEW j \in Nat PROVE OneTotalled(s, j)
    OBVIOUS
  <2>1. s = <<>> /\ j \notin 1..Len(s)
    OBVIOUS
  <2> QED  BY <2>1, TotalOfNone DEF OneTotalled
<1>2. ASSUME NEW n \in Nat, n \in S PROVE n + 1 \in S
  <2> SUFFICES ASSUME NEW s \in Seq(Nat), Len(s) = n + 1, NEW j \in Nat, OnlyAt(s, j)
               PROVE  Total(s) = IF j \in 1..Len(s) THEN s[j] ELSE 0
    BY DEF OneTotalled
  <2>1. PICK t \in Seq(Nat), x \in Nat : Len(t) = n /\ s = Append(t, x)
    <3>1. EndsInMember(Nat, n, s)
      BY LastAppended
    <3> QED  BY <3>1 DEF EndsInMember
  <2>2. s[n + 1] = x /\ \A i \in 1..n : s[i] = t[i]
    BY <2>1
  <2>3. \A i \in 1..(n + 1) : i # j => s[i] = 0
    BY DEF OnlyAt
  <2>4. OnlyAt(t, j)
    <3>1. \A i \in 1..n : i \in 1..(n + 1)
      OBVIOUS
    <3> QED  BY <2>1, <2>2, <2>3, <3>1 DEF OnlyAt
  <2>5. Total(t) = IF j \in 1..n THEN t[j] ELSE 0
    BY <1>2, <2>1, <2>4 DEF OneTotalled
  <2>6. Total(s) = Total(t) + x
    BY <2>1, TotalOfAppended
  <2>7. n + 1 # j => x = 0
    <3>1. n + 1 \in 1..(n + 1)
      OBVIOUS
    <3> QED  BY <2>2, <2>3, <3>1
  <2>8. CASE j \in 1..n
    <3>1. t[j] \in Nat /\ s[j] = t[j] /\ x = 0 /\ j \in 1..(n + 1)
      BY <2>1, <2>2, <2>7, <2>8
    <3> QED  BY <2>5, <2>6, <2>8, <3>1
  <2>9. CASE j = n + 1
    BY <2>2, <2>5, <2>6, <2>9
  <2>10. CASE j \notin 1..(n + 1)
    BY <2>5, <2>6, <2>7, <2>10
  <2> QED  BY <2>8, <2>9, <2>10
<1> HIDE DEF S
<1>3. Nat \subseteq S
  BY <1>1, <1>2, NaturalSteps
<1> QED
  <2> SUFFICES ASSUME NEW s \in Seq(Nat), NEW j \in Nat PROVE OneTotalled(s, j)
    OBVIOUS
  <2>1. Len(s) \in S
    BY <1>3
  <2> QED  BY <2>1 DEF S

\* The channels at some positions of a list of elements.
Amounts(owners, positions) ==
  [i \in DOMAIN owners |-> IF i \in positions THEN owners[i].channels ELSE 0]

At(owners, positions) == Total(Amounts(owners, positions))

LEMMA AmountsTyped ==
  ASSUME NEW owners \in Owners, NEW positions
  PROVE  /\ Amounts(owners, positions) \in Seq(Nat)
         /\ Len(Amounts(owners, positions)) = Len(owners)
         /\ \A i \in 1..Len(owners) : Amounts(owners, positions)[i]
                = IF i \in positions THEN owners[i].channels ELSE 0
<1> DEFINE t == Amounts(owners, positions)
<1>1. \A i \in DOMAIN owners : t[i] = IF i \in positions THEN owners[i].channels ELSE 0
  BY DEF Amounts
<1>2. \A i \in DOMAIN owners : owners[i].channels \in Nat
  <2> SUFFICES ASSUME NEW i \in DOMAIN owners PROVE owners[i].channels \in Nat
    OBVIOUS
  <2>1. owners[i] \in ElementType
    BY DEF Owners
  <2> QED  BY <2>1 DEF ElementType
<1>3. \A i \in DOMAIN owners : t[i] \in Nat
  BY <1>1, <1>2
<1>4. t = [i \in DOMAIN owners |-> t[i]]
  BY DEF Amounts
<1> HIDE DEF t
<1>5. ListOf(Nat, owners, t)
  BY <1>3, <1>4, ListTyped DEF Owners
<1>6. DOMAIN owners = 1..Len(owners)
  BY DEF Owners
<1> QED  BY <1>1, <1>5, <1>6 DEF ListOf, t

LEMMA AtIsNatural ==
  ASSUME NEW owners \in Owners, NEW positions
  PROVE  At(owners, positions) \in Nat
BY AmountsTyped, TotalIsNatural DEF At, IsTotalled

LEMMA AtUnion ==
  ASSUME NEW owners \in Owners, NEW P, NEW Q, P \cap Q = {}
  PROVE  At(owners, P \cup Q) = At(owners, P) + At(owners, Q)
<1> DEFINE a == Amounts(owners, P)
           b == Amounts(owners, Q)
           c == Amounts(owners, P \cup Q)
           m == Len(owners)
<1>1. /\ a \in Seq(Nat) /\ Len(a) = m
      /\ \A i \in 1..m : a[i] = IF i \in P THEN owners[i].channels ELSE 0
  BY AmountsTyped
<1>2. /\ b \in Seq(Nat) /\ Len(b) = m
      /\ \A i \in 1..m : b[i] = IF i \in Q THEN owners[i].channels ELSE 0
  BY AmountsTyped
<1>3. /\ c \in Seq(Nat) /\ Len(c) = m
      /\ \A i \in 1..m : c[i] = IF i \in P \cup Q THEN owners[i].channels ELSE 0
  BY AmountsTyped
<1>4. m \in Nat
  BY DEF Owners
<1> HIDE DEF a, b, c, m
<1>5. \A i \in 1..m : a[i] \in Nat /\ b[i] \in Nat
  BY <1>1, <1>2
<1>6. \A i \in 1..m : c[i] = a[i] + b[i]
  <2> SUFFICES ASSUME NEW i \in 1..m PROVE c[i] = a[i] + b[i]
    OBVIOUS
  <2>1. CASE i \in P
    <3>1. c[i] = a[i] /\ b[i] = 0
      BY <1>1, <1>2, <1>3, <2>1
    <3> QED  BY <1>5, <3>1
  <2>2. CASE i \in Q
    <3>1. c[i] = b[i] /\ a[i] = 0
      BY <1>1, <1>2, <1>3, <2>2
    <3> QED  BY <1>5, <3>1
  <2>3. CASE i \notin P /\ i \notin Q
    BY <1>1, <1>2, <1>3, <2>3
  <2> QED  BY <2>1, <2>2, <2>3
<1>7. AddsUp(a, b, c)
  BY <1>1, <1>2, <1>3, <1>6 DEF AddsUp
<1>8. Total(c) = Total(a) + Total(b)
  BY <1>1, <1>2, <1>3, <1>7, TotalAddsUp DEF Totalled
<1> QED  BY <1>8 DEF At, a, b, c

LEMMA AtOne ==
  ASSUME NEW owners \in Owners
  PROVE  /\ At(owners, {}) = 0
         /\ \A j \in DOMAIN owners : At(owners, {j}) = owners[j].channels
<1>1. DOMAIN owners = 1..Len(owners) /\ Len(owners) \in Nat
  BY DEF Owners
<1>2. At(owners, {}) = 0
  <2> DEFINE s == Amounts(owners, {})
  <2>1. s \in Seq(Nat) /\ Len(s) = Len(owners) /\ \A i \in 1..Len(owners) : s[i] = 0
    BY AmountsTyped
  <2> HIDE DEF s
  <2>2. OnlyAt(s, 0)
    BY <2>1 DEF OnlyAt
  <2>3. 0 \in Nat /\ 0 \notin 1..Len(s)
    BY <1>1, <2>1
  <2>4. Total(s) = 0
    BY <2>1, <2>2, <2>3, TotalOfOne DEF OneTotalled
  <2> QED  BY <2>4 DEF At, s
<1>3. ASSUME NEW j \in DOMAIN owners PROVE At(owners, {j}) = owners[j].channels
  <2> DEFINE s == Amounts(owners, {j})
  <2>1. /\ s \in Seq(Nat) /\ Len(s) = Len(owners)
        /\ \A i \in 1..Len(owners) : s[i] = IF i \in {j} THEN owners[i].channels ELSE 0
    BY AmountsTyped
  <2> HIDE DEF s
  <2>2. OnlyAt(s, j)
    BY <2>1 DEF OnlyAt
  <2>3. j \in Nat /\ j \in 1..Len(s)
    BY <1>1, <2>1
  <2>4. Total(s) = s[j]
    BY <2>1, <2>2, <2>3, TotalOfOne DEF OneTotalled
  <2>5. s[j] = owners[j].channels
    BY <1>1, <2>1
  <2> QED  BY <2>4, <2>5 DEF At, s
<1> QED  BY <1>2, <1>3

LEMMA AtGrows ==
  ASSUME NEW owners \in Owners, NEW P, NEW Q, P \subseteq Q
  PROVE  At(owners, P) <= At(owners, Q)
<1>1. Q = P \cup (Q \ P) /\ P \cap (Q \ P) = {}
  OBVIOUS
<1>2. At(owners, P \cup (Q \ P)) = At(owners, P) + At(owners, Q \ P)
  BY <1>1, AtUnion
<1>3. At(owners, P) \in Nat /\ At(owners, Q \ P) \in Nat
  BY AtIsNatural
<1>4. At(owners, Q) = At(owners, P) + At(owners, Q \ P)
  BY <1>1, <1>2
<1> QED  BY <1>3, <1>4

\* The channels of the elements at listed positions, as a list.
Picked(owners, pos) == [k \in DOMAIN pos |-> owners[pos[k]].channels]

Image(pos) == {pos[k] : k \in DOMAIN pos}

PickedCovers(owners, pos) ==
  /\ Picked(owners, pos) \in Seq(Nat) /\ Total(Picked(owners, pos)) \in Nat
  /\ At(owners, Image(pos)) <= Total(Picked(owners, pos))
  /\ Distinct(pos) => At(owners, Image(pos)) = Total(Picked(owners, pos))

\* Each position counts at least once, and exactly once if none is repeated.
LEMMA PickedTotal ==
  ASSUME NEW owners \in Owners
  PROVE  \A pos \in Seq(DOMAIN owners) : PickedCovers(owners, pos)
<1> DEFINE D == DOMAIN owners
           S == {n \in Nat : \A pos \in Seq(D) : Len(pos) = n => PickedCovers(owners, pos)}
<1>1. \A j \in D : owners[j].channels \in Nat
  <2> SUFFICES ASSUME NEW j \in D PROVE owners[j].channels \in Nat
    OBVIOUS
  <2>1. owners[j] \in ElementType
    BY DEF Owners
  <2> QED  BY <2>1 DEF ElementType
<1> HIDE DEF D
<1>2. 0 \in S
  <2> SUFFICES ASSUME NEW pos \in Seq(D), Len(pos) = 0 PROVE PickedCovers(owners, pos)
    OBVIOUS
  <2>1. pos = <<>>
    OBVIOUS
  <2>2. Picked(owners, pos) = <<>> /\ Image(pos) = {}
    BY <2>1 DEF Picked, Image
  <2>3. <<>> \in Seq(Nat)
    OBVIOUS
  <2> QED  BY <2>2, <2>3, TotalOfNone, AtOne DEF PickedCovers
<1>3. ASSUME NEW n \in Nat, n \in S PROVE n + 1 \in S
  <2> SUFFICES ASSUME NEW pos \in Seq(D), Len(pos) = n + 1 PROVE PickedCovers(owners, pos)
    OBVIOUS
  <2>1. PICK p \in Seq(D), j \in D : Len(p) = n /\ pos = Append(p, j)
    <3>1. EndsInMember(D, n, pos)
      BY LastAppended
    <3> QED  BY <3>1 DEF EndsInMember
  <2>2. PickedCovers(owners, p)
    BY <1>3, <2>1
  <2> DEFINE x == owners[j].channels
             s == Picked(owners, p)
  <2>3. /\ DOMAIN pos = 1..(n + 1) /\ DOMAIN p = 1..n /\ pos[n + 1] = j
        /\ \A k \in 1..n : pos[k] = p[k]
    BY <2>1
  <2>4. x \in Nat /\ s \in Seq(Nat) /\ Total(s) \in Nat
    BY <1>1, <2>2 DEF PickedCovers
  <2>5. Picked(owners, pos) = Append(s, x)
    <3>1. DOMAIN s = 1..n
      BY <2>3 DEF Picked
    <3>2. Len(s) = n
      BY <2>4, <3>1
    <3>3. DOMAIN Append(s, x) = 1..(n + 1) /\ Append(s, x) = [k \in 1..(n + 1) |-> Append(s, x)[k]]
      BY <2>4, <3>2
    <3>4. \A k \in 1..(n + 1) : Append(s, x)[k] = owners[pos[k]].channels
      <4> SUFFICES ASSUME NEW k \in 1..(n + 1) PROVE Append(s, x)[k] = owners[pos[k]].channels
        OBVIOUS
      <4>1. CASE k \in 1..n
        <5>1. Append(s, x)[k] = s[k]
          BY <2>4, <3>2, <4>1
        <5>2. s[k] = owners[p[k]].channels
          BY <2>3, <4>1 DEF Picked
        <5>3. pos[k] = p[k]
          BY <2>3, <4>1
        <5> HIDE DEF s
        <5> QED  BY <5>1, <5>2, <5>3
      <4>2. CASE k = n + 1
        <5>1. Append(s, x)[n + 1] = x
          BY <2>4, <3>2
        <5>2. pos[k] = j
          BY <2>3, <4>2
        <5>3. owners[pos[k]].channels = x
          BY <5>2
        <5> HIDE DEF s, x
        <5> QED  BY <4>2, <5>1, <5>3
      <4>3. k \in 1..n \/ k = n + 1
        OBVIOUS
      <4> QED  BY <4>1, <4>2, <4>3
    <3> QED  BY <2>3, <3>3, <3>4 DEF Picked
  <2>6. Image(pos) = Image(p) \cup {j}
    <3>1. \A k \in 1..(n + 1) : k \in 1..n \/ k = n + 1
      OBVIOUS
    <3>2. \A k \in 1..n : k \in 1..(n + 1)
      OBVIOUS
    <3>3. n + 1 \in 1..(n + 1)
      OBVIOUS
    <3> QED  BY <2>3, <3>1, <3>2, <3>3 DEF Image
  <2>7. Total(Picked(owners, pos)) = Total(s) + x
    BY <2>4, <2>5, TotalOfAppended
  <2>8. At(owners, {j}) = x
    BY AtOne DEF D
  <2>9. At(owners, Image(p)) \in Nat
    BY AtIsNatural
  <2>10. Distinct(pos) => Distinct(p) /\ j \notin Image(p)
    <3> SUFFICES ASSUME Distinct(pos) PROVE Distinct(p) /\ j \notin Image(p)
      OBVIOUS
    <3>1. \A k \in 1..n : k \in 1..(n + 1) /\ k # n + 1
      OBVIOUS
    <3>2. n + 1 \in 1..(n + 1)
      OBVIOUS
    <3>3. Distinct(p)
      BY <2>3, <3>1 DEF Distinct
    <3>4. \A k \in 1..n : p[k] # j
      BY <2>3, <3>1, <3>2 DEF Distinct
    <3> QED  BY <2>3, <3>3, <3>4 DEF Image
  <2>11. Picked(owners, pos) \in Seq(Nat)
    BY <2>4, <2>5
  <2> HIDE DEF x, s
  <2>12. CASE j \in Image(p)
    <3>1. Image(pos) = Image(p)
      BY <2>6, <2>12
    <3>2. At(owners, Image(p)) <= Total(s)
      BY <2>2 DEF PickedCovers, s
    <3> QED  BY <2>4, <2>7, <2>9, <2>10, <2>11, <2>12, <3>1, <3>2 DEF PickedCovers
  <2>13. CASE j \notin Image(p)
    <3>1. At(owners, Image(pos)) = At(owners, Image(p)) + x
      <4>1. Image(p) \cap {j} = {}
        BY <2>13
      <4>2. At(owners, Image(p) \cup {j}) = At(owners, Image(p)) + At(owners, {j})
        BY <4>1, AtUnion
      <4> QED  BY <2>6, <2>8, <4>2
    <3>2. At(owners, Image(p)) <= Total(s)
          /\ (Distinct(p) => At(owners, Image(p)) = Total(s))
      BY <2>2 DEF PickedCovers, s
    <3> QED  BY <2>4, <2>7, <2>9, <2>10, <2>11, <3>1, <3>2 DEF PickedCovers
  <2> QED  BY <2>12, <2>13
<1> HIDE DEF S
<1>4. Nat \subseteq S
  BY <1>2, <1>3, NaturalSteps
<1> QED
  <2> SUFFICES ASSUME NEW pos \in Seq(D) PROVE PickedCovers(owners, pos)
    BY DEF D
  <2>1. Len(pos) \in S
    BY <1>4
  <2> QED  BY <2>1 DEF S

----------------------------------------------------------------------------
(* What the elements are, by their unique list and by their first          *)
(* positions                                                               *)

LEMMA AtMostOneEqual ==
  ASSUME NEW P, IsFiniteSet(P)
  PROVE  AtMostOne(P) <=> \A x, y \in P : x = y
<1>1. Cardinality(P) \in Nat
  BY FS_CardinalityType
<1>2. ASSUME AtMostOne(P) PROVE \A x, y \in P : x = y
  <2>1. Cardinality(P) = 0 \/ Cardinality(P) = 1
    BY <1>1, <1>2 DEF AtMostOne
  <2>2. P = {} \/ \E x : P = {x}
    BY <2>1, FS_EmptySet, FS_Singleton
  <2> QED  BY <2>2
<1>3. ASSUME \A x, y \in P : x = y PROVE AtMostOne(P)
  <2>1. P = {} \/ \E x : P = {x}
    BY <1>3
  <2>2. Cardinality(P) = 0 \/ Cardinality(P) = 1
    BY <2>1, FS_EmptySet, FS_Singleton
  <2> QED  BY <2>2 DEF AtMostOne
<1> QED  BY <1>2, <1>3

\* No two different first positions hold elements of a kind.
Apart(unique) ==
  BaseCombinationAllowed(unique)
    <=> /\ AtMostOne({i \in Firsts : elements[i].scene})
        /\ AtMostOne({i \in Firsts : elements[i].layered})

\* The unique elements, as a list and as first positions.
Summarised(unique) ==
  /\ IsFiniteSet(Firsts) /\ Firsts \subseteq DOMAIN elements
  /\ Cardinality(Firsts) = Len(unique) /\ Len(unique) \in Nat
  /\ ChannelsAt(Firsts) = Channels(unique) /\ Channels(unique) \in Nat
  /\ AllFixed(unique) <=> \A i \in Firsts : elements[i].fixed
  /\ IsExpandedFirstLayer(unique) <=> ~\A i \in Firsts : ~elements[i].expanded
  /\ Apart(unique)

LEMMA UniqueSummary ==
  ASSUME Listed
  PROVE  Summarised(UniqueById(elements))
<1> DEFINE unique == UniqueById(elements)
           n      == Len(unique)
<1>1. PICK pos : FirstsListed(elements, unique, pos)
  BY UniqueAreFirsts DEF HasFirsts, Listed
<1>2. /\ unique \in Owners /\ n \in Nat /\ DOMAIN unique = 1..n
      /\ pos \in Seq(Nat) /\ DOMAIN pos = 1..n /\ Distinct(pos)
  BY <1>1 DEF FirstsListed, Owners
<1> HIDE DEF n, unique
<1>3. \A k \in 1..n : pos[k] \in Firsts /\ unique[k] = elements[pos[k]]
  BY <1>1, <1>2 DEF FirstsListed, FirstAt, Firsts
<1>4. \A i \in Firsts : \E k \in 1..n : pos[k] = i
  BY <1>1, <1>2 DEF FirstsListed, FirstAt, Firsts
<1>5. Firsts \subseteq DOMAIN elements
  BY DEF Firsts
<1>6. IsFiniteSet(Firsts) /\ Cardinality(Firsts) = n
  <2>1. IsFiniteSet(1..n) /\ Cardinality(1..n) = n
    BY <1>2, FS_Interval
  <2>2. pos \in Bijection(1..n, Firsts)
    <3>1. pos \in [1..n -> Firsts]
      BY <1>2, <1>3
    <3> QED  BY <1>2, <1>4, <3>1 DEF Bijection, Injection, Surjection, IsInjective, Distinct
  <2> QED  BY <2>1, <2>2, FS_Bijection DEF ExistsBijection
<1>7. ChannelsAt(Firsts) = Channels(unique) /\ Channels(unique) \in Nat
  <2>1. Image(pos) = Firsts
    BY <1>2, <1>3, <1>4 DEF Image
  <2>2. pos \in Seq(DOMAIN elements)
    <3>1. \A k \in DOMAIN pos : pos[k] \in DOMAIN elements
      BY <1>2, <1>3, <1>5
    <3>2. pos = [k \in DOMAIN pos |-> pos[k]]
      BY <1>2
    <3>3. ListOf(DOMAIN elements, pos, pos)
      BY <1>2, <3>1, <3>2, ListTyped
    <3> QED  BY <3>3 DEF ListOf
  <2>3. PickedCovers(elements, pos)
    BY <2>2, PickedTotal DEF Listed
  <2>4. Picked(elements, pos) = [i \in DOMAIN unique |-> unique[i].channels]
    BY <1>2, <1>3 DEF Picked
  <2>5. Total(Picked(elements, pos)) = Channels(unique)
    BY <2>4 DEF Channels
  <2>6. At(elements, Firsts) = ChannelsAt(Firsts)
    BY DEF At, Amounts, ChannelsAt
  <2> QED  BY <1>2, <2>1, <2>3, <2>5, <2>6 DEF PickedCovers
<1>8. AllFixed(unique) <=> \A i \in Firsts : elements[i].fixed
  BY <1>2, <1>3, <1>4 DEF AllFixed
<1>9. IsExpandedFirstLayer(unique) <=> ~\A i \in Firsts : ~elements[i].expanded
  <2>1. ASSUME NEW k \in 1..n, unique[k].expanded PROVE ~\A i \in Firsts : ~elements[i].expanded
    BY <1>3, <2>1
  <2>2. ASSUME NEW i \in Firsts, elements[i].expanded PROVE \E k \in 1..n : unique[k].expanded
    <3>1. PICK k \in 1..n : pos[k] = i
      BY <1>4
    <3>2. unique[k] = elements[i]
      BY <1>3, <3>1
    <3> QED  BY <2>2, <3>2
  <2> QED  BY <1>2, <2>1, <2>2 DEF IsExpandedFirstLayer
<1>10. Apart(unique)
  <2> DEFINE scenes == {i \in Firsts : elements[i].scene}
             layers == {i \in Firsts : elements[i].layered}
  <2>1. IsFiniteSet(scenes) /\ IsFiniteSet(layers)
    BY <1>6, FS_Subset
  <2>2. /\ AtMostOne(scenes) <=> \A x, y \in scenes : x = y
        /\ AtMostOne(layers) <=> \A x, y \in layers : x = y
    <3> HIDE DEF scenes, layers
    <3> QED  BY <2>1, AtMostOneEqual
  <2>3. \A k, l \in 1..n : pos[k] = pos[l] => k = l
    BY <1>2 DEF Distinct
  <2>4. ASSUME BaseCombinationAllowed(unique) PROVE AtMostOne(scenes) /\ AtMostOne(layers)
    <3>1. ASSUME NEW x \in Firsts, NEW y \in Firsts, x # y
          PROVE  /\ ~(elements[x].scene /\ elements[y].scene)
                 /\ ~(elements[x].layered /\ elements[y].layered)
      <4>1. PICK k \in 1..n, l \in 1..n : pos[k] = x /\ pos[l] = y
        BY <1>4
      <4>2. k # l /\ unique[k] = elements[x] /\ unique[l] = elements[y]
        BY <1>3, <3>1, <4>1
      <4> QED  BY <1>2, <2>4, <4>2 DEF BaseCombinationAllowed
    <3> QED  BY <2>2, <3>1
  <2>5. ASSUME AtMostOne(scenes), AtMostOne(layers) PROVE BaseCombinationAllowed(unique)
    <3> SUFFICES ASSUME NEW k \in 1..n, NEW l \in 1..n, k # l
                 PROVE  /\ ~(unique[k].scene /\ unique[l].scene)
                        /\ ~(unique[k].layered /\ unique[l].layered)
      BY <1>2 DEF BaseCombinationAllowed
    <3>1. pos[k] # pos[l] /\ pos[k] \in Firsts /\ pos[l] \in Firsts
      BY <1>3, <2>3
    <3>2. unique[k] = elements[pos[k]] /\ unique[l] = elements[pos[l]]
      BY <1>3
    <3> QED  BY <2>2, <2>5, <3>1, <3>2
  <2> QED  BY <2>4, <2>5 DEF Apart
<1> QED  BY <1>2, <1>5, <1>6, <1>7, <1>8, <1>9, <1>10 DEF Summarised, n, unique

----------------------------------------------------------------------------
(* What a presentation refers to                                           *)

\* The references of a presentation, as elements and as positions.
Traced(refs, positions) ==
  /\ Len(Resolve(elements, refs)) = Len(refs) /\ Len(refs) \in Nat
  /\ positions \subseteq Firsts
  /\ ChannelsAt(positions) <= Channels(Resolve(elements, refs))
  /\ ChannelsAt(positions) \in Nat /\ Channels(Resolve(elements, refs)) \in Nat
  /\ \A k \in DOMAIN refs :
       \E j \in Firsts : elements[j].id = refs[k] /\ Resolve(elements, refs)[k] = elements[j]

\* As many references as positions, each to another element.
TracedOnce(refs, positions) ==
  /\ Len(refs) <= Cardinality(Firsts)
  /\ ChannelsAt(positions) = Channels(Resolve(elements, refs))
  /\ Apart(UniqueById(elements)) /\ BaseCombinationAllowed(UniqueById(elements))
       => BaseCombinationAllowed(Resolve(elements, refs))

LEMMA ReferencesTraced ==
  ASSUME Listed, NEW presentation \in PresentationType, Carried(elements, presentation.refs)
  PROVE  /\ Traced(presentation.refs, Referred(presentation))
         /\ IsInjective(presentation.refs)
              => TracedOnce(presentation.refs, Referred(presentation))
<1> DEFINE refs == presentation.refs
           m    == Len(refs)
           pos  == [k \in DOMAIN refs |-> Carrier(elements, refs[k])]
<1>1. refs \in Seq(Nat) /\ m \in Nat /\ DOMAIN refs = 1..m
  BY DEF PresentationType
<1>2. elements \in Owners /\ DOMAIN elements = 1..Len(elements) /\ Len(elements) \in Nat
  BY DEF Listed, Owners
<1>3. \A k \in 1..m : /\ pos[k] \in DOMAIN elements /\ elements[pos[k]].id = refs[k]
                      /\ \A j \in DOMAIN elements : elements[j].id = refs[k] => pos[k] <= j
  <2> SUFFICES ASSUME NEW k \in 1..m
               PROVE  /\ pos[k] \in DOMAIN elements /\ elements[pos[k]].id = refs[k]
                      /\ \A j \in DOMAIN elements : elements[j].id = refs[k] => pos[k] <= j
    OBVIOUS
  <2>1. pos[k] = Carrier(elements, refs[k]) /\ pos[k] # 0
    BY <1>1 DEF Carried
  <2>2. FirstCarrier(elements, refs[k], pos[k])
    BY <1>2, <2>1, CarrierIsFirst
  <2> QED  BY <2>1, <2>2 DEF FirstCarrier
<1>4. \A k \in DOMAIN refs : Resolve(elements, refs)[k] = elements[pos[k]]
  BY DEF Resolve
<1>5. DOMAIN pos = 1..m /\ pos = [k \in DOMAIN refs |-> pos[k]]
  BY <1>1
<1>6. Resolve(elements, refs) = [k \in DOMAIN refs |-> elements[pos[k]]]
  BY DEF Resolve
<1> HIDE DEF pos, m
<1>7. \A k \in 1..m : pos[k] \in Firsts
  <2> SUFFICES ASSUME NEW k \in 1..m PROVE pos[k] \in Firsts
    OBVIOUS
  <2>1. \A j \in 1..(pos[k] - 1) : j \in DOMAIN elements /\ ~(pos[k] <= j)
    BY <1>2, <1>3
  <2>2. \A j \in 1..(pos[k] - 1) : elements[j].id # elements[pos[k]].id
    BY <1>3, <2>1
  <2> QED  BY <1>3, <2>2 DEF Firsts
<1>8. Image(pos) = Referred(presentation)
  <2>1. ASSUME NEW k \in 1..m PROVE pos[k] \in Referred(presentation)
    BY <1>1, <1>3, <1>7 DEF Referred
  <2>2. ASSUME NEW i \in Referred(presentation) PROVE \E k \in 1..m : pos[k] = i
    <3>1. PICK k \in 1..m : refs[k] = elements[i].id
      BY <1>1, <2>2 DEF Referred
    <3>2. i \in DOMAIN elements /\ \A j \in 1..(i - 1) : elements[j].id # elements[i].id
      BY <2>2 DEF Referred, Firsts
    <3>3. pos[k] <= i /\ ~(pos[k] \in 1..(i - 1))
      BY <1>3, <3>1, <3>2
    <3>4. pos[k] = i
      BY <1>2, <1>3, <3>2, <3>3
    <3> QED  BY <3>4
  <2> QED  BY <1>5, <2>1, <2>2 DEF Image
<1>9. pos \in Seq(DOMAIN elements)
  <2>1. ListOf(DOMAIN elements, refs, pos)
    <3>1. \A k \in DOMAIN refs : pos[k] \in DOMAIN elements
      BY <1>1, <1>3
    <3> QED  BY <1>1, <1>5, <3>1, ListTyped
  <2> QED  BY <2>1 DEF ListOf
<1>10. PickedCovers(elements, pos)
  BY <1>2, <1>9, PickedTotal
<1>11. Channels(Resolve(elements, refs)) = Total(Picked(elements, pos))
  <2>1. Picked(elements, pos)
          = [i \in DOMAIN Resolve(elements, refs) |-> Resolve(elements, refs)[i].channels]
    BY <1>1, <1>5, <1>6 DEF Picked
  <2> QED  BY <2>1 DEF Channels
<1>12. At(elements, Referred(presentation)) = ChannelsAt(Referred(presentation))
  BY DEF At, Amounts, ChannelsAt
<1>13. Len(Resolve(elements, refs)) = m
  BY <1>1, <1>6
<1>14. Traced(refs, Referred(presentation))
  <2>1. Referred(presentation) \subseteq Firsts
    BY DEF Referred
  <2>2. ChannelsAt(Referred(presentation)) \in Nat
    BY <1>2, <1>12, AtIsNatural
  <2>3. \A k \in DOMAIN refs :
          \E j \in Firsts : elements[j].id = refs[k] /\ Resolve(elements, refs)[k] = elements[j]
    BY <1>1, <1>3, <1>4, <1>7
  <2> QED  BY <1>1, <1>8, <1>10, <1>11, <1>12, <1>13, <2>1, <2>2, <2>3
           DEF Traced, PickedCovers, m
<1>15. ASSUME IsInjective(refs) PROVE TracedOnce(refs, Referred(presentation))
  <2>1. Distinct(pos)
    <3> SUFFICES ASSUME NEW k \in 1..m, NEW l \in 1..m, pos[k] = pos[l] PROVE k = l
      BY <1>5 DEF Distinct
    <3>1. refs[k] = refs[l]
      BY <1>3
    <3> QED  BY <1>1, <1>15, <3>1 DEF IsInjective
  <2>2. ChannelsAt(Referred(presentation)) = Channels(Resolve(elements, refs))
    BY <1>8, <1>10, <1>11, <1>12, <2>1 DEF PickedCovers
  <2>3. m <= Cardinality(Firsts)
    <3>1. pos \in Injection(1..m, Firsts)
      <4>1. pos \in [1..m -> Firsts]
        BY <1>1, <1>5, <1>7
      <4> QED  BY <1>5, <2>1, <4>1 DEF Injection, IsInjective, Distinct
    <3>2. IsFiniteSet(Firsts)
      BY UniqueSummary DEF Summarised
    <3>3. Cardinality(1..m) = m
      BY <1>1, FS_Interval
    <3> QED  BY <3>1, <3>2, <3>3, FS_Injection
  <2>4. ASSUME Apart(UniqueById(elements)), BaseCombinationAllowed(UniqueById(elements))
        PROVE  BaseCombinationAllowed(Resolve(elements, refs))
    <3> DEFINE scenes == {i \in Firsts : elements[i].scene}
               layers == {i \in Firsts : elements[i].layered}
    <3>1. AtMostOne(scenes) /\ AtMostOne(layers)
      BY <2>4 DEF Apart
    <3>2. IsFiniteSet(scenes) /\ IsFiniteSet(layers)
      <4>1. IsFiniteSet(Firsts)
        BY UniqueSummary DEF Summarised
      <4> QED  BY <4>1, FS_Subset
    <3>3. (\A x, y \in scenes : x = y) /\ (\A x, y \in layers : x = y)
      <4> HIDE DEF scenes, layers
      <4> QED  BY <3>1, <3>2, AtMostOneEqual
    <3> SUFFICES ASSUME NEW k \in 1..m, NEW l \in 1..m, k # l
                 PROVE  /\ ~(elements[pos[k]].scene /\ elements[pos[l]].scene)
                        /\ ~(elements[pos[k]].layered /\ elements[pos[l]].layered)
      BY <1>1, <1>6 DEF BaseCombinationAllowed
    <3>4. pos[k] # pos[l]
      BY <1>5, <2>1 DEF Distinct
    <3> QED  BY <1>7, <3>3, <3>4
  <2> QED  BY <2>2, <2>3, <2>4 DEF TracedOnce, m
<1> QED  BY <1>14, <1>15

----------------------------------------------------------------------------
(* The least profile                                                       *)

\* The part of Permits that spans the sequence, and that of a presentation.
SequenceWithin(profile) ==
  /\ Cardinality(Firsts) <= EnhancedElements /\ ChannelsAt(Firsts) <= EnhancedChannels
  /\ \A i \in Firsts : elements[i].fixed
  /\ profile <= Base =>
       /\ Cardinality(Firsts) <= BaseElements
       /\ AtMostOne({i \in Firsts : elements[i].scene})
       /\ AtMostOne({i \in Firsts : elements[i].layered})
       /\ \A i \in Firsts : ~elements[i].expanded
  /\ profile = Simple => Cardinality(Firsts) <= SimpleElements

PresentationWithin(profile, presentation) ==
  /\ profile <= Base => ChannelsAt(Referred(presentation)) <= BaseChannels
  /\ profile = Simple => ChannelsAt(Referred(presentation)) <= SimpleChannels

LEMMA PermitsParts ==
  ASSUME NEW profile \in Named
  PROVE  Permits(profile) <=> /\ SequenceWithin(profile)
                              /\ \A i \in DOMAIN presentations :
                                   PresentationWithin(profile, presentations[i])
BY DEF Permits, SequenceWithin, PresentationWithin

\* The floor of the sequence is the least profile its elements are within.
LEMMA FloorIsLeast ==
  ASSUME Listed, NEW profile \in Named
  PROVE  SequenceFloor(elements) <= profile <=> SequenceWithin(profile)
<1> DEFINE unique == UniqueById(elements)
           n == Len(unique)
           c == Channels(unique)
           fixed    == \A i \in Firsts : elements[i].fixed
           expanded == ~\A i \in Firsts : ~elements[i].expanded
           apart    == /\ AtMostOne({i \in Firsts : elements[i].scene})
                       /\ AtMostOne({i \in Firsts : elements[i].layered})
<1>1. /\ Cardinality(Firsts) = n /\ n \in Nat
      /\ ChannelsAt(Firsts) = c /\ c \in Nat
      /\ AllFixed(unique) <=> fixed
      /\ IsExpandedFirstLayer(unique) <=> expanded
      /\ BaseCombinationAllowed(unique) <=> apart
  BY UniqueSummary DEF Summarised, Apart
<1>2. n <= 1 => BaseCombinationAllowed(unique)
  <2>1. unique \in Owners
    BY UniqueAreFirsts DEF Listed, HasFirsts, FirstsListed
  <2>2. DOMAIN unique = 1..n
    BY <2>1 DEF Owners
  <2> HIDE DEF n
  <2>3. n <= 1 => \A i, j \in 1..n : i = j
    BY <1>1
  <2> QED  BY <2>2, <2>3 DEF BaseCombinationAllowed
<1>3. SequenceFloor(elements) =
        IF n > EnhancedElements THEN Ceiling
        ELSE IF ~fixed THEN Unfixed
        ELSE IF c > EnhancedChannels THEN Ceiling
        ELSE IF expanded THEN BaseEnhanced
        ELSE IF n <= SimpleElements THEN Simple
        ELSE IF n <= BaseElements /\ apart THEN Base
        ELSE BaseEnhanced
  BY <1>1 DEF SequenceFloor, SequenceCountFloor
<1>4. SequenceWithin(profile) <=>
        /\ n <= EnhancedElements /\ c <= EnhancedChannels /\ fixed
        /\ profile <= Base => n <= BaseElements /\ apart /\ ~expanded
        /\ profile = Simple => n <= SimpleElements
  BY <1>1 DEF SequenceWithin
<1>5. n <= 1 => apart
  BY <1>1, <1>2
<1>6. n \in Nat /\ c \in Nat
  BY <1>1
<1> HIDE DEF n, c, fixed, expanded, apart
<1> QED  BY <1>3, <1>4, <1>5, <1>6, LimitsAssumption
         DEF Named, Simple, Base, BaseEnhanced, Ceiling, Unfixed

\* Among elements within a profile, a presentation needs no more exactly if it
\* is within the profile itself.
LEMMA PresentationIsLeast ==
  ASSUME Listed, NEW profile \in Named, SequenceWithin(profile),
         NEW presentation \in PresentationType, IsJudged(presentation)
  PROVE  PresentationMinimumProfile(presentation, elements) <= profile
           <=> PresentationWithin(profile, presentation)
<1> DEFINE refs     == presentation.refs
           resolved == Resolve(elements, refs)
           unique   == UniqueById(elements)
           f == Cardinality(Firsts)
           m == Len(resolved)
           c == Channels(resolved)
           fixed    == AllFixed(resolved)
           expanded == IsExpandedFirstLayer(resolved)
           allowed  == BaseCombinationAllowed(resolved)
<1>1. Traced(refs, Referred(presentation)) /\ TracedOnce(refs, Referred(presentation))
  BY ReferencesTraced DEF IsJudged
<1>2. Summarised(unique)
  BY UniqueSummary
<1>3. /\ m \in Nat /\ f \in Nat /\ m <= f /\ c \in Nat
      /\ ChannelsAt(Referred(presentation)) = c
  BY <1>1, <1>2 DEF Traced, TracedOnce, Summarised
<1>4. DOMAIN resolved = DOMAIN refs
  BY DEF Resolve
<1>5. fixed
  BY <1>1, <1>4 DEF Traced, AllFixed, SequenceWithin
<1>6. profile <= Base => ~expanded /\ allowed
  <2> SUFFICES ASSUME profile <= Base PROVE ~expanded /\ allowed
    OBVIOUS
  <2>1. \A i \in Firsts : ~elements[i].expanded
    BY DEF SequenceWithin
  <2>2. ~expanded
    BY <1>1, <1>4, <2>1 DEF Traced, IsExpandedFirstLayer
  <2>3. BaseCombinationAllowed(unique)
    BY <1>2 DEF Summarised, Apart, SequenceWithin
  <2>4. Apart(unique)
    BY <1>2 DEF Summarised
  <2>5. allowed
    BY <1>1, <2>3, <2>4 DEF TracedOnce
  <2> QED  BY <2>2, <2>5
<1>7. c <= ChannelsAt(Firsts) /\ ChannelsAt(Firsts) \in Nat
  <2>1. Referred(presentation) \subseteq Firsts
    BY <1>1 DEF Traced
  <2>2. At(elements, Referred(presentation)) <= At(elements, Firsts)
        /\ At(elements, Firsts) \in Nat
    BY <2>1, AtGrows, AtIsNatural DEF Listed
  <2>3. \A P : At(elements, P) = ChannelsAt(P)
    BY DEF At, Amounts, ChannelsAt
  <2> QED  BY <1>3, <2>2, <2>3
<1>8. /\ f <= EnhancedElements /\ ChannelsAt(Firsts) <= EnhancedChannels
      /\ profile <= Base => f <= BaseElements
      /\ profile = Simple => f <= SimpleElements
  BY DEF SequenceWithin
<1>9. PresentationMinimumProfile(presentation, elements) =
        IF ~fixed THEN Unfixed
        ELSE IF m > EnhancedElements \/ c > EnhancedChannels THEN Ceiling
        ELSE IF expanded THEN BaseEnhanced
        ELSE IF m <= SimpleElements /\ c <= SimpleChannels THEN Simple
        ELSE IF m <= BaseElements /\ c <= BaseChannels /\ allowed THEN Base
        ELSE BaseEnhanced
  BY DEF PresentationMinimumProfile, PresentationFloor, IsJudged
<1>10. PresentationWithin(profile, presentation) <=>
         /\ profile <= Base => c <= BaseChannels
         /\ profile = Simple => c <= SimpleChannels
  BY <1>3 DEF PresentationWithin
<1> DEFINE all == ChannelsAt(Firsts)
<1>11. c <= all /\ all \in Nat /\ all <= EnhancedChannels
  BY <1>7, <1>8
<1>12. /\ m \in Nat /\ f \in Nat /\ m <= f /\ c \in Nat
       /\ f <= EnhancedElements
       /\ profile <= Base => f <= BaseElements
       /\ profile = Simple => f <= SimpleElements
  BY <1>3, <1>8
<1> HIDE DEF f, m, c, fixed, expanded, allowed, all
<1>13. m <= EnhancedElements /\ c <= EnhancedChannels
  BY <1>11, <1>12, LimitsAssumption
<1> QED  BY <1>5, <1>6, <1>9, <1>10, <1>12, <1>13, LimitsAssumption
         DEF Named, Simple, Base, BaseEnhanced, Ceiling, Unfixed

\* A profile permits a set that the builder lets through exactly if nothing in
\* it needs more.
LEMMA PermitsWhatIsNeeded ==
  ASSUME Listed, \A i \in DOMAIN presentations : IsJudged(presentations[i]),
         NEW profile \in Named
  PROVE  Permits(profile) <=> \A need \in Needs(elements, presentations) : need <= profile
<1>1. SequenceFloor(elements) <= profile <=> SequenceWithin(profile)
  BY FloorIsLeast
<1>2. SequenceWithin(profile) =>
        \A i \in DOMAIN presentations :
          PresentationMinimumProfile(presentations[i], elements) <= profile
            <=> PresentationWithin(profile, presentations[i])
  <2> SUFFICES ASSUME SequenceWithin(profile), NEW i \in DOMAIN presentations
               PROVE  PresentationMinimumProfile(presentations[i], elements) <= profile
                        <=> PresentationWithin(profile, presentations[i])
    OBVIOUS
  <2>1. presentations[i] \in PresentationType /\ IsJudged(presentations[i])
    BY DEF Listed
  <2> QED  BY <2>1, PresentationIsLeast
<1>3. (\A need \in Needs(elements, presentations) : need <= profile)
        <=> /\ SequenceFloor(elements) <= profile
            /\ \A i \in DOMAIN presentations :
                 PresentationMinimumProfile(presentations[i], elements) <= profile
  BY DEF Needs
<1> QED  BY <1>1, <1>2, <1>3, PermitsParts

\* The selected profile is the least that permits the set, and none is selected
\* exactly if none does, for all limits, elements and presentations.
THEOREM SelectionIsLeast == ProfileSpec => []SelectsLeast
<1>1. Listed => SelectsLeast
  <2> SUFFICES ASSUME Listed, \A i \in DOMAIN presentations : IsJudged(presentations[i])
               PROVE  IF Selected \in Named
                        THEN /\ Permits(Selected)
                             /\ \A profile \in Named : profile < Selected => ~Permits(profile)
                        ELSE \A profile \in Named : ~Permits(profile)
    BY DEF SelectsLeast
  <2> DEFINE needs == Needs(elements, presentations)
  <2>1. \A profile \in Named : Permits(profile) <=> \A need \in needs : need <= profile
    BY PermitsWhatIsNeeded
  <2>2. Selected \in needs /\ needs \subseteq Levels /\ \A need \in needs : need <= Selected
    BY SelectedIsGreatest DEF Selected
  <2>3. Selected \in Nat /\ \A profile \in Named : profile \in Nat
    BY <2>2 DEF Levels, Named, Simple, Base, BaseEnhanced
  <2> HIDE DEF needs
  <2>4. CASE Selected \in Named
    <3>1. ASSUME NEW profile \in Named, profile < Selected PROVE ~Permits(profile)
      <4>1. ~(Selected <= profile)
        BY <2>3, <3>1
      <4> QED  BY <2>1, <2>2, <4>1
    <3> QED  BY <2>1, <2>2, <2>4, <3>1
  <2>5. CASE Selected \notin Named
    <3>1. \A profile \in Named : ~(Selected <= profile)
      BY <2>2, <2>5 DEF Levels, Named, Simple, Base, BaseEnhanced
    <3> QED  BY <2>1, <2>2, <2>5, <3>1
  <2> QED  BY <2>4, <2>5
<1> QED  BY <1>1, DescriptorsListed, PTL

\* A header without findings can be played, for all limits, elements and
\* presentations: some presentation resolves within the limits of the profile.
THEOREM CleanHeaders == ProfileSpec => []CleanHeaderPlays
<1>1. ASSUME Listed, NEW profile \in Named,
             ComplianceFindings(profile, profile, elements, presentations) = {},
             SequenceLimitFindings(profile, elements) = {}
      PROVE  /\ \E i \in DOMAIN presentations :
                  /\ presentations[i].sound
                  /\ \A k \in DOMAIN presentations[i].refs :
                       \E j \in Firsts : /\ elements[j].id = presentations[i].refs[k]
                                         /\ elements[j].fixed
                  /\ profile = Simple => ChannelsAt(Referred(presentations[i])) <= SimpleChannels
                  /\ profile = Base => ChannelsAt(Referred(presentations[i])) <= BaseChannels
             /\ profile = Simple => Cardinality(Firsts) <= SimpleElements
             /\ profile = Base => Cardinality(Firsts) <= BaseElements
             /\ \A additional \in Named : additional >= profile =>
                  ComplianceFindings(profile, additional, elements, presentations) = {}
  <2> DEFINE Need(i) == PresentationMinimumProfile(presentations[i], elements)
  <2>1. PICK i \in DOMAIN presentations : Need(i) <= profile
    <3>1. CompliesWith(profile, elements, presentations)
      <4>1. "primary_profile" \notin ComplianceFindings(profile, profile, elements, presentations)
        BY <1>1
      <4> QED  BY <4>1 DEF ComplianceFindings
    <3> QED  BY <3>1 DEF CompliesWith
  <2> DEFINE refs     == presentations[i].refs
             resolved == Resolve(elements, refs)
             m == Len(resolved)
             c == Channels(resolved)
  <2>2. presentations[i] \in PresentationType
    BY <1>1 DEF Listed
  <2>3. /\ presentations[i].sound /\ Carried(elements, refs)
        /\ Need(i) = PresentationFloor(resolved)
    BY <2>1 DEF PresentationMinimumProfile, Invalid, Named, Simple, Base, BaseEnhanced
  <2>4. Traced(refs, Referred(presentations[i]))
    BY <1>1, <2>2, <2>3, ReferencesTraced
  <2>5. /\ AllFixed(resolved)
        /\ profile = Simple => c <= SimpleChannels
        /\ profile = Base => c <= SimpleChannels \/ c <= BaseChannels
    <3>1. PresentationFloor(resolved) <= profile
      BY <2>1, <2>3
    <3> QED  BY <3>1 DEF PresentationFloor, Named, Simple, Base, BaseEnhanced, Ceiling, Unfixed
  <2>6. c \in Nat /\ ChannelsAt(Referred(presentations[i])) \in Nat
        /\ ChannelsAt(Referred(presentations[i])) <= c
    BY <2>4 DEF Traced
  <2>7. /\ profile = Simple => ChannelsAt(Referred(presentations[i])) <= SimpleChannels
        /\ profile = Base => ChannelsAt(Referred(presentations[i])) <= BaseChannels
    <3> DEFINE r == ChannelsAt(Referred(presentations[i]))
    <3>1. r \in Nat /\ c \in Nat /\ r <= c
      BY <2>6
    <3>2. /\ profile = Simple => c <= SimpleChannels
          /\ profile = Base => c <= SimpleChannels \/ c <= BaseChannels
      BY <2>5
    <3> HIDE DEF c, r
    <3>3. /\ profile = Simple => r <= SimpleChannels
          /\ profile = Base => r <= BaseChannels
      BY <3>1, <3>2, LimitsAssumption
    <3> QED  BY <3>3 DEF r
  <2>8. \A k \in DOMAIN refs : \E j \in Firsts : elements[j].id = refs[k] /\ elements[j].fixed
    <3>1. DOMAIN resolved = DOMAIN refs
      BY DEF Resolve
    <3> QED  BY <2>4, <2>5, <3>1 DEF Traced, AllFixed
  <2>9. /\ profile = Simple => Cardinality(Firsts) <= SimpleElements
        /\ profile = Base => Cardinality(Firsts) <= BaseElements
    <3> DEFINE unique == UniqueById(elements)
               n      == Len(unique)
    <3>1. Cardinality(Firsts) = n /\ n \in Nat
      BY <1>1, UniqueSummary DEF Summarised
    <3>2. SequenceCountFloor(unique) <= profile
      <4> DEFINE floor  == SequenceFloor(elements)
                 needed == IF floor = Unfixed THEN SequenceCountFloor(unique) ELSE floor
      <4>1. ~(needed > profile)
        BY <1>1 DEF SequenceLimitFindings
      <4>2. SequenceCountFloor(unique) \in Nat /\ floor \in Levels /\ profile \in {0, 1, 2}
        BY FloorLevels DEF SequenceCountFloor, Named, Simple, Base, BaseEnhanced
      <4>3. needed <= profile
        BY <4>1, <4>2 DEF Levels
      <4>4. floor \in {Ceiling, Unfixed} \/ floor = SequenceCountFloor(unique)
        BY DEF SequenceFloor
      <4> HIDE DEF floor
      <4> QED  BY <4>2, <4>3, <4>4 DEF Ceiling, Unfixed
    <3>3. /\ profile = Simple => n <= SimpleElements
          /\ profile = Base => n <= SimpleElements \/ n <= BaseElements
      BY <3>2 DEF SequenceCountFloor, Named, Simple, Base, BaseEnhanced
    <3> HIDE DEF n
    <3> QED  BY <3>1, <3>3, LimitsAssumption
  <2>10. ASSUME NEW additional \in Named, additional >= profile
         PROVE  ComplianceFindings(profile, additional, elements, presentations) = {}
    <3>1. Need(i) \in Levels
      BY FloorLevels
    <3>2. Need(i) <= additional
      BY <2>1, <2>10, <3>1 DEF Levels, Named, Simple, Base, BaseEnhanced
    <3>3. /\ CompliesWith(profile, elements, presentations)
          /\ CompliesWith(additional, elements, presentations)
      BY <2>1, <3>2 DEF CompliesWith
    <3> QED  BY <3>3 DEF ComplianceFindings
  <2> QED  BY <2>3, <2>7, <2>8, <2>9, <2>10
<1>2. Listed => CleanHeaderPlays
  BY <1>1 DEF CleanHeaderPlays
<1> QED  BY <1>2, DescriptorsListed, PTL
==============================================================================
