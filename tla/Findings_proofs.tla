-------------------------- MODULE Findings_proofs --------------------------
(***************************************************************************)
(* What validate reports.  The greedy pass over a language tag accepts the *)
(* tags of the grammar and no others.  What a constructor of CodecConfig   *)
(* returns is clean, also when it was written and read back.  A file has   *)
(* the findings of the set or the sequence that it was written from.       *)
(***************************************************************************)
EXTENDS WireFormat_proofs, TagGrammar

----------------------------------------------------------------------------
(* Classes of subtags                                                      *)

\* The positions that hold a subtag of a class.
Extlangs   == {m \in DOMAIN subtags : IsExtlang(subtags[m])}
ScriptParts    == {m \in DOMAIN subtags : IsScript(subtags[m])}
Regions    == {m \in DOMAIN subtags : IsRegion(subtags[m])}
Variants   == {m \in DOMAIN subtags : IsVariant(subtags[m])}
Singletons == {m \in DOMAIN subtags : IsSingleton(subtags[m])}
ExtendedParts   == {m \in DOMAIN subtags : IsExtended(subtags[m])}
Markers    == {m \in DOMAIN subtags : IsPrivateUseMarker(subtags[m])}

TagTypeOK == subtags \in Seq(Samples) /\ subtags # <<>>

Disjoint(A, B) == \A m : ~ (m \in A /\ m \in B)

\* What comes after a part is never of the part's own class.
Classes ==
  /\ Disjoint(Markers, Singletons) /\ Disjoint(Markers, ExtendedParts)
  /\ Disjoint(Singletons, ExtendedParts)
  /\ Disjoint(Variants, Singletons) /\ Disjoint(Variants, Markers)
  /\ Disjoint(Regions, Variants) /\ Disjoint(Regions, Singletons) /\ Disjoint(Regions, Markers)
  /\ Disjoint(ScriptParts, Regions) /\ Disjoint(ScriptParts, Variants)
  /\ Disjoint(ScriptParts, Singletons) /\ Disjoint(ScriptParts, Markers)
  /\ Disjoint(Extlangs, ScriptParts) /\ Disjoint(Extlangs, Regions) /\ Disjoint(Extlangs, Variants)
  /\ Disjoint(Extlangs, Singletons) /\ Disjoint(Extlangs, Markers)

\* How many characters a subtag of a class has, and of what kind the first is.
SizedByClass(s) ==
  /\ Len(s) \in Nat
  /\ IsPrivateUseMarker(s) => Len(s) = 1
  /\ IsSingleton(s) => Len(s) = 1 /\ ~ IsPrivateUseMarker(s)
  /\ IsExtended(s) => Len(s) >= 2
  /\ IsVariant(s) => Len(s) >= 5 \/ (Len(s) = 4 /\ s[1] \in Digits)
  /\ IsRegion(s) => Len(s) = 2 \/ (Len(s) = 3 /\ s[1] \in Digits)
  /\ IsScript(s) => Len(s) = 4 /\ s[1] \in Letters
  /\ IsExtlang(s) => Len(s) = 3 /\ s[1] \in Letters

LEMMA SubtagSized ==
  ASSUME NEW S, NEW s \in Seq(S)
  PROVE  SizedByClass(s)
<1>1. Len(s) \in Nat /\ DOMAIN s = 1..Len(s)
  OBVIOUS
<1>2. Len(s) > 0 => s[1] \in ToSet(s)
  BY <1>1 DEF ToSet
<1>3. IsPrivateUseMarker(s) => Len(s) = 1
  <2> SUFFICES ASSUME IsPrivateUseMarker(s) PROVE Len(s) = 1
    OBVIOUS
  <2>1. DOMAIN Lower(s) = DOMAIN s
    BY DEF Lower
  <2>2. DOMAIN Lower(s) = 1..1
    BY DEF IsPrivateUseMarker
  <2>3. 1 \in DOMAIN s /\ 2 \notin DOMAIN s
    BY <2>1, <2>2
  <2> QED  BY <1>1, <2>3
<1>4. ASSUME NEW lo \in Nat, NEW hi \in Nat
      PROVE  /\ IsAlpha(s, lo, hi) =>
                  Len(s) >= lo /\ Len(s) <= hi /\ (Len(s) > 0 => s[1] \in Letters)
             /\ IsAlphanumeric(s, lo, hi) => Len(s) >= lo /\ Len(s) <= hi
  BY <1>1, <1>2 DEF IsAlpha, IsAlphanumeric
<1>5. IsSingleton(s) => Len(s) = 1 /\ ~ IsPrivateUseMarker(s)
  <2>1. IsSingleton(s) => Len(s) >= 1 /\ Len(s) <= 1
    BY <1>4 DEF IsSingleton
  <2> QED  BY <1>1, <2>1 DEF IsSingleton
<1>6. IsExtended(s) => Len(s) >= 2
  BY <1>4 DEF IsExtended
<1>7. IsVariant(s) => Len(s) >= 5 \/ (Len(s) = 4 /\ s[1] \in Digits)
  <2>1. IsAlphanumeric(s, 4, 4) => Len(s) >= 4 /\ Len(s) <= 4
    BY <1>4
  <2>2. IsAlphanumeric(s, 5, 8) => Len(s) >= 5
    BY <1>4
  <2> QED  BY <1>1, <2>1, <2>2 DEF IsVariant
<1>8. IsRegion(s) => Len(s) = 2 \/ (Len(s) = 3 /\ s[1] \in Digits)
  <2>1. IsAlpha(s, 2, 2) => Len(s) >= 2 /\ Len(s) <= 2
    BY <1>4
  <2>2. IsDigits(s, 3) => Len(s) = 3 /\ s[1] \in Digits
    BY <1>2 DEF IsDigits
  <2> QED  BY <1>1, <2>1, <2>2 DEF IsRegion
<1>9. IsScript(s) => Len(s) = 4 /\ s[1] \in Letters
  <2>1. IsScript(s) => Len(s) >= 4 /\ Len(s) <= 4 /\ (Len(s) > 0 => s[1] \in Letters)
    BY <1>4 DEF IsScript
  <2> QED  BY <1>1, <2>1
<1>10. IsExtlang(s) => Len(s) = 3 /\ s[1] \in Letters
  <2>1. IsExtlang(s) => Len(s) >= 3 /\ Len(s) <= 3 /\ (Len(s) > 0 => s[1] \in Letters)
    BY <1>4 DEF IsExtlang
  <2> QED  BY <1>1, <2>1
<1> QED  BY <1>1, <1>3, <1>5, <1>6, <1>7, <1>8, <1>9, <1>10 DEF SizedByClass

LEMMA ClassesDisjoint ==
  ASSUME TagTypeOK, SamplesAssumption
  PROVE  Classes
<1>1. ASSUME NEW m \in DOMAIN subtags PROVE SizedByClass(subtags[m])
  <2>1. subtags[m] \in Samples
    BY SeqMember DEF TagTypeOK
  <2> QED  BY <2>1, SubtagSized DEF SamplesAssumption
<1>2. \A c : ~ (c \in Letters /\ c \in Digits)
  <2>1. \A c \in Letters : c \in Nat /\ c >= 65
    BY DEF Letters
  <2>2. \A c \in Digits : c \in Nat /\ c <= 57
    BY DEF Digits
  <2> QED  BY <2>1, <2>2
<1>3. ASSUME NEW m
      PROVE  /\ m \in Markers => m \in DOMAIN subtags /\ Len(subtags[m]) = 1
             /\ m \in Singletons =>
                  m \in DOMAIN subtags /\ Len(subtags[m]) = 1 /\ m \notin Markers
             /\ m \in ExtendedParts => m \in DOMAIN subtags /\ Len(subtags[m]) >= 2
             /\ m \in Variants =>
                  /\ m \in DOMAIN subtags
                  /\ Len(subtags[m]) >= 5 \/ (Len(subtags[m]) = 4 /\ subtags[m][1] \in Digits)
             /\ m \in Regions =>
                  /\ m \in DOMAIN subtags
                  /\ Len(subtags[m]) = 2 \/ (Len(subtags[m]) = 3 /\ subtags[m][1] \in Digits)
             /\ m \in ScriptParts =>
                  m \in DOMAIN subtags /\ Len(subtags[m]) = 4 /\ subtags[m][1] \in Letters
             /\ m \in Extlangs =>
                  m \in DOMAIN subtags /\ Len(subtags[m]) = 3 /\ subtags[m][1] \in Letters
             /\ m \in DOMAIN subtags => Len(subtags[m]) \in Nat
  BY <1>1 DEF SizedByClass, Markers, Singletons, ExtendedParts, Variants, Regions, ScriptParts, Extlangs
<1>4. ASSUME NEW m
      PROVE  /\ m \in Markers => m \notin Singletons /\ m \notin ExtendedParts
             /\ m \in Singletons => m \notin ExtendedParts
             /\ m \in Variants => m \notin Singletons /\ m \notin Markers
             /\ m \in Regions => m \notin Variants /\ m \notin Singletons /\ m \notin Markers
             /\ m \in ScriptParts => /\ m \notin Regions /\ m \notin Variants
                                 /\ m \notin Singletons /\ m \notin Markers
             /\ m \in Extlangs => /\ m \notin ScriptParts /\ m \notin Regions /\ m \notin Variants
                                  /\ m \notin Singletons /\ m \notin Markers
  <2> DEFINE l == Len(subtags[m])
             c == subtags[m][1]
  <2>1. /\ m \in Markers => l = 1
        /\ m \in Singletons => l = 1 /\ m \notin Markers
        /\ m \in ExtendedParts => l \in Nat /\ l >= 2
        /\ m \in Variants => l \in Nat /\ (l >= 5 \/ (l = 4 /\ c \in Digits))
        /\ m \in Regions => l = 2 \/ (l = 3 /\ c \in Digits)
        /\ m \in ScriptParts => l = 4 /\ c \in Letters
        /\ m \in Extlangs => l = 3 /\ c \in Letters
    BY <1>3
  <2>2. ~ (c \in Letters /\ c \in Digits)
    BY <1>2
  <2> HIDE DEF l, c
  <2> QED  BY ONLY <2>1, <2>2, SMT
<1> QED  BY <1>4, Zenon DEF Classes, Disjoint

----------------------------------------------------------------------------
(* The pass, by the positions its parts end behind                         *)

N == Len(subtags)

\* b is behind the members of C from at on, limit of them at most.
EndsAt(C, at, limit, b) ==
  /\ b \in at .. N + 1 /\ b <= at + limit
  /\ \A m \in at .. N + 1 : m < b => m \in C
  /\ b = N + 1 \/ b = at + limit \/ b \notin C

LEMMA EndFound ==
  ASSUME N \in Nat, NEW C, NEW at \in 1 .. N + 1, NEW limit \in Nat
  PROVE  EndsAt(C, at, limit, Min({m \in at .. N + 1 : m > N \/ m = at + limit \/ m \notin C}))
<1> DEFINE S == {m \in at .. N + 1 : m > N \/ m = at + limit \/ m \notin C}
<1>1. S \in SUBSET Nat /\ N + 1 \in S
  OBVIOUS
<1>2. \A m \in at .. N + 1 : m \notin S => m \in C /\ m # at + limit
  OBVIOUS
<1>3. \A m \in S : m \in at .. N + 1 /\ (m = N + 1 \/ m = at + limit \/ m \notin C)
  OBVIOUS
<1> HIDE DEF S
<1>4. Min(S) \in S /\ \A m \in S : Min(S) <= m
  <2>1. \E k \in S : \A m \in S : k <= m
    BY <1>1, LeastMember
  <2> QED  BY <2>1 DEF Min
<1> DEFINE b == Min(S)
<1> HIDE DEF b
<1>5. b \in S /\ \A m \in S : b <= m
  BY <1>4 DEF b
<1>6. \A m \in at .. N + 1 : m < b => m \in C /\ m # at + limit
  BY <1>1, <1>2, <1>3, <1>5
<1>7. b <= at + limit
  <2> SUFFICES ASSUME at + limit < b PROVE FALSE
    BY <1>3, <1>5
  <2>1. at + limit \in at .. N + 1
    BY <1>3, <1>5
  <2> QED  BY <1>6, <2>1
<1>8. EndsAt(C, at, limit, b)
  BY <1>3, <1>5, <1>6, <1>7 DEF EndsAt
<1> QED  BY <1>8 DEF b, S

\* There is one such position.
LEMMA EndUnique ==
  ASSUME N \in Nat, NEW C, NEW at \in 1 .. N + 1, NEW limit \in Nat, NEW a, NEW b,
         EndsAt(C, at, limit, a), EndsAt(C, at, limit, b)
  PROVE  a = b
BY DEF EndsAt

LEMMA BehindEnds ==
  ASSUME N \in Nat, subtags \in Seq(Samples), NEW at \in 1 .. N + 1, NEW limit \in Nat
  PROVE  /\ EndsAt(Extlangs, at, limit, Behind(subtags, at, limit, IsExtlang))
         /\ EndsAt(ScriptParts, at, limit, Behind(subtags, at, limit, IsScript))
         /\ EndsAt(Regions, at, limit, Behind(subtags, at, limit, IsRegion))
         /\ EndsAt(Variants, at, limit, Behind(subtags, at, limit, IsVariant))
         /\ EndsAt(ExtendedParts, at, limit, Behind(subtags, at, limit, IsExtended))
<1> DEFINE Ends(C) == {m \in at .. N + 1 : m > N \/ m = at + limit \/ m \notin C}
<1>1. DOMAIN subtags = 1 .. N
  BY DEF N
<1>2. \A m \in at .. N + 1 : m > N \/ m \in DOMAIN subtags
  BY <1>1
<1>3. Ends(Extlangs) =
        {m \in at .. N + 1 : m > N \/ m = at + limit \/ ~ IsExtlang(subtags[m])}
  BY <1>2, Zenon DEF Extlangs
<1>4. Ends(ScriptParts) =
        {m \in at .. N + 1 : m > N \/ m = at + limit \/ ~ IsScript(subtags[m])}
  BY <1>2, Zenon DEF ScriptParts
<1>5. Ends(Regions) =
        {m \in at .. N + 1 : m > N \/ m = at + limit \/ ~ IsRegion(subtags[m])}
  BY <1>2, Zenon DEF Regions
<1>6. Ends(Variants) =
        {m \in at .. N + 1 : m > N \/ m = at + limit \/ ~ IsVariant(subtags[m])}
  BY <1>2, Zenon DEF Variants
<1>7. Ends(ExtendedParts) =
        {m \in at .. N + 1 : m > N \/ m = at + limit \/ ~ IsExtended(subtags[m])}
  BY <1>2, Zenon DEF ExtendedParts
<1>8. \A C : EndsAt(C, at, limit, Min(Ends(C)))
  BY EndFound
<1> HIDE DEF Ends
<1>9. /\ Behind(subtags, at, limit, IsExtlang) = Min(Ends(Extlangs))
      /\ Behind(subtags, at, limit, IsScript) = Min(Ends(ScriptParts))
      /\ Behind(subtags, at, limit, IsRegion) = Min(Ends(Regions))
      /\ Behind(subtags, at, limit, IsVariant) = Min(Ends(Variants))
      /\ Behind(subtags, at, limit, IsExtended) = Min(Ends(ExtendedParts))
  BY <1>3, <1>4, <1>5, <1>6, <1>7, Zenon DEF Behind, N
<1> QED  BY <1>8, <1>9, Zenon

----------------------------------------------------------------------------
(* Extensions                                                              *)

NextHead(m) == Behind(subtags, m + 1, N, IsExtended)

ExtensionsStep(f, m) ==
  IF m > N \/ m \notin Singletons THEN m
  ELSE IF NextHead(m) = m + 1 THEN 0
  ELSE f[NextHead(m)]

ExtensionsTable(k, f) == f = [m \in k .. N + 1 |-> ExtensionsStep(f, m)]

\* The recursion over the extensions has a solution: extend that of one
\* position later.
LEMMA ExtensionsTableExists ==
  ASSUME N \in Nat, subtags \in Seq(Samples)
  PROVE  \E f : ExtensionsTable(1, f)
<1> DEFINE S == {k \in Nat : k <= N + 1 => \E f : ExtensionsTable((N + 2) - k, f)}
<1>1. 0 \in S
  <2> DEFINE f == [m \in N + 2 .. N + 1 |-> 0]
  <2>1. (N + 2) - 0 = N + 2 /\ N + 2 .. N + 1 = {}
    OBVIOUS
  <2>2. ExtensionsTable(N + 2, f)
    BY <2>1 DEF ExtensionsTable
  <2> HIDE DEF f
  <2> QED  BY <2>1, <2>2
<1>2. ASSUME NEW k \in Nat, k \in S PROVE k + 1 \in S
  <2> SUFFICES ASSUME k + 1 <= N + 1
               PROVE  \E f : ExtensionsTable((N + 2) - (k + 1), f)
    OBVIOUS
  <2> DEFINE from == (N + 2) - (k + 1)
  <2>1. from \in 1 .. N + 1 /\ (N + 2) - k = from + 1
    OBVIOUS
  <2>2. PICK f : ExtensionsTable(from + 1, f)
    BY <1>2, <2>1
  <2> HIDE DEF from, S
  <2>3. \A m \in from .. N + 1 : m <= N => NextHead(m) \in from + 1 .. N + 1 /\ NextHead(m) > m
    <3> SUFFICES ASSUME NEW m \in from .. N + 1, m <= N
                 PROVE  NextHead(m) \in from + 1 .. N + 1 /\ NextHead(m) > m
      OBVIOUS
    <3>1. m + 1 \in 1 .. N + 1
      BY <2>1
    <3>2. EndsAt(ExtendedParts, m + 1, N, NextHead(m))
      BY <3>1, BehindEnds DEF NextHead
    <3> QED  BY <2>1, <3>1, <3>2 DEF EndsAt
  <2> DEFINE g == [m \in from .. N + 1 |-> ExtensionsStep(f, m)]
  <2>4. \A m \in from + 1 .. N + 1 : f[m] = ExtensionsStep(f, m)
    BY <2>2 DEF ExtensionsTable
  <2>5. \A m \in from + 1 .. N + 1 : g[m] = f[m]
    BY <2>1, <2>4
  <2> HIDE DEF g
  <2>6. ASSUME NEW m \in from .. N + 1
        PROVE  ExtensionsStep(g, m) = ExtensionsStep(f, m)
    <3>1. CASE m > N
      BY <3>1 DEF ExtensionsStep
    <3>2. CASE ~ (m > N)
      <4>1. m <= N
        BY <2>1, <3>2
      <4>2. g[NextHead(m)] = f[NextHead(m)]
        BY <2>3, <2>5, <4>1
      <4> QED  BY <4>2 DEF ExtensionsStep
    <3> QED  BY <3>1, <3>2
  <2>7. g = [m \in from .. N + 1 |-> ExtensionsStep(g, m)]
    BY <2>6 DEF g
  <2> QED  BY <2>7 DEF ExtensionsTable, from
<1> HIDE DEF S
<1>3. N + 1 \in S
  BY <1>1, <1>2, NaturalSteps
<1> QED  BY <1>3 DEF S

LEMMA BehindExtensionsSteps ==
  ASSUME N \in Nat, subtags \in Seq(Samples)
  PROVE  \E f : /\ \A m \in 1 .. N + 1 : /\ f[m] = ExtensionsStep(f, m)
                                         /\ f[m] = BehindExtensions(subtags, m)
<1> DEFINE f == CHOOSE f : ExtensionsTable(1, f)
<1>1. ExtensionsTable(1, f)
  BY ExtensionsTableExists
<1>2. \A m \in 1 .. N + 1 : f[m] = ExtensionsStep(f, m)
  <2> HIDE DEF f
  <2> QED  BY <1>1 DEF ExtensionsTable
<1>3. \A m \in 1 .. N + 1 : m \notin Singletons <=> m > N \/ ~ IsSingleton(subtags[m])
  BY DEF Singletons, N
<1>4. \A g : \A m \in 1 .. N + 1 :
        ExtensionsStep(g, m) =
          LET next == Behind(subtags, m + 1, Len(subtags), IsExtended)
          IN  IF m > Len(subtags) \/ ~IsSingleton(subtags[m]) THEN m
              ELSE IF next = m + 1 THEN 0
              ELSE g[next]
  BY <1>3, Zenon DEF ExtensionsStep, NextHead, N
<1>5. \A g : ExtensionsTable(1, g) <=>
        g = [n \in 1 .. Len(subtags) + 1 |->
              LET next == Behind(subtags, n + 1, Len(subtags), IsExtended)
              IN  IF n > Len(subtags) \/ ~IsSingleton(subtags[n]) THEN n
                  ELSE IF next = n + 1 THEN 0
                  ELSE g[next]]
  BY <1>4, Zenon DEF ExtensionsTable, N
<1>6. \A m : BehindExtensions(subtags, m) = f[m]
  BY <1>5, Zenon DEF BehindExtensions
<1> HIDE DEF f
<1> QED  BY <1>2, <1>6

\* The extensions of the grammar, by positions.
ExtensionsAt(from, to) ==
  /\ from < to => from + 1 \in Singletons
  /\ \A m \in from + 1 .. to : m \in Singletons \/ m \in ExtendedParts
  /\ \A m \in from + 1 .. to : m \in Singletons => m < to /\ m + 1 \notin Singletons

LEMMA ExtensionsPlaced ==
  ASSUME N \in Nat, subtags \in Seq(Samples), NEW from \in 0 .. N, NEW to \in 0 .. N
  PROVE  Extensions(from, to) <=> ExtensionsAt(from, to)
<1> DEFINE Heads == {m \in from + 1 .. to : IsSingleton(subtags[m])}
<1>1. \A m \in from + 1 .. to : m \in DOMAIN subtags
  BY DEF N
<1>2. \A m \in from + 1 .. to : /\ m \in Heads <=> m \in Singletons
                                /\ IsExtended(subtags[m]) <=> m \in ExtendedParts
  BY <1>1, Zenon DEF Singletons, ExtendedParts
<1>3. Heads \subseteq from + 1 .. to
  OBVIOUS
<1>4. Extensions(from, to) <=>
        /\ from < to => from + 1 \in Heads
        /\ \A m \in from + 1 .. to : m \in Heads \/ IsExtended(subtags[m])
        /\ \A m \in Heads : m < to /\ m + 1 \notin Heads
  BY DEF Extensions
<1> HIDE DEF Heads
<1>5. from < to => from + 1 \in from + 1 .. to
  OBVIOUS
<1>6. \A m \in from + 1 .. to : m < to => m + 1 \in from + 1 .. to
  OBVIOUS
<1>7. (from < to => from + 1 \in Heads) <=> (from < to => from + 1 \in Singletons)
  BY <1>2, <1>5, Zenon
<1>8. (\A m \in from + 1 .. to : m \in Heads \/ IsExtended(subtags[m]))
        <=> (\A m \in from + 1 .. to : m \in Singletons \/ m \in ExtendedParts)
  BY <1>2, Zenon
<1>9. (\A m \in Heads : m < to /\ m + 1 \notin Heads)
        <=> (\A m \in from + 1 .. to : m \in Singletons => m < to /\ m + 1 \notin Singletons)
  <2>1. ASSUME NEW m \in from + 1 .. to
        PROVE  (m \in Heads => m < to /\ m + 1 \notin Heads)
                 <=> (m \in Singletons => m < to /\ m + 1 \notin Singletons)
    BY <1>2, <1>6, Zenon
  <2> QED  BY <1>3, <2>1, Zenon
<1> QED  BY <1>4, <1>7, <1>8, <1>9, Zenon DEF ExtensionsAt

\* A solution ends behind extensions, unless it finds an empty one.
LEMMA ExtensionsFound ==
  ASSUME N \in Nat, subtags \in Seq(Samples), Classes,
         NEW f, \A m \in 1 .. N + 1 : f[m] = ExtensionsStep(f, m),
         NEW at \in 1 .. N + 1, f[at] # 0
  PROVE  f[at] \in at .. N + 1 /\ ExtensionsAt(at - 1, f[at] - 1)
<1> DEFINE FoundTo(m) == f[m] # 0 => f[m] \in m .. N + 1 /\ ExtensionsAt(m - 1, f[m] - 1)
           S == {k \in Nat : \A m \in 1 .. N + 1 : m + k >= N + 1 => FoundTo(m)}
<1>1. ASSUME NEW m \in 1 .. N + 1, f[m] = m PROVE FoundTo(m)
  BY <1>1 DEF ExtensionsAt
<1>2. 0 \in S
  <2>1. ASSUME NEW m \in 1 .. N + 1, m + 0 >= N + 1 PROVE FoundTo(m)
    <3>1. m > N
      BY <2>1
    <3>2. f[m] = m
      BY <3>1 DEF ExtensionsStep
    <3> HIDE DEF FoundTo
    <3> QED  BY <1>1, <3>2
  <2> HIDE DEF FoundTo
  <2> QED  BY <2>1
<1>3. ASSUME NEW k \in Nat, k \in S PROVE k + 1 \in S
  <2>1. ASSUME NEW m \in 1 .. N + 1, m + (k + 1) >= N + 1, f[m] # 0, f[m] # m
        PROVE  f[m] \in m .. N + 1 /\ ExtensionsAt(m - 1, f[m] - 1)
    <3> DEFINE next == NextHead(m)
    <3>1. m <= N /\ m \in Singletons /\ next # m + 1 /\ f[m] = f[next]
      BY <2>1 DEF ExtensionsStep
    <3>2. EndsAt(ExtendedParts, m + 1, N, next)
      <4>1. m + 1 \in 1 .. N + 1
        BY <3>1
      <4> QED  BY <4>1, BehindEnds DEF NextHead
    <3> HIDE DEF next
    <3>3. /\ next \in 1 .. N + 1 /\ next >= m + 2 /\ next + k >= N + 1
          /\ \A i \in m + 1 .. N + 1 : i < next => i \in ExtendedParts
      BY <2>1, <3>1, <3>2 DEF EndsAt
    <3> DEFINE r == f[m]
    <3>4. r \in next .. N + 1 /\ ExtensionsAt(next - 1, r - 1)
      BY <1>3, <2>1, <3>1, <3>3
    <3> HIDE DEF r, S, FoundTo
    <3>5. \A i : i \in ExtendedParts => i \notin Singletons
      BY Zenon DEF Classes, Disjoint
    <3>6. ASSUME NEW i \in m .. r - 1
          PROVE  /\ i \in Singletons \/ i \in ExtendedParts
                 /\ i \in Singletons => i < r - 1 /\ i + 1 \notin Singletons
      <4>1. CASE i = m
        <5>1. m + 1 \in ExtendedParts /\ m < r - 1
          BY <3>3, <3>4
        <5> QED  BY <3>1, <3>5, <4>1, <5>1
      <4>2. CASE i # m /\ i < next
        <5>1. i \in ExtendedParts
          BY <3>3, <3>4, <4>2
        <5> QED  BY <3>5, <5>1
      <4>3. CASE i >= next
        <5>1. i \in (next - 1) + 1 .. r - 1
          BY <3>3, <3>4, <4>3
        <5> QED  BY <3>4, <5>1 DEF ExtensionsAt
      <4> QED  BY <3>3, <3>4, <4>1, <4>2, <4>3
    <3>7. (m - 1) + 1 = m
      OBVIOUS
    <3>8. ExtensionsAt(m - 1, r - 1)
      BY <3>1, <3>6, <3>7 DEF ExtensionsAt
    <3>9. r \in m .. N + 1
      BY <3>3, <3>4
    <3> QED  BY <3>8, <3>9 DEF r
  <2> SUFFICES ASSUME NEW m \in 1 .. N + 1, m + (k + 1) >= N + 1 PROVE FoundTo(m)
    OBVIOUS
  <2>2. CASE f[m] = m
    <3> HIDE DEF FoundTo
    <3> QED  BY <1>1, <2>2
  <2> QED  BY <2>1, <2>2
<1> HIDE DEF S
<1>4. N \in S
  BY <1>2, <1>3, NaturalSteps
<1>5. FoundTo(at)
  BY <1>4 DEF S
<1> QED  BY <1>5

\* Whatever extensions the grammar sees before the end or a private use part,
\* a solution ends behind them.
LEMMA ExtensionsTaken ==
  ASSUME N \in Nat, subtags \in Seq(Samples), Classes,
         NEW f, \A m \in 1 .. N + 1 : f[m] = ExtensionsStep(f, m),
         NEW at \in 1 .. N + 1, NEW to \in at - 1 .. N,
         ExtensionsAt(at - 1, to), to = N \/ to + 1 \in Markers
  PROVE  f[at] = to + 1
<1> DEFINE TakenTo(m) == m <= to + 1 /\ ExtensionsAt(m - 1, to) => f[m] = to + 1
           S == {k \in Nat : \A m \in 1 .. N + 1 : m + k >= N + 1 => TakenTo(m)}
<1>0. /\ \A i : i \in ExtendedParts => i \notin Singletons
      /\ \A i : i \in Markers => i \notin Singletons /\ i \notin ExtendedParts
  BY Zenon DEF Classes, Disjoint
<1>1. ASSUME NEW m \in 1 .. N + 1, m = to + 1 PROVE f[m] = to + 1
  <2>1. m > N \/ m \notin Singletons
    BY <1>0, <1>1
  <2> QED  BY <1>1, <2>1 DEF ExtensionsStep
<1>2. 0 \in S
  <2>1. ASSUME NEW m \in 1 .. N + 1, m + 0 >= N + 1, m <= to + 1 PROVE m = to + 1
    BY <2>1
  <2> QED  BY <1>1, <2>1
<1>3. ASSUME NEW k \in Nat, k \in S PROVE k + 1 \in S
  <2> SUFFICES ASSUME NEW m \in 1 .. N + 1, m + (k + 1) >= N + 1,
                      m <= to + 1, ExtensionsAt(m - 1, to)
               PROVE  f[m] = to + 1
    OBVIOUS
  <2>1. CASE m = to + 1
    BY <1>1, <2>1
  <2>2. CASE m <= to
    <3>1. (m - 1) + 1 = m /\ m - 1 < to /\ m \in m .. to /\ m <= N
      BY <2>2
    <3>2. m \in Singletons
      BY <3>1 DEF ExtensionsAt
    <3>3. m < to /\ m + 1 \notin Singletons
      BY <3>1, <3>2 DEF ExtensionsAt
    <3>4. m + 1 \in ExtendedParts
      <4>1. m + 1 \in m .. to
        BY <3>3
      <4> QED  BY <3>1, <3>3, <4>1 DEF ExtensionsAt
    <3> DEFINE next == NextHead(m)
    <3>5. EndsAt(ExtendedParts, m + 1, N, next)
      <4>1. m + 1 \in 1 .. N + 1
        BY <3>1
      <4> QED  BY <4>1, BehindEnds DEF NextHead
    <3>6. f[m] = IF next = m + 1 THEN 0 ELSE f[next]
      BY <3>1, <3>2 DEF ExtensionsStep
    <3> HIDE DEF next, S
    <3>7. /\ next \in m + 1 .. N + 1
          /\ \A i \in m + 1 .. N + 1 : i < next => i \in ExtendedParts
          /\ next = N + 1 \/ next \notin ExtendedParts
      BY <3>1, <3>5 DEF EndsAt
    <3>8. next # m + 1
      BY <3>3, <3>4, <3>7
    <3>9. next <= to + 1
      <4> SUFFICES ASSUME next > to + 1 PROVE FALSE
        BY <3>7
      <4>1. to + 1 \in m + 1 .. N + 1 /\ to + 1 < next /\ to # N
        BY <3>1, <3>3, <3>7
      <4>2. to + 1 \in ExtendedParts /\ to + 1 \in Markers
        BY <3>7, <4>1
      <4> QED  BY <1>0, <4>2
    <3>10. ExtensionsAt(next - 1, to)
      <4>1. (next - 1) + 1 = next /\ \A i \in next .. to : i \in m .. to
        BY <3>7
      <4>2. next - 1 < to => next \in Singletons
        <5> SUFFICES ASSUME next - 1 < to PROVE next \in Singletons
          OBVIOUS
        <5>1. next \in m .. to /\ next # N + 1
          BY <3>7
        <5> QED  BY <3>1, <3>7, <5>1 DEF ExtensionsAt
      <4>3. \A i \in m .. to : /\ i \in Singletons \/ i \in ExtendedParts
                               /\ i \in Singletons => i < to /\ i + 1 \notin Singletons
        BY <3>1 DEF ExtensionsAt
      <4> QED  BY <4>1, <4>2, <4>3 DEF ExtensionsAt
    <3>11. next \in 1 .. N + 1 /\ next + k >= N + 1
      BY <3>7, <3>8
    <3>12. f[next] = to + 1
      BY <1>3, <3>9, <3>10, <3>11 DEF S
    <3> QED  BY <3>6, <3>8, <3>12
  <2> QED  BY <2>1, <2>2
<1> HIDE DEF S
<1>4. N \in S
  BY <1>2, <1>3, NaturalSteps
<1>5. TakenTo(at)
  BY <1>4 DEF S
<1> QED  BY <1>5

----------------------------------------------------------------------------
(* The pass and the grammar                                                *)

\* Where the pass stops: l, s, r and v are the positions behind the extlangs,
\* the script, the region and the variants, x that behind the extensions.
Pass(l, s, r, v, x) ==
  /\ IF Len(subtags[1]) <= 3 THEN EndsAt(Extlangs, 2, 3, l) ELSE l = 2
  /\ EndsAt(ScriptParts, l, 1, s)
  /\ EndsAt(Regions, s, 1, r)
  /\ EndsAt(Variants, r, N, v)
  /\ v = BehindVariants(subtags)
  /\ x = BehindExtensions(subtags, v)

LEMMA PassEnds ==
  ASSUME TagTypeOK
  PROVE  \E l, s, r \in 2 .. N + 1 : \E v \in 2 .. N + 1 :
           Pass(l, s, r, v, BehindExtensions(subtags, v))
<1>1. N \in Nat /\ N >= 1 /\ subtags \in Seq(Samples)
  BY DEF TagTypeOK, N
<1> DEFINE l == IF Len(subtags[1]) <= 3 THEN Behind(subtags, 2, 3, IsExtlang) ELSE 2
           s == Behind(subtags, l, 1, IsScript)
           r == Behind(subtags, s, 1, IsRegion)
           v == Behind(subtags, r, N, IsVariant)
<1>2. v = BehindVariants(subtags)
  BY DEF BehindVariants, N
<1>3. \A at \in 2 .. N + 1 : \A limit \in Nat :
        /\ at \in 1 .. N + 1
        /\ EndsAt(Extlangs, at, limit, Behind(subtags, at, limit, IsExtlang))
        /\ EndsAt(ScriptParts, at, limit, Behind(subtags, at, limit, IsScript))
        /\ EndsAt(Regions, at, limit, Behind(subtags, at, limit, IsRegion))
        /\ EndsAt(Variants, at, limit, Behind(subtags, at, limit, IsVariant))
  BY <1>1, BehindEnds
<1>4. \A C : \A at \in 2 .. N + 1 : \A limit, b : EndsAt(C, at, limit, b) => b \in 2 .. N + 1
  BY <1>1 DEF EndsAt
<1>5. 2 \in 2 .. N + 1 /\ 3 \in Nat /\ 1 \in Nat
  BY <1>1
<1>6. /\ IF Len(subtags[1]) <= 3 THEN EndsAt(Extlangs, 2, 3, l) ELSE l = 2
      /\ l \in 2 .. N + 1
  BY <1>3, <1>4, <1>5
<1> HIDE DEF l
<1>7. EndsAt(ScriptParts, l, 1, s) /\ s \in 2 .. N + 1
  BY <1>3, <1>4, <1>5, <1>6
<1> HIDE DEF s
<1>8. EndsAt(Regions, s, 1, r) /\ r \in 2 .. N + 1
  BY <1>3, <1>4, <1>5, <1>7
<1> HIDE DEF r
<1>9. EndsAt(Variants, r, N, v) /\ v \in 2 .. N + 1
  BY <1>1, <1>3, <1>4, <1>8
<1> HIDE DEF v
<1>10. Pass(l, s, r, v, BehindExtensions(subtags, v))
  BY <1>2, <1>6, <1>7, <1>8, <1>9 DEF Pass
<1> QED  BY <1>6, <1>7, <1>8, <1>9, <1>10

\* The grammar, by positions.
Parse(l, s, r, v, x) ==
  /\ \/ l \in 1 .. 4 /\ IsAlpha(subtags[1], 2, 3) /\ \A m \in 2 .. l : m \in Extlangs
     \/ l = 1 /\ IsAlpha(subtags[1], 4, 8)
  /\ s <= l + 1 /\ \A m \in l + 1 .. s : m \in ScriptParts
  /\ r <= s + 1 /\ \A m \in s + 1 .. r : m \in Regions
  /\ \A m \in r + 1 .. v : m \in Variants
  /\ ExtensionsAt(v, x)
  /\ x = N \/ PrivateUse(x)

LEMMA LangtagPlaced ==
  ASSUME N \in Nat, subtags \in Seq(Samples)
  PROVE  Langtag <=>
           \E l \in 1 .. N : \E s \in l .. N : \E r \in s .. N : \E v \in r .. N :
             \E x \in v .. N : Parse(l, s, r, v, x)
<1>1. DOMAIN subtags = 1 .. N
  BY DEF N
<1>2. ASSUME NEW from \in 1 .. N, NEW to \in from .. N
      PROVE  /\ Each(from, to, IsExtlang) <=> \A m \in from + 1 .. to : m \in Extlangs
             /\ Each(from, to, IsScript) <=> \A m \in from + 1 .. to : m \in ScriptParts
             /\ Each(from, to, IsRegion) <=> \A m \in from + 1 .. to : m \in Regions
             /\ Each(from, to, IsVariant) <=> \A m \in from + 1 .. to : m \in Variants
  <2>1. \A m \in from + 1 .. to : m \in DOMAIN subtags
    BY <1>1
  <2>2. \A m \in from + 1 .. to : /\ IsExtlang(subtags[m]) <=> m \in Extlangs
                                  /\ IsScript(subtags[m]) <=> m \in ScriptParts
                                  /\ IsRegion(subtags[m]) <=> m \in Regions
                                  /\ IsVariant(subtags[m]) <=> m \in Variants
    BY <2>1, Zenon DEF Extlangs, ScriptParts, Regions, Variants
  <2> QED  BY <2>2, Zenon DEF Each
<1>3. ASSUME NEW l \in 1 .. N, NEW s \in l .. N, NEW r \in s .. N, NEW v \in r .. N,
             NEW x \in v .. N
      PROVE  Parse(l, s, r, v, x) <=>
               /\ Language(l)
               /\ AtMostOne(l, s, IsScript) /\ AtMostOne(s, r, IsRegion)
               /\ Each(r, v, IsVariant) /\ Extensions(v, x)
               /\ x = N \/ PrivateUse(x)
  <2>1. /\ s \in 1 .. N /\ r \in 1 .. N /\ v \in 0 .. N /\ x \in 0 .. N
        /\ 1 \in 1 .. N /\ l \in 1 .. N /\ 1 + 1 = 2
    OBVIOUS
  <2>2. Language(l) <=>
          \/ l \in 1 .. 4 /\ IsAlpha(subtags[1], 2, 3) /\ \A m \in 2 .. l : m \in Extlangs
          \/ l = 1 /\ IsAlpha(subtags[1], 4, 8)
    <3>1. Each(1, l, IsExtlang) <=> \A m \in 2 .. l : m \in Extlangs
      BY <1>2, <2>1
    <3> QED  BY <3>1, Zenon DEF Language
  <2>3. AtMostOne(l, s, IsScript) <=> s <= l + 1 /\ \A m \in l + 1 .. s : m \in ScriptParts
    BY <1>2, Zenon DEF AtMostOne
  <2>4. AtMostOne(s, r, IsRegion) <=> r <= s + 1 /\ \A m \in s + 1 .. r : m \in Regions
    BY <1>2, <2>1, Zenon DEF AtMostOne
  <2>5. Each(r, v, IsVariant) <=> \A m \in r + 1 .. v : m \in Variants
    BY <1>2, <2>1
  <2>6. Extensions(v, x) <=> ExtensionsAt(v, x)
    BY <2>1, ExtensionsPlaced
  <2> QED  BY <2>2, <2>3, <2>4, <2>5, <2>6, Zenon DEF Parse
<1>4. Langtag <=>
        \E l \in 1 .. N : Language(l) /\
          \E s \in l .. N : AtMostOne(l, s, IsScript) /\
            \E r \in s .. N : AtMostOne(s, r, IsRegion) /\
              \E v \in r .. N : Each(r, v, IsVariant) /\
                \E x \in v .. N : Extensions(v, x) /\ (x = N \/ PrivateUse(x))
  BY <1>1, Zenon DEF Langtag, N
<1>5. ASSUME Langtag
      PROVE  \E l \in 1 .. N : \E s \in l .. N : \E r \in s .. N : \E v \in r .. N :
               \E x \in v .. N : Parse(l, s, r, v, x)
  <2>1. PICK l \in 1 .. N : Language(l) /\
          \E s \in l .. N : AtMostOne(l, s, IsScript) /\
            \E r \in s .. N : AtMostOne(s, r, IsRegion) /\
              \E v \in r .. N : Each(r, v, IsVariant) /\
                \E x \in v .. N : Extensions(v, x) /\ (x = N \/ PrivateUse(x))
    BY <1>4, <1>5, Zenon
  <2>2. PICK s \in l .. N : AtMostOne(l, s, IsScript) /\
          \E r \in s .. N : AtMostOne(s, r, IsRegion) /\
            \E v \in r .. N : Each(r, v, IsVariant) /\
              \E x \in v .. N : Extensions(v, x) /\ (x = N \/ PrivateUse(x))
    BY <2>1, Zenon
  <2>3. PICK r \in s .. N : AtMostOne(s, r, IsRegion) /\
          \E v \in r .. N : Each(r, v, IsVariant) /\
            \E x \in v .. N : Extensions(v, x) /\ (x = N \/ PrivateUse(x))
    BY <2>2, Zenon
  <2>4. PICK v \in r .. N : Each(r, v, IsVariant) /\
          \E x \in v .. N : Extensions(v, x) /\ (x = N \/ PrivateUse(x))
    BY <2>3, Zenon
  <2>5. PICK x \in v .. N : Extensions(v, x) /\ (x = N \/ PrivateUse(x))
    BY <2>4, Zenon
  <2>6. Parse(l, s, r, v, x)
    BY <1>3, <2>1, <2>2, <2>3, <2>4, <2>5, Zenon
  <2> QED  BY <2>6, Zenon
<1>6. ASSUME NEW l \in 1 .. N, NEW s \in l .. N, NEW r \in s .. N, NEW v \in r .. N,
             NEW x \in v .. N, Parse(l, s, r, v, x)
      PROVE  Langtag
  <2>1. /\ Language(l)
        /\ AtMostOne(l, s, IsScript) /\ AtMostOne(s, r, IsRegion)
        /\ Each(r, v, IsVariant) /\ Extensions(v, x)
        /\ x = N \/ PrivateUse(x)
    BY <1>3, <1>6, Zenon
  <2>2. \E m \in r .. N : Each(r, m, IsVariant) /\
          \E y \in m .. N : Extensions(m, y) /\ (y = N \/ PrivateUse(y))
    BY <2>1, Zenon
  <2>3. \E m \in s .. N : AtMostOne(s, m, IsRegion) /\
          \E w \in m .. N : Each(m, w, IsVariant) /\
            \E y \in w .. N : Extensions(w, y) /\ (y = N \/ PrivateUse(y))
    BY <2>1, <2>2, Zenon
  <2>4. \E k \in l .. N : AtMostOne(l, k, IsScript) /\
          \E m \in k .. N : AtMostOne(k, m, IsRegion) /\
            \E w \in m .. N : Each(m, w, IsVariant) /\
              \E y \in w .. N : Extensions(w, y) /\ (y = N \/ PrivateUse(y))
    BY <2>1, <2>3, Zenon
  <2> QED  BY <1>4, <2>1, <2>4, Zenon
<1> QED  BY <1>5, <1>6, Zenon

\* The pass accepts what the grammar has, and nothing else.
PassAcceptsGrammar == PassSubtags(subtags) <=> Langtag \/ PrivateUse(0)

LEMMA PassIsGrammar ==
  ASSUME TagTypeOK, SamplesAssumption
  PROVE  PassAcceptsGrammar
<1>1. N \in Nat /\ N >= 1 /\ subtags \in Seq(Samples) /\ DOMAIN subtags = 1 .. N
  BY DEF TagTypeOK, N
<1>2. Classes
  BY ClassesDisjoint
<1>3. SizedByClass(subtags[1])
  <2>1. subtags[1] \in Samples
    BY <1>1
  <2> QED  BY <2>1, SubtagSized DEF SamplesAssumption
<1>4. PrivateUse(0) <=> IsPrivateUseMarker(subtags[1]) /\ PrivateUseTail(subtags, 2)
  BY <1>1 DEF PrivateUse, PrivateUseTail, Each, N
<1>5. CASE IsPrivateUseMarker(subtags[1])
  <2>1. ~ Langtag
    <3> SUFFICES ASSUME NEW l, Language(l) PROVE FALSE
      BY Zenon DEF Langtag
    <3>1. Len(subtags[1]) = 1
      BY <1>3, <1>5 DEF SizedByClass
    <3> QED  BY <3>1 DEF Language, IsAlpha
  <2> QED  BY <1>4, <1>5, <2>1, Zenon DEF PassAcceptsGrammar, PassSubtags
<1>6. CASE ~ IsPrivateUseMarker(subtags[1])
  <2> DEFINE Ends(v) == LET x == BehindExtensions(subtags, v)
                        IN  /\ x # 0
                            /\ \/ x > N
                               \/ IsPrivateUseMarker(subtags[x]) /\ PrivateUseTail(subtags, x + 1)
  <2>1. /\ PassSubtags(subtags) <=>
             IsAlpha(subtags[1], 2, 8) /\ Ends(BehindVariants(subtags))
        /\ ~ PrivateUse(0)
    BY <1>4, <1>6, Zenon DEF PassSubtags, N
  <2>2. PICK l \in 2 .. N + 1, s \in 2 .. N + 1, r \in 2 .. N + 1, v \in 2 .. N + 1 :
          Pass(l, s, r, v, BehindExtensions(subtags, v))
    BY PassEnds
  <2> DEFINE x == BehindExtensions(subtags, v)
  <2>3. PICK f : \A m \in 1 .. N + 1 : /\ f[m] = ExtensionsStep(f, m)
                                       /\ f[m] = BehindExtensions(subtags, m)
    BY <1>1, BehindExtensionsSteps
  <2>4. f[v] = x /\ v \in 1 .. N + 1
    BY <2>3
  <2>5. PassSubtags(subtags) <=> /\ IsAlpha(subtags[1], 2, 8)
                                 /\ x # 0
                                 /\ x > N \/ (IsPrivateUseMarker(subtags[x]) /\ PrivateUseTail(subtags, x + 1))
    BY <2>1, <2>2, Zenon DEF Pass
  <2>6. Pass(l, s, r, v, x)
    BY <2>2
  <2> HIDE DEF x, Ends
  <2>7. ASSUME NEW y \in 1 .. N
        PROVE  PrivateUse(y) <=> IsPrivateUseMarker(subtags[y + 1]) /\ PrivateUseTail(subtags, (y + 1) + 1)
    BY <1>1 DEF PrivateUse, PrivateUseTail, Each, N
  <2>8. Len(subtags[1]) \in Nat
    BY <1>3 DEF SizedByClass
  <2>9. IsAlpha(subtags[1], 2, 8) <=>
          \/ IsAlpha(subtags[1], 2, 3) /\ Len(subtags[1]) <= 3
          \/ IsAlpha(subtags[1], 4, 8) /\ ~ (Len(subtags[1]) <= 3)
    <3> DEFINE k == Len(subtags[1])
               A == ToSet(subtags[1]) \subseteq Letters
    <3> HIDE DEF k, A
    <3>1. /\ IsAlpha(subtags[1], 2, 8) <=> k \in 2 .. 8 /\ A
          /\ IsAlpha(subtags[1], 2, 3) <=> k \in 2 .. 3 /\ A
          /\ IsAlpha(subtags[1], 4, 8) <=> k \in 4 .. 8 /\ A
          /\ k \in Nat
      BY <2>8 DEF IsAlpha, k, A
    <3>2. k \in 2 .. 8 /\ A <=> (k \in 2 .. 3 /\ A /\ k <= 3) \/ (k \in 4 .. 8 /\ A /\ ~ (k <= 3))
      BY <3>1
    <3>3. IsAlpha(subtags[1], 2, 8) <=>
            \/ IsAlpha(subtags[1], 2, 3) /\ k <= 3
            \/ IsAlpha(subtags[1], 4, 8) /\ ~ (k <= 3)
      BY <3>1, <3>2, Zenon
    <3> QED  BY <3>3 DEF k
  <2>10. ASSUME PassSubtags(subtags) PROVE Langtag
    <3>1. x \in v .. N + 1 /\ ExtensionsAt(v - 1, x - 1)
      BY <1>1, <1>2, <2>3, <2>4, <2>5, <2>10, ExtensionsFound
    <3>2. /\ l - 1 \in 1 .. N /\ s - 1 \in l - 1 .. N /\ r - 1 \in s - 1 .. N
          /\ v - 1 \in r - 1 .. N /\ x - 1 \in v - 1 .. N
      <4>1. l <= s /\ s <= r /\ r <= v /\ v <= x /\ x \in 2 .. N + 1
        <5>1. s \in l .. N + 1 /\ r \in s .. N + 1 /\ v \in r .. N + 1
          BY <2>6 DEF Pass, EndsAt
        <5> QED  BY <1>1, <3>1, <5>1
      <4> QED  BY <1>1, <4>1
    <3>3. \/ l - 1 \in 1 .. 4 /\ IsAlpha(subtags[1], 2, 3) /\ \A m \in 2 .. l - 1 : m \in Extlangs
          \/ l - 1 = 1 /\ IsAlpha(subtags[1], 4, 8)
      <4>1. CASE Len(subtags[1]) <= 3
        <5>1. EndsAt(Extlangs, 2, 3, l)
          BY <2>6, <4>1 DEF Pass
        <5>2. l - 1 \in 1 .. 4 /\ \A m \in 2 .. l - 1 : m \in Extlangs
          BY <1>1, <5>1 DEF EndsAt
        <5> QED  BY <2>5, <2>9, <2>10, <4>1, <5>2, Zenon
      <4>2. CASE ~ (Len(subtags[1]) <= 3)
        <5>1. l = 2
          BY <2>6, <4>2 DEF Pass
        <5>2. l - 1 = 1
          BY <5>1
        <5> QED  BY <2>5, <2>9, <2>10, <4>2, <5>2, Zenon
      <4> QED  BY <4>1, <4>2
    <3>4. s - 1 <= (l - 1) + 1 /\ \A m \in (l - 1) + 1 .. s - 1 : m \in ScriptParts
      BY <1>1, <2>6 DEF Pass, EndsAt
    <3>5. r - 1 <= (s - 1) + 1 /\ \A m \in (s - 1) + 1 .. r - 1 : m \in Regions
      BY <1>1, <2>6 DEF Pass, EndsAt
    <3>6. \A m \in (r - 1) + 1 .. v - 1 : m \in Variants
      <4>1. EndsAt(Variants, r, N, v)
        BY <2>6 DEF Pass
      <4> QED  BY <1>1, <4>1 DEF EndsAt
    <3>7. x - 1 = N \/ PrivateUse(x - 1)
      <4>1. CASE x > N
        BY <1>1, <3>1, <4>1
      <4>2. CASE ~ (x > N)
        <5>1. x - 1 \in 1 .. N /\ (x - 1) + 1 = x
          BY <1>1, <3>1, <4>2
        <5> QED  BY <2>5, <2>7, <2>10, <4>2, <5>1
      <4> QED  BY <4>1, <4>2
    <3>8. Parse(l - 1, s - 1, r - 1, v - 1, x - 1)
      BY <3>1, <3>3, <3>4, <3>5, <3>6, <3>7, Zenon DEF Parse
    <3> QED  BY <1>1, <3>2, <3>8, LangtagPlaced
  <2>11. ASSUME Langtag PROVE PassSubtags(subtags)
    <3>1. PICK l0 \in 1 .. N, s0 \in 1 .. N, r0 \in 1 .. N, v0 \in 1 .. N, x0 \in 1 .. N :
            l0 <= s0 /\ s0 <= r0 /\ r0 <= v0 /\ v0 <= x0 /\ Parse(l0, s0, r0, v0, x0)
      <4>1. PICK a \in 1 .. N : \E b \in a .. N : \E c \in b .. N : \E d \in c .. N :
                   \E y \in d .. N : Parse(a, b, c, d, y)
        BY <1>1, <2>11, LangtagPlaced
      <4>2. PICK b \in a .. N : \E c \in b .. N : \E d \in c .. N :
                   \E y \in d .. N : Parse(a, b, c, d, y)
        BY <4>1
      <4>3. PICK c \in b .. N : \E d \in c .. N : \E y \in d .. N : Parse(a, b, c, d, y)
        BY <4>2
      <4>4. PICK d \in c .. N : \E y \in d .. N : Parse(a, b, c, d, y)
        BY <4>3
      <4>5. PICK y \in d .. N : Parse(a, b, c, d, y)
        BY <4>4
      <4>6. /\ b \in 1 .. N /\ c \in 1 .. N /\ d \in 1 .. N /\ y \in 1 .. N
            /\ a <= b /\ b <= c /\ c <= d /\ d <= y
        OBVIOUS
      <4> QED  BY <4>5, <4>6
    <3>2. /\ l0 \in 1 .. N /\ s0 \in 1 .. N /\ r0 \in 1 .. N /\ v0 \in 1 .. N /\ x0 \in 1 .. N
          /\ l0 <= s0 /\ s0 <= r0 /\ r0 <= v0 /\ v0 <= x0
      BY <3>1
    <3>3. /\ s0 <= l0 + 1 /\ \A m \in l0 + 1 .. s0 : m \in ScriptParts
          /\ r0 <= s0 + 1 /\ \A m \in s0 + 1 .. r0 : m \in Regions
          /\ \A m \in r0 + 1 .. v0 : m \in Variants
          /\ ExtensionsAt(v0, x0)
      BY <3>1, Zenon DEF Parse
    <3>4. x0 = N \/ (x0 + 1 \in Markers /\ x0 + 1 \in 1 .. N /\ PrivateUse(x0))
      <4>1. ASSUME PrivateUse(x0) PROVE x0 + 1 \in Markers /\ x0 + 1 \in 1 .. N
        <5>1. x0 + 1 < N /\ IsPrivateUseMarker(subtags[x0 + 1])
          BY <4>1 DEF PrivateUse, N
        <5> QED  BY <1>1, <3>2, <5>1 DEF Markers
      <4> QED  BY <3>1, <4>1 DEF Parse
    <3>5. v0 + 1 = N + 1 \/ v0 + 1 \in Singletons \/ v0 + 1 \in Markers
      <4>1. CASE v0 = x0
        BY <3>2, <3>4, <4>1
      <4>2. CASE v0 < x0
        BY <3>3, <4>2 DEF ExtensionsAt
      <4> QED  BY <3>2, <4>1, <4>2
    <3>6. r0 + 1 \in Variants \/ r0 + 1 = N + 1 \/ r0 + 1 \in Singletons \/ r0 + 1 \in Markers
      <4>1. CASE r0 = v0
        BY <3>5, <4>1
      <4>2. CASE r0 < v0
        BY <3>2, <3>3, <4>2
      <4> QED  BY <3>2, <4>1, <4>2
    <3>7. \/ s0 + 1 \in Regions \/ s0 + 1 \in Variants \/ s0 + 1 = N + 1
          \/ s0 + 1 \in Singletons \/ s0 + 1 \in Markers
      <4>1. CASE s0 = r0
        BY <3>6, <4>1
      <4>2. CASE s0 < r0
        BY <3>2, <3>3, <4>2
      <4> QED  BY <3>2, <4>1, <4>2
    <3>8. \/ l0 + 1 \in ScriptParts \/ l0 + 1 \in Regions \/ l0 + 1 \in Variants \/ l0 + 1 = N + 1
          \/ l0 + 1 \in Singletons \/ l0 + 1 \in Markers
      <4>1. CASE l0 = s0
        BY <3>7, <4>1
      <4>2. CASE l0 < s0
        BY <3>2, <3>3, <4>2
      <4> QED  BY <3>2, <4>1, <4>2
    <3>9. l = l0 + 1 /\ IsAlpha(subtags[1], 2, 8)
      <4>1. CASE IsAlpha(subtags[1], 4, 8)
        <5>1. l0 = 1 /\ ~ (Len(subtags[1]) <= 3)
          <6>1. Len(subtags[1]) \in 4 .. 8
            BY <4>1, Zenon DEF IsAlpha
          <6>2. ~ IsAlpha(subtags[1], 2, 3)
            <7>1. ~ (Len(subtags[1]) \in 2 .. 3)
              BY ONLY <6>1, SMT
            <7> QED  BY ONLY <7>1, Zenon DEF IsAlpha
          <6>3. l0 = 1
            BY <3>1, <6>2, Zenon DEF Parse
          <6>4. ~ (Len(subtags[1]) <= 3)
            <7>1. \A k \in 4 .. 8 : ~ (k <= 3)
              OBVIOUS
            <7> QED  BY <6>1, <7>1, Zenon
          <6> QED  BY <6>3, <6>4
        <5> QED  BY <2>6, <2>9, <4>1, <5>1 DEF Pass
      <4>2. CASE ~ IsAlpha(subtags[1], 4, 8)
        <5>1. /\ l0 \in 1 .. 4 /\ IsAlpha(subtags[1], 2, 3)
              /\ \A m \in 2 .. l0 : m \in Extlangs
          BY <3>1, <4>2, Zenon DEF Parse
        <5>2. Len(subtags[1]) <= 3
          <6>1. Len(subtags[1]) \in 2 .. 3
            BY <5>1, Zenon DEF IsAlpha
          <6>2. \A k \in 2 .. 3 : k <= 3
            OBVIOUS
          <6> QED  BY <6>1, <6>2, Zenon
        <5>3. EndsAt(Extlangs, 2, 3, l)
          BY <2>6, <5>2 DEF Pass
        <5>4. l0 + 1 \notin Extlangs \/ l0 + 1 = N + 1
          BY <1>2, <3>8, Zenon DEF Classes, Disjoint
        <5>5. EndsAt(Extlangs, 2, 3, l0 + 1)
          BY <1>1, <3>2, <5>1, <5>4 DEF EndsAt
        <5>6. 2 \in 1 .. N + 1 /\ 3 \in Nat
          BY <1>1
        <5>7. l = l0 + 1
          BY <1>1, <5>3, <5>5, <5>6, EndUnique
        <5> QED  BY <2>9, <5>1, <5>2, <5>7
      <4> QED  BY <4>1, <4>2
    <3>10. s = s0 + 1
      <4>1. s0 + 1 \notin ScriptParts \/ s0 + 1 = N + 1
        BY <1>2, <3>7, Zenon DEF Classes, Disjoint
      <4>2. EndsAt(ScriptParts, l, 1, s0 + 1)
        BY <1>1, <3>2, <3>3, <3>9, <4>1 DEF EndsAt
      <4>3. EndsAt(ScriptParts, l, 1, s) /\ l \in 1 .. N + 1 /\ 1 \in Nat
        BY <2>6 DEF Pass
      <4> QED  BY <1>1, <4>2, <4>3, EndUnique
    <3>11. r = r0 + 1
      <4>1. r0 + 1 \notin Regions \/ r0 + 1 = N + 1
        BY <1>2, <3>6, Zenon DEF Classes, Disjoint
      <4>2. EndsAt(Regions, s, 1, r0 + 1)
        BY <1>1, <3>2, <3>3, <3>10, <4>1 DEF EndsAt
      <4>3. EndsAt(Regions, s, 1, r) /\ s \in 1 .. N + 1 /\ 1 \in Nat
        BY <2>6 DEF Pass
      <4> QED  BY <1>1, <4>2, <4>3, EndUnique
    <3>12. v = v0 + 1
      <4>1. v0 + 1 \notin Variants \/ v0 + 1 = N + 1
        BY <1>2, <3>5, Zenon DEF Classes, Disjoint
      <4>2. EndsAt(Variants, r, N, v0 + 1)
        BY <1>1, <3>2, <3>3, <3>11, <4>1 DEF EndsAt
      <4>3. EndsAt(Variants, r, N, v) /\ r \in 1 .. N + 1 /\ N \in Nat
        BY <1>1, <2>6 DEF Pass
      <4> QED  BY <1>1, <4>2, <4>3, EndUnique
    <3>13. x = x0 + 1
      <4>1. /\ v \in 1 .. N + 1 /\ x0 \in v - 1 .. N /\ ExtensionsAt(v - 1, x0)
            /\ x0 = N \/ x0 + 1 \in Markers
        BY <3>2, <3>3, <3>4, <3>12
      <4>2. f[v] = x0 + 1
        BY <1>1, <1>2, <2>3, <4>1, ExtensionsTaken
      <4> QED  BY <2>4, <4>2
    <3>14. x > N \/ (IsPrivateUseMarker(subtags[x]) /\ PrivateUseTail(subtags, x + 1))
      <4>1. CASE x0 = N
        BY <1>1, <3>13, <4>1
      <4>2. CASE x0 # N
        BY <2>7, <3>2, <3>4, <3>13, <4>2
      <4> QED  BY <4>1, <4>2
    <3> QED  BY <2>5, <3>2, <3>9, <3>13, <3>14
  <2> QED  BY <2>1, <2>10, <2>11 DEF PassAcceptsGrammar
<1> QED  BY <1>5, <1>6

----------------------------------------------------------------------------
(* Parting a tag at its hyphens                                            *)

Pieces == [i \in DOMAIN subtags |-> (IF i = 1 THEN <<>> ELSE <<Hyphen>>) \o subtags[i]]

\* p[k] is the place before subtag k, of its hyphen but for the first; e[k] is
\* that of its last character.
Parted(tag, p, e) ==
  /\ p \in [1 .. N -> Nat] /\ e \in [1 .. N -> Nat]
  /\ p[1] = 0 /\ e[N] = Len(tag)
  /\ \A k \in 1 .. N : /\ e[k] = p[k] + Len(subtags[k])
                       /\ \A j \in 1 .. Len(subtags[k]) : tag[p[k] + j] = subtags[k][j]
  /\ \A k \in 1 .. N - 1 : p[k + 1] = e[k] + 1
  /\ \A k \in 2 .. N : tag[p[k]] = Hyphen

LEMMA TagParted ==
  ASSUME TagTypeOK, SamplesAssumption, NEW Chars, Chars = 0 .. 255
  PROVE  Tag \in Seq(Chars) /\ \E p, e : Parted(Tag, p, e)
<1>1. N \in Nat /\ N >= 1 /\ DOMAIN subtags = 1 .. N
  BY DEF TagTypeOK, N
<1>2. Hyphen \in Chars
  BY DEF Hyphen
<1>3. \A k \in 1 .. N : subtags[k] \in Seq(Chars)
  <2> SUFFICES ASSUME NEW k \in 1 .. N PROVE subtags[k] \in Seq(Chars)
    OBVIOUS
  <2>1. subtags[k] \in Samples
    BY <1>1, SeqMember DEF TagTypeOK
  <2>2. subtags[k] \in Seq(Chars \ {Hyphen})
    BY <2>1 DEF SamplesAssumption
  <2> QED  BY ONLY <2>2
<1>4. ASSUME NEW k \in 1 .. N
      PROVE  /\ Pieces[k] \in Seq(Chars)
             /\ k = 1 => Pieces[k] = subtags[k]
             /\ k # 1 => /\ Len(Pieces[k]) = Len(subtags[k]) + 1
                         /\ Pieces[k][1] = Hyphen
                         /\ \A j \in 1 .. Len(subtags[k]) : Pieces[k][1 + j] = subtags[k][j]
  <2>1. Pieces[k] = (IF k = 1 THEN <<>> ELSE <<Hyphen>>) \o subtags[k]
    BY <1>1 DEF Pieces
  <2>2. CASE k = 1
    BY <1>3, <2>1, <2>2, ConcatEmptySeq
  <2>3. CASE k # 1
    <3>1. <<Hyphen>> \in Seq(Chars) /\ Len(<<Hyphen>>) = 1 /\ <<Hyphen>>[1] = Hyphen
      BY <1>2
    <3>2. Concatenates(Chars, <<Hyphen>>, subtags[k])
      BY <1>3, <3>1, ConcatMembers
    <3>3. Pieces[k] = <<Hyphen>> \o subtags[k]
      BY <2>1, <2>3
    <3>4. Len(subtags[k]) \in Nat
      BY <1>3
    <3> HIDE DEF Concatenates
    <3>5. /\ Len(Pieces[k]) = Len(subtags[k]) + 1 /\ Pieces[k] \in Seq(Chars)
          /\ Pieces[k][1] = Hyphen
          /\ \A j \in 1 .. Len(subtags[k]) : Pieces[k][1 + j] = subtags[k][j]
      BY <3>1, <3>2, <3>3, <3>4 DEF Concatenates
    <3> QED  BY <2>3, <3>5
  <2> QED  BY <2>2, <2>3
<1>5. Pieces \in Seq(Seq(Chars)) /\ Len(Pieces) = N /\ Tag = FlattenSeq(Pieces)
  <2>1. Pieces = [k \in 1 .. N |-> Pieces[k]]
    BY <1>1 DEF Pieces
  <2>2. Pieces \in [1 .. N -> Seq(Chars)]
    BY <1>4, <2>1
  <2>3. Tag = FlattenSeq(Pieces)
    BY DEF Tag, Pieces
  <2> QED  BY <1>1, <2>2, <2>3
<1>6. Tag \in Seq(Chars)
  BY <1>5, FlattenMembers
<1>7. PICK b : Places(Pieces, b)
  BY <1>5, FlattenPlaces
<1>8. /\ b \in [1 .. N + 1 -> Nat] /\ b[1] = 0 /\ b[N + 1] = Len(Tag)
      /\ \A k \in 1 .. N :
           /\ b[k + 1] = b[k] + Len(Pieces[k])
           /\ \A j \in 1 .. Len(Pieces[k]) : Tag[b[k] + j] = Pieces[k][j]
  BY <1>5, <1>7 DEF Places
<1> DEFINE p == [k \in 1 .. N |-> IF k = 1 THEN 0 ELSE b[k] + 1]
           e == [k \in 1 .. N |-> b[k + 1]]
<1>9. /\ p \in [1 .. N -> Nat] /\ e \in [1 .. N -> Nat] /\ p[1] = 0
      /\ \A k \in 1 .. N : /\ e[k] = b[k + 1]
                           /\ k # 1 => p[k] = b[k] + 1
  BY <1>1, <1>8
<1> HIDE DEF p, e
<1>10. e[N] = Len(Tag)
  BY <1>1, <1>8, <1>9
<1>11. ASSUME NEW k \in 1 .. N
       PROVE  /\ e[k] = p[k] + Len(subtags[k])
              /\ \A j \in 1 .. Len(subtags[k]) : Tag[p[k] + j] = subtags[k][j]
  <2>1. Len(subtags[k]) \in Nat /\ b[k] \in Nat
    BY <1>1, <1>3, <1>8
  <2>2. CASE k = 1
    <3>1. p[k] = 0 /\ b[k] = 0 /\ e[k] = b[k + 1]
      BY <1>8, <1>9, <2>2
    <3>2. Pieces[k] = subtags[k]
      BY <1>4, <2>2
    <3>3. e[k] = Len(subtags[k])
      BY <1>8, <2>1, <3>1, <3>2
    <3>4. ASSUME NEW j \in 1 .. Len(subtags[k]) PROVE Tag[p[k] + j] = subtags[k][j]
      <4>1. Tag[b[k] + j] = Pieces[k][j]
        BY <1>8, <3>2
      <4> QED  BY <3>1, <3>2, <4>1
    <3>5. e[k] = p[k] + Len(subtags[k])
      BY <2>1, <3>1, <3>3
    <3> QED  BY <3>4, <3>5, Zenon
  <2>3. CASE k # 1
    <3>1. p[k] = b[k] + 1 /\ e[k] = b[k] + Len(Pieces[k]) /\ Len(Pieces[k]) = Len(subtags[k]) + 1
      BY <1>4, <1>8, <1>9, <2>3
    <3>2. ASSUME NEW j \in 1 .. Len(subtags[k]) PROVE Tag[p[k] + j] = subtags[k][j]
      <4>1. 1 + j \in 1 .. Len(Pieces[k]) /\ p[k] + j = b[k] + (1 + j)
        BY <2>1, <3>1
      <4>2. Tag[b[k] + (1 + j)] = Pieces[k][1 + j]
        BY <1>8, <4>1
      <4>3. Pieces[k][1 + j] = subtags[k][j]
        BY <1>4, <2>3
      <4> QED  BY <4>1, <4>2, <4>3
    <3>3. e[k] = p[k] + Len(subtags[k])
      <4>1. PICK m \in Nat : m = Len(subtags[k])
        BY <2>1
      <4>2. \A x, l \in Nat : x + (l + 1) = (x + 1) + l
        OBVIOUS
      <4>3. b[k] + (m + 1) = (b[k] + 1) + m
        BY <2>1, <4>2
      <4> QED  BY <3>1, <4>1, <4>3, Zenon
    <3> QED  BY <3>2, <3>3, Zenon
  <2> QED  BY <2>2, <2>3
<1>12. ASSUME NEW k \in 1 .. N - 1 PROVE p[k + 1] = e[k] + 1
  <2>1. k \in 1 .. N /\ k + 1 \in 1 .. N /\ k + 1 # 1
    BY <1>1
  <2> QED  BY <1>9, <2>1
<1>13. ASSUME NEW k \in 2 .. N PROVE Tag[p[k]] = Hyphen
  <2>1. k \in 1 .. N /\ k # 1
    BY <1>1
  <2>2. 1 \in 1 .. Len(Pieces[k]) /\ Pieces[k][1] = Hyphen
    <3>1. Len(subtags[k]) \in Nat
      BY <1>3, <2>1
    <3> QED  BY <1>4, <2>1, <3>1
  <2> QED  BY <1>8, <1>9, <2>1, <2>2
<1>14. Parted(Tag, p, e)
  BY <1>9, <1>10, <1>11, <1>12, <1>13, Zenon DEF Parted
<1> QED  BY <1>6, <1>14

\* The places before the subtags rise.
LEMMA PlacesRise ==
  ASSUME N \in Nat, NEW p \in [1 .. N -> Nat], \A k \in 1 .. N - 1 : p[k] < p[k + 1],
         NEW i \in 1 .. N, NEW j \in 1 .. N, i < j
  PROVE  p[i] < p[j]
<1> DEFINE T == {d \in Nat : \A k, m \in 1 .. N : m = (k + 1) + d => p[k] < p[m]}
<1>1. 0 \in T
  <2>1. ASSUME NEW k \in 1 .. N, NEW m \in 1 .. N, m = (k + 1) + 0 PROVE p[k] < p[m]
    <3>1. k \in 1 .. N - 1 /\ m = k + 1
      BY <2>1
    <3> QED  BY <3>1
  <2> QED  BY <2>1
<1>2. ASSUME NEW d \in Nat, d \in T PROVE d + 1 \in T
  <2>1. ASSUME NEW k \in 1 .. N, NEW m \in 1 .. N, m = (k + 1) + (d + 1) PROVE p[k] < p[m]
    <3> DEFINE l == (k + 1) + d
    <3>1. l \in 1 .. N /\ l \in 1 .. N - 1 /\ m = l + 1
      BY <2>1
    <3>2. p[k] < p[l]
      BY <1>2, <3>1
    <3> HIDE DEF l, T
    <3>3. p[l] < p[m] /\ p[k] \in Nat /\ p[l] \in Nat /\ p[m] \in Nat
      BY <3>1
    <3> QED  BY <3>2, <3>3
  <2> QED  BY <2>1
<1> HIDE DEF T
<1>3. j - (i + 1) \in T /\ j = (i + 1) + (j - (i + 1))
  <2>1. j - (i + 1) \in Nat /\ j = (i + 1) + (j - (i + 1))
    OBVIOUS
  <2> QED  BY <1>1, <1>2, <2>1, NaturalSteps
<1> QED  BY <1>3 DEF T

\* The hyphens of a tag are those between its subtags.
LEMMA HyphensBetween ==
  ASSUME TagTypeOK, SamplesAssumption, NEW Chars, Chars = 0 .. 255, NEW tag \in Seq(Chars),
         NEW p, NEW e, Parted(tag, p, e)
  PROVE  /\ {i \in DOMAIN tag : tag[i] = Hyphen} = {p[k] : k \in 2 .. N}
         /\ \A k \in 1 .. N - 1 : p[k] < p[k + 1]
<1>1. N \in Nat /\ N >= 1 /\ DOMAIN subtags = 1 .. N /\ DOMAIN tag = 1 .. Len(tag) /\ Len(tag) \in Nat
  BY DEF TagTypeOK, N
<1>2. \A k \in 1 .. N : /\ Len(subtags[k]) \in Nat
                        /\ \A j \in 1 .. Len(subtags[k]) : subtags[k][j] # Hyphen
  <2> SUFFICES ASSUME NEW k \in 1 .. N
               PROVE  /\ Len(subtags[k]) \in Nat
                      /\ \A j \in 1 .. Len(subtags[k]) : subtags[k][j] # Hyphen
    OBVIOUS
  <2>1. subtags[k] \in Samples
    BY <1>1, SeqMember DEF TagTypeOK
  <2> DEFINE Others == Chars \ {Hyphen}
  <2>2. subtags[k] \in Seq(Others)
    BY <2>1 DEF SamplesAssumption
  <2>3. \A c \in Others : c # Hyphen
    OBVIOUS
  <2> HIDE DEF Others
  <2>4. Len(subtags[k]) \in Nat /\ \A j \in 1 .. Len(subtags[k]) : subtags[k][j] \in Others
    BY ONLY <2>2
  <2> QED  BY <2>3, <2>4
<1>3. /\ \A k \in 1 .. N : /\ p[k] \in Nat /\ e[k] \in Nat
                           /\ e[k] = p[k] + Len(subtags[k])
                           /\ \A j \in 1 .. Len(subtags[k]) : tag[p[k] + j] = subtags[k][j]
      /\ \A k \in 1 .. N - 1 : p[k + 1] = e[k] + 1
      /\ \A k \in 2 .. N : tag[p[k]] = Hyphen
      /\ p[1] = 0 /\ e[N] = Len(tag)
  BY <1>1 DEF Parted
<1>4. \A k \in 1 .. N - 1 : p[k] < p[k + 1]
  <2> SUFFICES ASSUME NEW k \in 1 .. N - 1 PROVE p[k] < p[k + 1]
    OBVIOUS
  <2>1. k \in 1 .. N
    BY <1>1
  <2>2. p[k] \in Nat /\ e[k] = p[k] + Len(subtags[k]) /\ Len(subtags[k]) \in Nat /\ p[k + 1] = e[k] + 1
    BY <1>2, <1>3, <2>1
  <2> QED  BY <2>2
<1>5. \A i, j \in 1 .. N : i < j => p[i] < p[j]
  <2>1. p \in [1 .. N -> Nat]
    BY DEF Parted
  <2> QED  BY <1>1, <1>4, <2>1, PlacesRise
<1>6. ASSUME NEW k \in 2 .. N PROVE p[k] \in DOMAIN tag /\ tag[p[k]] = Hyphen
  <2>1. 1 \in 1 .. N /\ N \in 1 .. N /\ k \in 1 .. N /\ 1 < k
    BY <1>1
  <2>2. p[1] < p[k]
    BY <1>5, <2>1
  <2>3. p[k] <= p[N]
    <3>1. CASE k = N
      BY <1>3, <2>1, <3>1
    <3>2. CASE k # N
      <4>1. k < N
        BY <1>1, <3>2
      <4>2. p[k] < p[N]
        BY <1>5, <2>1, <4>1
      <4> QED  BY <1>3, <2>1, <4>2
    <3> QED  BY <3>1, <3>2
  <2>4. p[k] \in Nat /\ p[N] \in Nat /\ Len(tag) = p[N] + Len(subtags[N]) /\ Len(subtags[N]) \in Nat
    BY <1>2, <1>3, <2>1
  <2> QED  BY <1>1, <1>3, <2>2, <2>3, <2>4
<1>7. ASSUME NEW i \in DOMAIN tag, tag[i] = Hyphen PROVE \E k \in 2 .. N : i = p[k]
  <2> DEFINE S == {k \in 1 .. N : i <= e[k]}
  <2>1. S \in SUBSET Nat /\ N \in S
    BY <1>1, <1>3, <1>7
  <2>2. PICK k \in S : \A m \in S : k <= m
    BY <2>1, LeastMember
  <2>3. k \in 1 .. N /\ i <= e[k] /\ i \in Nat /\ i >= 1
    BY <1>1, <2>2
  <2>4. \A m \in 1 .. N : m < k => i > e[m]
    <3> SUFFICES ASSUME NEW m \in 1 .. N, m < k PROVE i > e[m]
      OBVIOUS
    <3>1. m \notin S
      BY <2>1, <2>2
    <3>2. ~ (i <= e[m]) /\ e[m] \in Nat
      BY <1>3, <3>1
    <3> QED  BY <2>3, <3>2
  <2> HIDE DEF S
  <2>5. ASSUME p[k] < i PROVE FALSE
    <3> DEFINE j == i - p[k]
    <3>1. e[k] = p[k] + Len(subtags[k]) /\ p[k] \in Nat /\ Len(subtags[k]) \in Nat
      BY <1>2, <1>3, <2>3
    <3>2. j \in 1 .. Len(subtags[k]) /\ p[k] + j = i
      BY <2>3, <2>5, <3>1
    <3> HIDE DEF j
    <3>3. tag[p[k] + j] = subtags[k][j]
      BY <1>3, <2>3, <3>2
    <3>4. subtags[k][j] # Hyphen
      BY <1>2, <2>3, <3>2
    <3> QED  BY <1>7, <3>2, <3>3, <3>4, Zenon
  <2>6. k # 1
    BY <1>3, <2>3, <2>5
  <2>7. p[k] <= i
    <3> DEFINE m == k - 1
    <3>1. m \in 1 .. N /\ m \in 1 .. N - 1 /\ m < k /\ m + 1 = k
      BY <1>1, <2>3, <2>6
    <3> HIDE DEF m
    <3>2. p[k] = e[m] + 1 /\ i > e[m] /\ e[m] \in Nat
      BY <1>3, <2>4, <3>1
    <3> QED  BY <2>3, <3>2
  <2>8. p[k] \in Nat
    BY <1>3, <2>3
  <2>9. i = p[k]
    BY <2>3, <2>5, <2>7, <2>8
  <2>10. k \in 2 .. N
    BY <1>1, <2>3, <2>6
  <2> QED  BY <2>9, <2>10
<1> QED  BY <1>4, <1>6, <1>7

LEMMA MinIs ==
  ASSUME NEW S \in SUBSET Nat, NEW x \in S, \A y \in S : x <= y
  PROVE  Min(S) = x
<1>1. Min(S) \in S /\ \A y \in S : Min(S) <= y
  BY DEF Min
<1> DEFINE m == Min(S)
<1> HIDE DEF m
<1>2. m \in Nat /\ x \in Nat /\ m <= x /\ x <= m
  BY <1>1 DEF m
<1>3. m = x
  BY <1>2
<1> QED  BY <1>3 DEF m

\* As many hyphens are at or before a place as subtags come before the one
\* behind it.
Hyphens(p) == {p[i] : i \in 2 .. N}

UpToPlace(S, x) == {h \in S : h <= x}

LEMMA HyphensCounted ==
  ASSUME N \in Nat, NEW p \in [1 .. N -> Nat],
         \A i, j \in 1 .. N : i < j => p[i] < p[j],
         NEW k \in 1 .. N
  PROVE  Cardinality(UpToPlace(Hyphens(p), p[k])) = k - 1
<1> DEFINE before == {h \in {p[i] : i \in 2 .. N} : h <= p[k]}
           q == [i \in 2 .. k |-> p[i]]
<1>1. \A i \in 2 .. N : i \in 1 .. N /\ (p[i] <= p[k] <=> i <= k)
  <2> SUFFICES ASSUME NEW i \in 2 .. N PROVE i \in 1 .. N /\ (p[i] <= p[k] <=> i <= k)
    OBVIOUS
  <2>1. i \in 1 .. N /\ p[i] \in Nat /\ p[k] \in Nat
    OBVIOUS
  <2>2. (i < k => p[i] < p[k]) /\ (k < i => p[k] < p[i])
    BY <2>1
  <2>3. i = k \/ i < k \/ k < i
    BY <2>1
  <2> QED  BY <2>1, <2>2, <2>3
<1>2. \A i \in 2 .. k : i \in 2 .. N /\ i <= k /\ q[i] = p[i]
  OBVIOUS
<1>3. \A i \in 2 .. N : i <= k => i \in 2 .. k
  OBVIOUS
<1>4. before = {p[i] : i \in 2 .. k}
  <2>1. \A h \in before : \E i \in 2 .. k : h = p[i]
    BY <1>1, <1>3
  <2>2. \A i \in 2 .. k : p[i] \in before
    BY <1>1, <1>2
  <2> QED  BY <2>1, <2>2
<1> HIDE DEF before
<1>5. \A i, j \in 2 .. k : q[i] = q[j] => i = j
  <2> SUFFICES ASSUME NEW i \in 2 .. k, NEW j \in 2 .. k, p[i] = p[j] PROVE i = j
    BY <1>2
  <2>1. i \in 1 .. N /\ j \in 1 .. N /\ p[i] \in Nat /\ p[j] \in Nat
    OBVIOUS
  <2>2. ~ (i < j) /\ ~ (j < i)
    BY <2>1
  <2> QED  BY <2>1, <2>2
<1>6. q \in [2 .. k -> before] /\ \A h \in before : \E i \in 2 .. k : q[i] = h
  BY <1>2, <1>4
<1> HIDE DEF q
<1>7. q \in Bijection(2 .. k, before)
  BY <1>5, <1>6 DEF Bijection, Injection, Surjection, IsInjective
<1>8. IsFiniteSet(2 .. k) /\ Cardinality(2 .. k) = k - 1
  <2>1. IsFiniteSet(2 .. k) /\ Cardinality(2 .. k) = IF 2 > k THEN 0 ELSE (k - 2) + 1
    BY FS_Interval
  <2> QED  BY <2>1
<1>9. IsFiniteSet(before) /\ Cardinality(before) = k - 1
  BY <1>7, <1>8, FS_Bijection DEF ExistsBijection
<1> QED  BY <1>9 DEF before, UpToPlace, Hyphens

----------------------------------------------------------------------------
(* A tag falls into its subtags                                            *)

LEMMA TagFallsApart ==
  ASSUME TagTypeOK, SamplesAssumption
  PROVE  SubtagsOf(Tag) = subtags
<1>1. N \in Nat /\ N >= 1 /\ DOMAIN subtags = 1 .. N /\ subtags \in Seq(Samples)
  BY DEF TagTypeOK, N
<1> DEFINE Chars == 0 .. 255
<1>2. Chars = 0 .. 255
  OBVIOUS
<1> HIDE DEF Chars
<1>3. Tag \in Seq(Chars) /\ \E p, e : Parted(Tag, p, e)
  BY <1>2, TagParted
<1>4. PICK p, e : Parted(Tag, p, e)
  BY <1>3
<1> DEFINE hyphens == {i \in DOMAIN Tag : Tag[i] = Hyphen}
           From(k) == CHOOSE i \in {0} \cup hyphens : Cardinality({h \in hyphens : h <= i}) = k - 1
           To(k)   == Min({Len(Tag) + 1} \cup {h \in hyphens : h > From(k)})
<1>5. SubtagsOf(Tag) =
        [k \in 1 .. Cardinality(hyphens) + 1 |-> SubSeq(Tag, From(k) + 1, To(k) - 1)]
  BY DEF SubtagsOf
<1>6. hyphens = Hyphens(p) /\ \A k \in 1 .. N - 1 : p[k] < p[k + 1]
  BY <1>2, <1>3, <1>4, HyphensBetween DEF Hyphens
<1> HIDE DEF hyphens
<1>7. /\ p \in [1 .. N -> Nat] /\ p[1] = 0 /\ e[N] = Len(Tag)
      /\ \A k \in 1 .. N : /\ p[k] \in Nat /\ e[k] \in Nat
                           /\ e[k] = p[k] + Len(subtags[k])
                           /\ \A j \in 1 .. Len(subtags[k]) : Tag[p[k] + j] = subtags[k][j]
      /\ \A k \in 1 .. N - 1 : p[k + 1] = e[k] + 1
  BY <1>4 DEF Parted
<1>8. \A i, j \in 1 .. N : i < j => p[i] < p[j]
  BY <1>1, <1>6, <1>7, PlacesRise
<1>9. \A k \in 1 .. N : Cardinality(UpToPlace(hyphens, p[k])) = k - 1
  BY <1>1, <1>6, <1>7, <1>8, HyphensCounted
<1>10. /\ \A i \in {0} \cup hyphens : \E k \in 1 .. N : i = p[k]
       /\ \A k \in 1 .. N : p[k] \in {0} \cup hyphens
  <2>1. 1 \in 1 .. N /\ \A k \in 2 .. N : k \in 1 .. N
    BY <1>1
  <2>2. \A k \in 1 .. N : k = 1 \/ k \in 2 .. N
    OBVIOUS
  <2> QED  BY <1>6, <1>7, <2>1, <2>2 DEF Hyphens
<1>11. ASSUME NEW k \in 1 .. N PROVE From(k) = p[k]
  <2>1. From(k) = CHOOSE i \in {0} \cup hyphens : Cardinality(UpToPlace(hyphens, i)) = k - 1
    BY DEF UpToPlace
  <2>2. p[k] \in {0} \cup hyphens /\ Cardinality(UpToPlace(hyphens, p[k])) = k - 1
    BY <1>9, <1>10
  <2> HIDE DEF From
  <2>3. From(k) \in {0} \cup hyphens /\ Cardinality(UpToPlace(hyphens, From(k))) = k - 1
    BY <2>1, <2>2
  <2>4. PICK m \in 1 .. N : From(k) = p[m]
    BY <1>10, <2>3
  <2>5. m - 1 = k - 1
    BY <1>9, <2>3, <2>4
  <2> QED  BY <2>4, <2>5
<1> HIDE DEF From
<1>12. \A h \in hyphens : \E i \in 2 .. N : h = p[i]
  BY <1>6 DEF Hyphens
<1>13. ASSUME NEW k \in 1 .. N PROVE To(k) = e[k] + 1
  <2> DEFINE S == {Len(Tag) + 1} \cup {h \in hyphens : h > p[k]}
  <2>1. To(k) = Min(S)
    BY <1>11
  <2>2. \A h \in hyphens : h \in Nat
    BY <1>1, <1>7, <1>12
  <2>3. S \in SUBSET Nat
    <3>1. Len(Tag) + 1 \in Nat
      BY <1>3
    <3> QED  BY <2>2, <3>1
  <2>4. e[k] \in Nat /\ p[k] \in Nat
    BY <1>7
  <2>5. CASE k = N
    <3>1. e[k] + 1 \in S
      BY <1>7, <2>5
    <3>2. ASSUME NEW h \in hyphens, h > p[k] PROVE FALSE
      <4>1. PICK i \in 2 .. N : h = p[i]
        BY <1>12
      <4>2. i \in 1 .. N /\ p[i] \in Nat /\ p[i] > p[k] /\ (i < N => p[i] < p[N])
        BY <1>1, <1>7, <1>8, <3>2, <4>1
      <4>3. i = N \/ i < N
        BY <1>1, <4>2
      <4> QED  BY <2>4, <2>5, <4>2, <4>3
    <3>3. \A y \in S : e[k] + 1 <= y
      BY <1>7, <2>4, <2>5, <3>2
    <3> HIDE DEF S
    <3> QED  BY <2>1, <2>3, <3>1, <3>3, MinIs
  <2>6. CASE k # N
    <3> DEFINE next == k + 1
    <3>1. k \in 1 .. N - 1 /\ next \in 2 .. N /\ next \in 1 .. N /\ next = k + 1
      BY <1>1, <2>6
    <3> HIDE DEF next
    <3>2. p[next] = e[k] + 1 /\ p[k] < p[next] /\ p[next] \in hyphens /\ p[next] \in Nat
      BY <1>6, <1>7, <3>1 DEF Hyphens
    <3>3. e[k] + 1 \in S
      BY <2>4, <3>2
    <3>4. ASSUME NEW h \in hyphens, h > p[k] PROVE e[k] + 1 <= h
      <4>1. PICK i \in 2 .. N : h = p[i]
        BY <1>12
      <4>2. i \in 1 .. N /\ p[i] \in Nat /\ p[i] > p[k]
        BY <1>1, <1>7, <3>4, <4>1
      <4>3. ~ (i <= k)
        <5>1. i < k => p[i] < p[k]
          BY <1>8, <4>2
        <5> QED  BY <2>4, <4>2, <5>1
      <4>4. i = next \/ next < i
        BY <3>1, <4>3
      <4>5. p[next] <= p[i]
        BY <1>8, <3>1, <3>2, <4>2, <4>4
      <4> QED  BY <3>2, <4>1, <4>5
    <3>5. k < N /\ p[next] < Len(Tag) + 1
      <4>1. p[next] <= p[N] /\ p[N] \in Nat
        <5>1. N \in 1 .. N /\ (next = N \/ next < N)
          BY <1>1, <3>1
        <5>2. p[N] \in Nat /\ (next < N => p[next] < p[N])
          BY <1>7, <1>8, <3>1, <5>1
        <5> QED  BY <3>2, <5>1, <5>2
      <4>2. Len(Tag) = p[N] + Len(subtags[N]) /\ Len(subtags[N]) \in Nat
        <5>1. N \in 1 .. N /\ e[N] \in Nat
          BY <1>1, <1>7
        <5>2. subtags[N] \in Samples
          BY <1>1, <5>1, SeqMember
        <5>3. Len(subtags[N]) \in Nat
          BY <5>2 DEF SamplesAssumption
        <5> QED  BY <1>7, <5>1, <5>3
      <4> QED  BY <1>1, <2>6, <3>2, <4>1, <4>2
    <3>6. \A y \in S : e[k] + 1 <= y
      <4>1. e[k] + 1 <= Len(Tag) + 1
        <5>1. Len(Tag) \in Nat
          BY <1>3
        <5> QED  BY <2>4, <3>2, <3>5, <5>1
      <4> QED  BY <3>4, <4>1
    <3> HIDE DEF S
    <3> QED  BY <2>1, <2>3, <3>3, <3>6, MinIs
  <2> QED  BY <2>5, <2>6
<1> HIDE DEF To
<1>14. ASSUME NEW k \in 1 .. N PROVE SubSeq(Tag, From(k) + 1, To(k) - 1) = subtags[k]
  <2> DEFINE Others == Chars \ {Hyphen}
  <2>1. subtags[k] \in Seq(Others)
    <3>1. subtags[k] \in Samples
      BY <1>1, SeqMember
    <3> QED  BY <1>2, <3>1 DEF SamplesAssumption
  <2> HIDE DEF Others
  <2> DEFINE s == subtags[k]
             l == Len(s)
  <2>2. From(k) = p[k] /\ To(k) - 1 = e[k]
    BY <1>7, <1>11, <1>13
  <2>3. /\ p[k] \in Nat /\ e[k] = p[k] + l /\ l \in Nat
        /\ \A j \in 1 .. l : Tag[p[k] + j] = s[j]
    BY <1>7, <2>1
  <2> HIDE DEF l
  <2>4. \A i \in p[k] + 1 .. e[k] : Tag[i] \in Others
    <3> SUFFICES ASSUME NEW i \in p[k] + 1 .. e[k] PROVE Tag[i] \in Others
      OBVIOUS
    <3> DEFINE j == i - p[k]
    <3>1. j \in 1 .. l /\ p[k] + j = i
      BY <2>3
    <3> HIDE DEF j
    <3>2. Tag[i] = s[j]
      BY <2>3, <3>1
    <3>3. s[j] \in Others
      BY <2>1, <3>1 DEF l
    <3> QED  BY <3>2, <3>3
  <2> DEFINE from == p[k] + 1
             to   == e[k]
  <2>5. /\ from \in Int /\ to \in Int
        /\ (IF from <= to THEN to - from + 1 ELSE 0) = l /\ to - from + 1 = l
        /\ \A j \in 1 .. l : from + j - 1 = p[k] + j
    <3> DEFINE before == p[k]
    <3>1. before \in Nat /\ from = before + 1 /\ to = before + l /\ l \in Nat
      BY <2>3
    <3> HIDE DEF before, from, to
    <3>2. from \in Int /\ to \in Int /\ to - from + 1 = l
      BY <3>1
    <3>3. (IF from <= to THEN to - from + 1 ELSE 0) = l
      BY <3>1
    <3>4. \A j \in 1 .. l : from + j - 1 = before + j
      BY <3>1
    <3> QED  BY <3>2, <3>3, <3>4 DEF before
  <2> HIDE DEF from, to
  <2>6. /\ SubSeq(Tag, from, to) \in Seq(Others)
        /\ Len(SubSeq(Tag, from, to)) = IF from <= to THEN to - from + 1 ELSE 0
        /\ \A j \in 1 .. to - from + 1 : SubSeq(Tag, from, to)[j] = Tag[from + j - 1]
    <3>1. \A i \in from .. to : Tag[i] \in Others
      BY <2>4 DEF from, to
    <3> QED  BY ONLY <2>5, <3>1, SubSeqProperties
  <2>7. SubSeq(Tag, from, to) = s
    <3>1. Len(SubSeq(Tag, from, to)) = l /\ \A j \in 1 .. l : SubSeq(Tag, from, to)[j] = s[j]
      BY <2>3, <2>5, <2>6
    <3> QED  BY <2>1, <2>6, <3>1, SeqEqual DEF l
  <2> QED  BY <2>2, <2>7 DEF from, to
<1>15. Cardinality(hyphens) + 1 = N
  <2>1. UpToPlace(hyphens, p[N]) = hyphens
    <3>1. ASSUME NEW h \in hyphens PROVE h <= p[N]
      <4>1. PICK i \in 2 .. N : h = p[i]
        BY <1>12
      <4>2. i \in 1 .. N /\ N \in 1 .. N /\ p[i] \in Nat /\ p[N] \in Nat
        BY <1>1, <1>7
      <4>3. i = N \/ i < N
        BY <1>1, <4>2
      <4> QED  BY <1>8, <4>1, <4>2, <4>3
    <3> QED  BY <3>1 DEF UpToPlace
  <2>2. N \in 1 .. N
    BY <1>1
  <2> QED  BY <1>1, <1>9, <2>1, <2>2
<1>16. SubtagsOf(Tag) = [k \in 1 .. N |-> subtags[k]]
  BY <1>5, <1>14, <1>15
<1> QED  BY <1>1, <1>16

----------------------------------------------------------------------------
(* The theorem                                                             *)

\* A tag that grows stays a sequence of samples.
LEMMA TagTyped == ASSUME SamplesAssumption PROVE TagSpec => []TagTypeOK
<1>1. TagInit => TagTypeOK
  <2> SUFFICES ASSUME NEW s \in Samples, subtags = <<s>> PROVE TagTypeOK
    BY DEF TagInit
  <2> QED  BY DEF TagTypeOK
<1>2. TagTypeOK /\ [TagNext]_subtags => TagTypeOK'
  <2> SUFFICES ASSUME TagTypeOK, [TagNext]_subtags PROVE TagTypeOK'
    OBVIOUS
  <2>1. CASE Extend
    <3>1. PICK s \in Samples : subtags' = Append(subtags, s)
      BY <2>1 DEF Extend
    <3>2. Append(subtags, s) \in Seq(Samples) /\ Append(subtags, s) # <<>>
      BY AppendMembers DEF TagTypeOK
    <3> QED  BY <3>1, <3>2 DEF TagTypeOK
  <2>2. CASE UNCHANGED subtags
    BY <2>2 DEF TagTypeOK
  <2> QED  BY <2>1, <2>2 DEF TagNext
<1> QED  BY <1>1, <1>2, PTL DEF TagSpec

\* One greedy pass that never goes back finds exactly the tags of the grammar
\* (is_well_formed_language_tag): whatever the pass takes as soon as it can, no
\* later part would have needed, for tags of any length.
THEOREM PassNeverGoesBack == TagSpec => []GreedyIsGrammar
<1>1. TagTypeOK => GreedyIsGrammar
  <2> SUFFICES ASSUME TagTypeOK PROVE GreedyIsGrammar
    OBVIOUS
  <2>1. SubtagsOf(Tag) = subtags
    BY SamplesAssumption, TagFallsApart
  <2>2. PassSubtags(subtags) <=> Langtag \/ PrivateUse(0)
    BY SamplesAssumption, PassIsGrammar DEF PassAcceptsGrammar
  <2> QED  BY <2>1, <2>2, Zenon DEF GreedyIsGrammar, IsWellFormedLanguageTag
<1> QED  BY <1>1, TagTyped, SamplesAssumption, PTL

----------------------------------------------------------------------------
(* Codec Configs                                                           *)

\* The roll of an Opus config is the least number of frames that hold 3840
\* samples, and has a form in the 16 bits of its field.
THEOREM OpusRollIsLeast ==
  ASSUME NEW samples \in Nat \ {0}
  PROVE  /\ -RequiredOpusRoll(samples) \in Nat
         /\ -RequiredOpusRoll(samples) <= 3840
         /\ (-RequiredOpusRoll(samples)) * samples \in 3840 .. 3840 + samples - 1
<1> DEFINE needed    == 3840
           quotient  == needed \div samples
           remainder == needed % samples
           frames    == -RequiredOpusRoll(samples)
<1>1. /\ quotient \in Nat
      /\ remainder \in 0 .. samples - 1
      /\ 3840 = quotient * samples + remainder
  <2>1. needed \in Nat
    OBVIOUS
  <2> HIDE DEF needed, frames
  <2>2. /\ quotient \in Nat
        /\ remainder \in 0 .. samples - 1
        /\ needed = quotient * samples + remainder
    BY <2>1, Division
  <2> HIDE DEF quotient, remainder
  <2> QED  BY <2>2 DEF needed
<1>2. frames = quotient + (IF remainder = 0 THEN 0 ELSE 1)
  <2>1. RequiredOpusRoll(samples) = -(quotient + (IF remainder = 0 THEN 0 ELSE 1))
    BY DEF RequiredOpusRoll
  <2> HIDE DEF quotient, remainder
  <2> QED  BY <1>1, <2>1
<1> HIDE DEF quotient, remainder, frames
<1>3. quotient * samples \in Nat /\ (quotient + 1) * samples = quotient * samples + samples
  BY <1>1
<1>4. frames * samples \in 3840 .. 3840 + samples - 1
  BY <1>1, <1>2, <1>3
<1>5. quotient <= quotient * samples
  <2>1. \E k \in Nat : samples = k + 1
    <3>1. samples - 1 \in Nat /\ samples = (samples - 1) + 1
      OBVIOUS
    <3> QED  BY <3>1
  <2>2. PICK k \in Nat : samples = k + 1
    BY <2>1
  <2>3. quotient * samples = quotient * k + quotient /\ quotient * k \in Nat
    BY <1>1, <2>2
  <2> QED  BY <1>1, <2>3
<1>6. frames \in Nat /\ frames # 0
  <2>1. frames \in Nat
    BY <1>1, <1>2
  <2>2. frames = 0 => frames * samples = 0
    OBVIOUS
  <2> QED  BY <1>4, <2>1, <2>2
<1>7. frames <= 3840
  <2>1. CASE remainder = 0
    BY <1>1, <1>2, <1>3, <1>5, <2>1
  <2>2. CASE remainder # 0
    BY <1>1, <1>2, <1>3, <1>5, <2>2
  <2> QED  BY <2>1, <2>2
<1>8. frames \in Nat /\ frames <= 3840 /\ frames * samples \in 3840 .. 3840 + samples - 1
  BY <1>4, <1>6, <1>7
<1> QED  BY <1>8 DEF frames

\* What a constructor returns is what it is asked for, and validate finds only
\* what no constructor checks.
Made(made, kind) ==
  made.err = Ok =>
    /\ made.config.codec_id = CodecId[kind]
    /\ made.config.decoder_config.kind = kind
    /\ CodecFindings(made.config) \subseteq Unchecked(made.config)

\* The codecs that have a constructor.
LEMMA KnownCodecs == Codecs = {"lpcm", "opus", "flac", "aac"}
BY DEF Codecs, FixedBytes

\* What is refused is not ok.
LEMMA Rejected ==
  /\ NotMade("SampleRateNotSupportedByCodec").err # Ok
  /\ NotMade("SamplesPerFrameNotSupportedByCodec").err # Ok
  /\ NotMade("BitsPerSampleNotSupportedByCodec").err # Ok
BY DEF NotMade, Ok

\* A FLAC config has its frames' size as both of its block sizes, and none of
\* the values that validate rejects, for whatever is asked.
LEMMA FlacMade ==
  ASSUME NEW id \in Nat, NEW samples \in Nat, NEW rate \in Nat, NEW bits \in Nat
  PROVE  Made(MakeFlac(id, samples, rate, bits), "flac")
<1> DEFINE made   == MakeFlac(id, samples, rate, bits)
           fields == <<1, 0, 34, samples, samples, 0, 0, rate, 1, bits - 1, 0, Zero4, Zero16>>
<1> SUFFICES ASSUME made.err = Ok
             PROVE  /\ made.config.codec_id = CodecId["flac"]
                    /\ made.config.decoder_config.kind = "flac"
                    /\ CodecFindings(made.config) \subseteq Unchecked(made.config)
  BY DEF Made
<1>1. rate \in 1 .. FlacMaxSampleRate
  <2> SUFFICES ASSUME rate \notin 1 .. FlacMaxSampleRate PROVE FALSE
    OBVIOUS
  <2> QED  BY Rejected DEF MakeFlac
<1>2. ~ (samples < 16 \/ samples > 65535)
  BY <1>1, Rejected DEF MakeFlac
<1>3. bits \in 4 .. 32
  <2> SUFFICES ASSUME bits \notin 4 .. 32 PROVE FALSE
    OBVIOUS
  <2> QED  BY <1>1, <1>2, Rejected DEF MakeFlac
<1>4. made = MadeConfig(id, "flac", samples, RequiredAudioRoll("flac"), fields)
  BY <1>1, <1>2, <1>3 DEF MakeFlac
<1>5. FlacFindings(fields, samples) = {}
  BY <1>1, <1>2, <1>3 DEF FlacFindings, Finding
<1> HIDE DEF made, fields
<1>6. /\ made.config.codec_id = CodecId["flac"]
      /\ made.config.decoder_config.kind = "flac"
      /\ made.config.decoder_config.fields = fields
      /\ made.config.num_samples_per_frame = samples
      /\ made.config.audio_roll_distance = RequiredAudioRoll("flac")
  BY <1>4 DEF MadeConfig
<1>7. samples \in 1 .. MaxSamplesPerFrame
  <2>1. samples >= 1 /\ samples <= MaxSamplesPerFrame /\ MaxSamplesPerFrame \in Nat
    BY <1>2 DEF MaxSamplesPerFrame
  <2> QED  BY <2>1
<1>8. \E k \in Codecs : made.config.codec_id = CodecId[k]
  BY <1>6, KnownCodecs
<1>9. CodecFindings(made.config) = {}
  BY <1>5, <1>6, <1>7, <1>8 DEF CodecFindings, Finding
<1> QED  BY <1>6, <1>9

\* Every Opus config has the output of two channels and the rate that IAMF
\* asks for, and the roll its frames need.
LEMMA OpusMade ==
  ASSUME NEW id \in Nat, NEW samples \in Nat, NEW rate \in Nat, NEW pre_skip \in Nat
  PROVE  Made(MakeOpus(id, samples, rate, pre_skip), "opus")
<1> DEFINE made   == MakeOpus(id, samples, rate, pre_skip)
           fields == <<1, 2, pre_skip, Unsigned32(rate), 0, 0>>
<1> SUFFICES ASSUME made.err = Ok
             PROVE  /\ made.config.codec_id = CodecId["opus"]
                    /\ made.config.decoder_config.kind = "opus"
                    /\ CodecFindings(made.config) \subseteq Unchecked(made.config)
  BY DEF Made
<1>1. rate = OpusSampleRate /\ samples # 0
  BY DEF MakeOpus, NotMade, Ok
<1>2. made = MadeConfig(id, "opus", samples, RequiredOpusRoll(samples), fields)
  BY <1>1 DEF MakeOpus
<1>3. OpusFindings(fields) = Finding(pre_skip = 0, "pre_skip")
  BY <1>1 DEF OpusFindings, Finding
<1>4. fields[3] = pre_skip
  OBVIOUS
<1> HIDE DEF made, fields
<1>5. /\ made.config.codec_id = CodecId["opus"]
      /\ made.config.decoder_config.kind = "opus"
      /\ made.config.decoder_config.fields = fields
      /\ made.config.num_samples_per_frame = samples
      /\ made.config.audio_roll_distance = RequiredOpusRoll(samples)
  BY <1>2 DEF MadeConfig
<1>6. \E k \in Codecs : made.config.codec_id = CodecId[k]
  BY <1>5, KnownCodecs
<1>7. CodecFindings(made.config)
        = Finding(samples \notin 1 .. MaxSamplesPerFrame, "num_samples_per_frame")
          \cup Finding(pre_skip = 0, "pre_skip")
  BY <1>3, <1>5, <1>6 DEF CodecFindings, Finding
<1>8. Unchecked(made.config)
        = Finding(samples \notin 1 .. MaxSamplesPerFrame, "num_samples_per_frame")
          \cup Finding(pre_skip = 0, "pre_skip")
  BY <1>4, <1>5 DEF Unchecked
<1> QED  BY <1>5, <1>7, <1>8

\* An AAC-LC config has an index into the table of sample rates.
LEMMA AacMade ==
  ASSUME NEW id \in Nat, NEW rate \in Nat
  PROVE  Made(MakeAacLc(id, rate), "aac")
<1> DEFINE made    == MakeAacLc(id, rate)
           indices == {i \in DOMAIN AacSampleRates : AacSampleRates[i] = rate}
           chosen  == CHOOSE i \in indices : TRUE
           index   == chosen - 1
           fields  == <<64, 5, 0, 0, Zero4, Zero4, 2, index, 2, 0, 0, 0>>
<1> SUFFICES ASSUME made.err = Ok
             PROVE  /\ made.config.codec_id = CodecId["aac"]
                    /\ made.config.decoder_config.kind = "aac"
                    /\ CodecFindings(made.config) \subseteq Unchecked(made.config)
  BY DEF Made
<1>1. indices # {}
  BY DEF MakeAacLc, NotMade, Ok
<1>2. made = MadeConfig(id, "aac", AacSamplesPerFrame, RequiredAudioRoll("aac"), fields)
  BY <1>1 DEF MakeAacLc
<1>3. Len(AacSampleRates) = 13 /\ DOMAIN AacSampleRates = 1 .. 13
  BY DEF AacSampleRates
<1>4. index \in 0 .. 12
  <2>1. chosen \in indices
    BY <1>1
  <2>2. indices \subseteq 1 .. 13
    BY <1>3
  <2> HIDE DEF indices, chosen, made, fields
  <2> QED  BY <2>1, <2>2
<1> HIDE DEF index, indices
<1>5. AacLcFindings(fields, AacSamplesPerFrame) = {}
  BY <1>3, <1>4 DEF AacLcFindings, Finding, AacMaxBufferSize
<1> HIDE DEF made, fields
<1>6. /\ made.config.codec_id = CodecId["aac"]
      /\ made.config.decoder_config.kind = "aac"
      /\ made.config.decoder_config.fields = fields
      /\ made.config.num_samples_per_frame = AacSamplesPerFrame
      /\ made.config.audio_roll_distance = RequiredAudioRoll("aac")
  BY <1>2 DEF MadeConfig
<1>7. AacSamplesPerFrame \in 1 .. MaxSamplesPerFrame
  BY DEF AacSamplesPerFrame, MaxSamplesPerFrame
<1>8. \E k \in Codecs : made.config.codec_id = CodecId[k]
  BY <1>6, KnownCodecs
<1>9. CodecFindings(made.config) = {}
  BY <1>5, <1>6, <1>7, <1>8 DEF CodecFindings, Finding
<1> QED  BY <1>6, <1>9

\* Whatever a program asks for, a config that a constructor returns is of the
\* codec asked for, and validate finds nothing in it but frames over the limit
\* and an Opus encoder without lookahead.  An LPCM config is made from fields
\* that are not checked: it is clean when they are.
THEOREM ConstructorsAreClean ==
  ASSUME NEW id \in Nat, NEW samples \in Nat, NEW rate \in Nat, NEW value \in Nat
  PROVE  /\ Made(MakeFlac(id, samples, rate, value), "flac")
         /\ Made(MakeOpus(id, samples, rate, value), "opus")
         /\ Made(MakeAacLc(id, rate), "aac")
         /\ \A flags :
              LpcmFindings(<<flags, value, Unsigned32(rate)>>) = {}
                => Made(MakeLpcm(id, samples, flags, value, rate), "lpcm")
<1>1. ASSUME NEW flags, LpcmFindings(<<flags, value, Unsigned32(rate)>>) = {}
      PROVE  Made(MakeLpcm(id, samples, flags, value, rate), "lpcm")
  <2> DEFINE made   == MakeLpcm(id, samples, flags, value, rate)
             fields == <<flags, value, Unsigned32(rate)>>
  <2>1. made = MadeConfig(id, "lpcm", samples, RequiredAudioRoll("lpcm"), fields)
    BY DEF MakeLpcm
  <2>2. LpcmFindings(fields) = {}
    BY <1>1
  <2> HIDE DEF made, fields
  <2>3. /\ made.config.codec_id = CodecId["lpcm"]
        /\ made.config.decoder_config.kind = "lpcm"
        /\ made.config.decoder_config.fields = fields
        /\ made.config.num_samples_per_frame = samples
        /\ made.config.audio_roll_distance = RequiredAudioRoll("lpcm")
    BY <2>1 DEF MadeConfig
  <2>4. \E k \in Codecs : made.config.codec_id = CodecId[k]
    BY <2>3, KnownCodecs
  <2>5. CodecFindings(made.config)
          = Finding(samples \notin 1 .. MaxSamplesPerFrame, "num_samples_per_frame")
    BY <2>2, <2>3, <2>4 DEF CodecFindings, Finding
  <2>6. CodecFindings(made.config) \subseteq Unchecked(made.config)
    BY <2>3, <2>5 DEF Unchecked
  <2> QED  BY <2>3, <2>6 DEF Made, made
<1> QED  BY <1>1, FlacMade, OpusMade, AacMade

----------------------------------------------------------------------------
(* What a constructor returned, written and read back                      *)

\* A constructor returned made, LPCM's from fields that are valid.
IsMade(made) ==
  \E id \in Nat, samples \in Nat, rate \in Nat, value \in Nat :
    \/ made = MakeFlac(id, samples, rate, value)
    \/ made = MakeOpus(id, samples, rate, value)
    \/ made = MakeAacLc(id, rate)
    \/ \E flags : /\ LpcmFindings(<<flags, value, Unsigned32(rate)>>) = {}
                  /\ made = MakeLpcm(id, samples, flags, value, rate)

\* A config without trailing bytes.
Bald(c) ==
  \E id, codec, samples, roll, decoder :
    c = [codec_config_id |-> id, codec_id |-> codec, num_samples_per_frame |-> samples,
         audio_roll_distance |-> roll, decoder_config |-> decoder, trailing |-> <<>>]

LEMMA MadeIsBald ==
  ASSUME NEW id, NEW kind, NEW samples, NEW roll, NEW fields
  PROVE  Bald(MadeConfig(id, kind, samples, roll, fields).config)
BY DEF MadeConfig, Bald

\* What Made says and the shape of it.
Clean(c) ==
  /\ c.decoder_config.kind # "raw" /\ CodecFindings(c) \subseteq Unchecked(c) /\ Bald(c)

LEMMA MadeIsClean ==
  ASSUME NEW made, IsMade(made), made.err = Ok
  PROVE  Clean(made.config)
<1>1. PICK id \in Nat, samples \in Nat, rate \in Nat, value \in Nat :
        \/ made = MakeFlac(id, samples, rate, value)
        \/ made = MakeOpus(id, samples, rate, value)
        \/ made = MakeAacLc(id, rate)
        \/ \E flags : /\ LpcmFindings(<<flags, value, Unsigned32(rate)>>) = {}
                      /\ made = MakeLpcm(id, samples, flags, value, rate)
  BY DEF IsMade
<1>2. ASSUME NEW kind, kind # "raw", Made(made, kind), Bald(made.config)
      PROVE  Clean(made.config)
  BY <1>2 DEF Made, Clean
<1>3. CASE made = MakeFlac(id, samples, rate, value)
  <2>1. Made(made, "flac")
    BY <1>3, FlacMade
  <2>2. made = MadeConfig(id, "flac", samples, RequiredAudioRoll("flac"),
                 <<1, 0, 34, samples, samples, 0, 0, rate, 1, value - 1, 0, Zero4, Zero16>>)
    BY <1>3, Rejected DEF MakeFlac
  <2>3. Bald(made.config)
    BY <2>2, MadeIsBald, Zenon
  <2> QED  BY <1>2, <2>1, <2>3
<1>4. CASE made = MakeOpus(id, samples, rate, value)
  <2>1. Made(made, "opus")
    BY <1>4, OpusMade
  <2>2. made = MadeConfig(id, "opus", samples, RequiredOpusRoll(samples),
                 <<1, 2, value, Unsigned32(rate), 0, 0>>)
    BY <1>4 DEF MakeOpus, NotMade, Ok
  <2>3. Bald(made.config)
    BY <2>2, MadeIsBald, Zenon
  <2> QED  BY <1>2, <2>1, <2>3
<1>5. CASE made = MakeAacLc(id, rate)
  <2>1. Made(made, "aac")
    BY <1>5, AacMade
  <2>2. \E fields : made = MadeConfig(id, "aac", AacSamplesPerFrame, RequiredAudioRoll("aac"), fields)
    BY <1>5, Rejected, Zenon DEF MakeAacLc
  <2>3. Bald(made.config)
    BY <2>2, MadeIsBald, Zenon
  <2> QED  BY <1>2, <2>1, <2>3
<1>6. ASSUME NEW flags, LpcmFindings(<<flags, value, Unsigned32(rate)>>) = {},
             made = MakeLpcm(id, samples, flags, value, rate)
      PROVE  Clean(made.config)
  <2>1. Made(made, "lpcm")
    BY <1>6, ConstructorsAreClean
  <2>2. made = MadeConfig(id, "lpcm", samples, RequiredAudioRoll("lpcm"),
                          <<flags, value, Unsigned32(rate)>>)
    BY <1>6 DEF MakeLpcm
  <2>3. Bald(made.config)
    BY <2>2, MadeIsBald, Zenon
  <2> QED  BY <1>2, <2>1, <2>3
<1> QED  BY <1>1, <1>3, <1>4, <1>5, <1>6

\* Read back, a typed config without trailing bytes is the one that was written.
LEMMA BaldReadsAs ==
  ASSUME NEW obu, Whole(obu), obu.kind = "codec_config", Clean(obu.payload)
  PROVE  ReadsBackAs(obu).payload = obu.payload
<1> DEFINE c      == obu.payload
           header == obu.header
           rest   == obu.trailing
           tail   == c.trailing \o rest
           none   == <<>>
<1>1. obu = ObuWith("codec_config", header, c, rest) /\ c.decoder_config.kind # "raw" /\ Bald(c)
  BY DEF Whole, Clean
<1> HIDE DEF c, header, rest, none
<1>2. [c EXCEPT !.trailing = none] = c
  <2>1. PICK id, codec, samples, roll, decoder :
          c = [codec_config_id |-> id, codec_id |-> codec, num_samples_per_frame |-> samples,
               audio_roll_distance |-> roll, decoder_config |-> decoder, trailing |-> none]
    BY <1>1 DEF Bald, none
  <2> QED  BY <2>1
<1> HIDE DEF tail
<1>3. PICK owned : owned = [obu EXCEPT !.payload.trailing = none, !.trailing = tail]
  OBVIOUS
<1>4. owned = ObuWith("codec_config", header, c, tail)
  BY <1>1, <1>2, <1>3 DEF ObuWith
<1>5. Merged(obu) = owned
  <2>1. /\ obu.kind \in Descriptors /\ obu.kind # "audio_element" /\ obu.kind # "audio_frame"
        /\ obu.payload.decoder_config.kind # "raw"
    BY <1>1 DEF Descriptors, c
  <2>2. obu.payload.trailing \o obu.trailing = tail
    BY DEF tail, c, rest
  <2>3. Merged(obu) = [obu EXCEPT !.payload.trailing = <<>>,
                                  !.trailing = obu.payload.trailing \o obu.trailing]
    BY <2>1, Zenon DEF Merged
  <2> QED  BY <1>3, <2>2, <2>3 DEF none
<1>6. obu.kind # "parameter_block" /\ owned.header = header
  BY <1>4 DEF ObuWith
<1>7. ReadsBackAs(obu) = [owned EXCEPT !.header = AsRead(owned.header)]
  BY <1>5, <1>6 DEF ReadsBackAs
<1>8. [owned EXCEPT !.header = AsRead(owned.header)].payload = c
  <2> DEFINE h == AsRead(owned.header)
  <2> HIDE DEF h
  <2>1. PICK b : b = [owned EXCEPT !.header = h]
    OBVIOUS
  <2>2. b.payload = c
    BY <1>4, <2>1 DEF ObuWith
  <2> QED  BY <2>1, <2>2 DEF h
<1> QED  BY <1>7, <1>8 DEF c

\* The configs of a stream that a constructor returned are in whole OBUs.
MadeWhole(obu) == obu.kind = "codec_config" /\ obu.payload \in MadeConfigs => Whole(obu)

MadeScripts ==
  /\ \A c \in MadeConfigs : \E made : IsMade(made) /\ made.err = Ok /\ c = made.config
  /\ \A script \in Scripts :
       Len(script) \in Nat /\ \A i \in 1 .. Len(script) : MadeWhole(script[i])

MadeAreWhole == (\E V : written \in Seq(V)) /\ \A i \in DOMAIN written : MadeWhole(written[i])

LEMMA CleanAsRead ==
  ASSUME MadeScripts, MadeAreWhole, WrittenReadsBack
  PROVE  MadeConfigsAreClean
<1> SUFFICES ASSUME damage = NoDamage, parsed # None, NEW i \in DOMAIN written,
                    written[i].kind = "codec_config", written[i].payload \in MadeConfigs
             PROVE  /\ Result.obus[i].payload.decoder_config.kind # "raw"
                    /\ CodecFindings(Result.obus[i].payload)
                         \subseteq Unchecked(Result.obus[i].payload)
  BY Zenon DEF MadeConfigsAreClean
<1>1. Result.obus[i] = ReadsBackAs(written[i])
  BY DEF WrittenReadsBack
<1>2. Whole(written[i])
  BY DEF MadeAreWhole, MadeWhole
<1>3. Clean(written[i].payload)
  <2>1. PICK made : IsMade(made) /\ made.err = Ok /\ written[i].payload = made.config
    BY DEF MadeScripts
  <2> QED  BY <2>1, MadeIsClean
<1>4. Result.obus[i].payload = written[i].payload
  BY <1>1, <1>2, <1>3, BaldReadsAs
<1> QED  BY <1>3, <1>4 DEF Clean

LEMMA MadeStayWhole ==
  ASSUME MadeScripts, MadeAreWhole, [Next]_vars
  PROVE  MadeAreWhole'
<1>1. CASE written' = written
  BY <1>1 DEF MadeAreWhole
<1>2. ASSUME NEW obu \in Candidates, written' = Append(written, obu)
      PROVE  MadeAreWhole'
  <2>1. PICK V : written \in Seq(V)
    BY DEF MadeAreWhole
  <2>2. PICK script \in Scripts : Len(script) > Len(written) /\ obu = script[Len(written) + 1]
    BY DEF Candidates
  <2>3. Len(written) + 1 \in 1 .. Len(script)
    <3>1. Len(script) \in Nat /\ Len(written) \in Nat
      BY <2>1 DEF MadeScripts
    <3> QED  BY <2>2, <3>1
  <2>4. MadeWhole(obu)
    BY <2>2, <2>3 DEF MadeScripts
  <2> DEFINE W == V \cup {obu}
             n == Len(written)
  <2>5. written \in Seq(W) /\ obu \in W
    BY <2>1
  <2> HIDE DEF W
  <2>6. /\ Append(written, obu) \in Seq(W) /\ DOMAIN Append(written, obu) = 1 .. n + 1
        /\ n \in Nat /\ DOMAIN written = 1 .. n
        /\ Append(written, obu)[n + 1] = obu
        /\ \A i \in 1 .. n : Append(written, obu)[i] = written[i]
    BY <2>5, AppendProperties
  <2> HIDE DEF n
  <2>7. \A i \in 1 .. n + 1 : i \in 1 .. n \/ i = n + 1
    BY <2>6
  <2>8. \A i \in DOMAIN written' : MadeWhole(written'[i])
    BY <1>2, <2>4, <2>6, <2>7 DEF MadeAreWhole
  <2> QED  BY <1>2, <2>6, <2>8 DEF MadeAreWhole, MadeWhole
<1>3. CASE WriteOwn
  BY <1>2, <1>3 DEF WriteOwn, AppendObu, AppendBytes
<1>4. CASE WriteForeign
  BY <1>2, <1>4 DEF WriteForeign, AppendObu, AppendBytes
<1>5. CASE Cut \/ Garble \/ ReadBack
  BY <1>1, <1>5 DEF Cut, Garble, ReadBack
<1>6. CASE UNCHANGED vars
  BY <1>1, <1>6 DEF vars
<1> QED  BY <1>3, <1>4, <1>5, <1>6 DEF Next

\* Whatever a program asked a constructor for, the config it was given, written
\* in a stream and read back, has no finding but for what the constructor left
\* to its caller: if what is not a plain OBU reads back by itself.
THEOREM MadeConfigsReadClean ==
  ASSUME CrateLimits, MadeScripts
  PROVE  Spec /\ []OthersReadAlone => []MadeConfigsAreClean
<1>1. Init => MadeAreWhole
  <2> SUFFICES ASSUME Init PROVE MadeAreWhole
    OBVIOUS
  <2>1. written \in Seq({}) /\ DOMAIN written = {}
    BY DEF Init
  <2> QED  BY <2>1 DEF MadeAreWhole
<1>2. MadeAreWhole /\ [Next]_vars => MadeAreWhole'
  BY MadeStayWhole
<1>3. MadeAreWhole /\ WrittenReadsBack => MadeConfigsAreClean
  BY CleanAsRead
<1>4. Spec /\ []OthersReadAlone => [](WrittenReadsBack /\ CutIsReported)
  BY OthersDecide
<1> QED  BY <1>1, <1>2, <1>3, <1>4, PTL DEF Spec

----------------------------------------------------------------------------
(* What validate looks at is read back                                     *)

\* A field that is not replaced keeps its value.
LEMMA OtherField ==
  ASSUME NEW r, NEW name, NEW value, NEW other \in DOMAIN r, other # name
  PROVE  [r EXCEPT ![name] = value][other] = r[other]
OBVIOUS

\* What a reader's OBU has in common with the one written: all that validate
\* looks at.
AlikeHeader(p, q) ==
  /\ q.ia_code = p.ia_code /\ q.primary_profile = p.primary_profile
  /\ q.additional_profile = p.additional_profile

AlikeConfig(p, q) ==
  /\ q.codec_config_id = p.codec_config_id /\ q.codec_id = p.codec_id
  /\ q.num_samples_per_frame = p.num_samples_per_frame
  /\ q.audio_roll_distance = p.audio_roll_distance
  /\ q.decoder_config.kind = p.decoder_config.kind
  /\ p.decoder_config.kind # "raw" => q.decoder_config.fields = p.decoder_config.fields

AlikeElement(p, q) ==
  /\ q.audio_element_id = p.audio_element_id /\ q.reserved = p.reserved
  /\ q.codec_config_id = p.codec_config_id /\ q.substream_ids = p.substream_ids
  /\ q.params = p.params /\ q.type.kind = p.type.kind
  /\ p.type.kind = "channel_based" => q.type.body = p.type.body

AlikeMix(p, q) ==
  /\ q.mix_presentation_id = p.mix_presentation_id /\ q.languages = p.languages
  /\ q.annotations = p.annotations /\ q.sub_mixes = p.sub_mixes

\* The fields of a payload that validate looks at.
HeaderFields  == {"ia_code", "primary_profile", "additional_profile"}
ConfigFields  == {"codec_config_id", "codec_id", "num_samples_per_frame", "audio_roll_distance",
                  "decoder_config"}
ElementFields == {"audio_element_id", "reserved", "type", "codec_config_id", "substream_ids", "params"}
MixFields     == {"mix_presentation_id", "languages", "annotations", "sub_mixes"}

\* What follows a descriptor or its payload.
Tail2(obu) == obu.payload.trailing \o obu.trailing

\* A descriptor reads back with its own trailing bytes in those of its OBU.
LEMMA DescriptorOwned ==
  ASSUME NEW obu, Whole(obu), obu.kind \in Descriptors,
         obu.kind = "codec_config" => obu.payload.decoder_config.kind # "raw",
         obu.kind = "audio_element" => obu.payload.type.kind # "reserved"
  PROVE  ReadsBackAs(obu)
           = ObuWith(obu.kind, AsRead(obu.header), [obu.payload EXCEPT !.trailing = <<>>], Tail2(obu))
<1> DEFINE kind    == obu.kind
           header  == obu.header
           payload == obu.payload
           rest    == obu.trailing
           tail    == Tail2(obu)
           bare    == [payload EXCEPT !.trailing = <<>>]
           h       == AsRead(header)
<1>1. obu = ObuWith(kind, header, payload, rest)
  BY DEF Whole
<1> HIDE DEF kind, header, payload, rest, tail, h
<1>2. PICK owned : owned = [obu EXCEPT !.payload.trailing = <<>>, !.trailing = tail]
  OBVIOUS
<1>3. owned = ObuWith(kind, header, bare, tail)
  BY <1>1, <1>2 DEF ObuWith
<1>4. Merged(obu) = owned
  <2>1. kind # "audio_frame" /\ obu.kind \in Descriptors
    BY DEF Descriptors, kind
  <2>2. Merged(obu) = [obu EXCEPT !.payload.trailing = <<>>,
                                  !.trailing = obu.payload.trailing \o obu.trailing]
    BY <2>1, Zenon DEF Merged, kind
  <2> QED  BY <1>2, <2>2 DEF tail, Tail2
<1>5. obu.kind # "parameter_block" /\ owned.header = header
  BY <1>3 DEF ObuWith, Descriptors
<1>6. ReadsBackAs(obu) = [owned EXCEPT !.header = AsRead(owned.header)]
  BY <1>4, <1>5 DEF ReadsBackAs
<1>7. [owned EXCEPT !.header = AsRead(owned.header)] = ObuWith(kind, h, bare, tail)
  <2> HIDE DEF bare
  <2>1. PICK b : b = [owned EXCEPT !.header = h]
    OBVIOUS
  <2>2. b = ObuWith(kind, h, bare, tail)
    BY <1>3, <2>1 DEF ObuWith
  <2> QED  BY <1>5, <2>1, <2>2 DEF h
<1> QED  BY <1>6, <1>7 DEF kind, header, payload, tail, h

LEMMA HeaderReplaced ==
  ASSUME NEW obu, NEW merged, NEW kind, NEW header, NEW payload, NEW trailing,
         obu.kind # "parameter_block", Merged(obu) = merged,
         merged = ObuWith(kind, header, payload, trailing)
  PROVE  ReadsBackAs(obu) = ObuWith(kind, AsRead(header), payload, trailing)
<1> DEFINE h == AsRead(header)
<1>1. merged.header = header
  BY DEF ObuWith
<1>2. ReadsBackAs(obu) = [merged EXCEPT !.header = AsRead(merged.header)]
  BY DEF ReadsBackAs
<1> HIDE DEF h
<1>3. PICK b : b = [merged EXCEPT !.header = h]
  OBVIOUS
<1>4. b = ObuWith(kind, h, payload, trailing)
  BY <1>3 DEF ObuWith
<1> QED  BY <1>1, <1>2, <1>3, <1>4 DEF h

\* The raw bytes of a decoder configuration take what trails them.
LEMMA RawConfigOwned ==
  ASSUME NEW obu, Whole(obu), obu.kind = "codec_config", obu.payload.decoder_config.kind = "raw"
  PROVE  \E fields : ReadsBackAs(obu)
           = ObuWith("codec_config", AsRead(obu.header),
                     [[obu.payload EXCEPT !.trailing = <<>>] EXCEPT !.decoder_config.fields = fields],
                     <<>>)
<1> DEFINE header  == obu.header
           payload == obu.payload
           rest    == obu.trailing
           tail    == Tail2(obu)
           bare    == [payload EXCEPT !.trailing = <<>>]
           fields  == bare.decoder_config.fields \o tail
           grown   == [bare EXCEPT !.decoder_config.fields = fields]
<1>1. obu = ObuWith("codec_config", header, payload, rest)
  BY DEF Whole
<1>2. Merged(obu) = [[obu EXCEPT !.payload.trailing = <<>>, !.trailing = tail]
                       EXCEPT !.payload.decoder_config.fields = @ \o tail, !.trailing = <<>>]
  <2>1. obu.kind \in Descriptors
    BY DEF Descriptors
  <2>2. tail = obu.payload.trailing \o obu.trailing
    BY DEF Tail2
  <2> HIDE DEF tail
  <2> QED  BY <2>1, <2>2 DEF Merged
<1> HIDE DEF header, payload, rest, tail
<1>3. PICK owned : owned = [obu EXCEPT !.payload.trailing = <<>>, !.trailing = tail]
  OBVIOUS
<1>4. owned = ObuWith("codec_config", header, bare, tail)
  BY <1>1, <1>3 DEF ObuWith
<1>5. Merged(obu) = [owned EXCEPT !.payload.decoder_config.fields = @ \o tail, !.trailing = <<>>]
  BY <1>2, <1>3
<1>6. PICK merged : merged = [owned EXCEPT !.payload.decoder_config.fields = @ \o tail,
                                           !.trailing = <<>>]
  OBVIOUS
<1>7. merged = ObuWith("codec_config", header, grown, <<>>)
  <2>1. owned.payload = bare
    BY <1>4 DEF ObuWith
  <2> HIDE DEF bare
  <2> QED  BY <1>4, <1>6, <2>1 DEF ObuWith
<1>8. obu.kind # "parameter_block" /\ Merged(obu) = merged
  BY <1>5, <1>6
<1> HIDE DEF bare, fields, grown
<1>9. ReadsBackAs(obu) = ObuWith("codec_config", AsRead(header), grown, <<>>)
  BY <1>7, <1>8, HeaderReplaced
<1> QED  BY Zenon, <1>9 DEF header, payload, bare, grown

\* So do the raw bytes of an element of a type without a name.
LEMMA ReservedElementOwned ==
  ASSUME NEW obu, Whole(obu), obu.kind = "audio_element", obu.payload.type.kind = "reserved"
  PROVE  \E body : ReadsBackAs(obu)
           = ObuWith("audio_element", AsRead(obu.header),
                     [[obu.payload EXCEPT !.trailing = <<>>] EXCEPT !.type.body = body], <<>>)
<1> DEFINE header  == obu.header
           payload == obu.payload
           rest    == obu.trailing
           tail    == Tail2(obu)
           bare    == [payload EXCEPT !.trailing = <<>>]
           body    == bare.type.body \o tail
           grown   == [bare EXCEPT !.type.body = body]
<1>1. obu = ObuWith("audio_element", header, payload, rest)
  BY DEF Whole
<1>2. Merged(obu) = [[obu EXCEPT !.payload.trailing = <<>>, !.trailing = tail]
                       EXCEPT !.payload.type.body = @ \o tail, !.trailing = <<>>]
  <2>1. obu.kind \in Descriptors
    BY DEF Descriptors
  <2>2. tail = obu.payload.trailing \o obu.trailing
    BY DEF Tail2
  <2> HIDE DEF tail
  <2> QED  BY <2>1, <2>2 DEF Merged
<1> HIDE DEF header, payload, rest, tail
<1>3. PICK owned : owned = [obu EXCEPT !.payload.trailing = <<>>, !.trailing = tail]
  OBVIOUS
<1>4. owned = ObuWith("audio_element", header, bare, tail)
  BY <1>1, <1>3 DEF ObuWith
<1>5. Merged(obu) = [owned EXCEPT !.payload.type.body = @ \o tail, !.trailing = <<>>]
  BY <1>2, <1>3
<1>6. PICK merged : merged = [owned EXCEPT !.payload.type.body = @ \o tail, !.trailing = <<>>]
  OBVIOUS
<1>7. merged = ObuWith("audio_element", header, grown, <<>>)
  <2>1. owned.payload = bare
    BY <1>4 DEF ObuWith
  <2> HIDE DEF bare
  <2> QED  BY <1>4, <1>6, <2>1 DEF ObuWith
<1>8. obu.kind # "parameter_block" /\ Merged(obu) = merged
  BY <1>5, <1>6
<1> HIDE DEF bare, body, grown
<1>9. ReadsBackAs(obu) = ObuWith("audio_element", AsRead(header), grown, <<>>)
  BY <1>7, <1>8, HeaderReplaced
<1> QED  BY Zenon, <1>9 DEF header, payload, bare, grown

\* An OBU that a program can hold: the fields of its kind are there.
FieldsOf(kind) ==
  CASE kind = "sequence_header"  -> HeaderFields
    [] kind = "codec_config"     -> ConfigFields
    [] kind = "audio_element"    -> ElementFields
    [] kind = "mix_presentation" -> MixFields
    [] kind = "parameter_block"  -> {"parameter_id", "subblocks"}
    [] kind = "audio_frame"      -> {"substream_id", "payload"}
    [] OTHER                     -> {}

Optional(option) == option = None \/ option = <<option[1]>>

DataShaped(data) ==
  /\ {"kind", "fields"} \subseteq DOMAIN data
  /\ data.kind = "recon_gain" =>
       \A l \in DOMAIN data.fields :
         /\ Optional(data.fields[l])
         /\ data.fields[l] # None => {"flag", "gains"} \subseteq DOMAIN data.fields[l][1]

PartsShaped(kind, payload) ==
  /\ kind = "codec_config" => {"kind", "fields"} \subseteq DOMAIN payload.decoder_config
  /\ kind = "audio_element" => {"kind", "body"} \subseteq DOMAIN payload.type
  /\ kind = "parameter_block" =>
       \A i \in DOMAIN payload.subblocks :
         "data" \in DOMAIN payload.subblocks[i] /\ DataShaped(payload.subblocks[i].data)

Shaped(obu) ==
  /\ Whole(obu) /\ "obu_type" \in DOMAIN obu.header
  /\ FieldsOf(obu.kind) \subseteq DOMAIN obu.payload
  /\ PartsShaped(obu.kind, obu.payload)

\* The kind of an OBU and its obu_type are read back.
SameKind(obu, back) ==
  back.kind = obu.kind /\ back.header.obu_type = obu.header.obu_type

LEMMA TypeIsRead ==
  ASSUME NEW header, "obu_type" \in DOMAIN header
  PROVE  AsRead(header).obu_type = header.obu_type
<1> DEFINE x == IF header.type_specific.trim # None THEN header.type_specific
                ELSE IF header.obu_type.raw \in AudioFrameTypes THEN Trimming(None) ELSE ReservedBit
<1>1. AsRead(header) = [header EXCEPT !.type_specific = x]
  BY Zenon DEF AsRead
<1> HIDE DEF x
<1> QED  BY <1>1

LEMMA WithKind ==
  ASSUME NEW obu, "obu_type" \in DOMAIN obu.header, NEW payload, NEW trailing, NEW kind,
         kind = obu.kind, ReadsBackAs(obu) = ObuWith(kind, AsRead(obu.header), payload, trailing)
  PROVE  SameKind(obu, ReadsBackAs(obu)) /\ ReadsBackAs(obu).payload = payload
<1> DEFINE h == AsRead(obu.header)
<1>1. h.obu_type = obu.header.obu_type
  BY TypeIsRead
<1> HIDE DEF h
<1>2. ReadsBackAs(obu) = ObuWith(kind, h, payload, trailing)
  BY DEF h
<1>3. /\ ReadsBackAs(obu).kind = kind /\ ReadsBackAs(obu).header = h
      /\ ReadsBackAs(obu).payload = payload
  BY <1>2 DEF ObuWith
<1> QED  BY <1>1, <1>3 DEF SameKind

LEMMA HeaderIsAlike ==
  ASSUME NEW obu, Shaped(obu), obu.kind = "sequence_header"
  PROVE  SameKind(obu, ReadsBackAs(obu)) /\ AlikeHeader(obu.payload, ReadsBackAs(obu).payload)
<1> DEFINE p    == obu.payload
           bare == [p EXCEPT !.trailing = <<>>]
<1>1. Whole(obu) /\ "obu_type" \in DOMAIN obu.header /\ HeaderFields \subseteq DOMAIN p
  BY DEF Shaped, FieldsOf
<1>2. ReadsBackAs(obu) = ObuWith(obu.kind, AsRead(obu.header), bare, Tail2(obu))
  BY <1>1, DescriptorOwned DEF Descriptors
<1>3. SameKind(obu, ReadsBackAs(obu)) /\ ReadsBackAs(obu).payload = bare
  <2> HIDE DEF bare
  <2> QED  BY <1>1, <1>2, WithKind
<1>4. AlikeHeader(p, bare)
  <2> HIDE DEF p
  <2> QED  BY <1>1 DEF AlikeHeader, HeaderFields
<1> QED  BY <1>3, <1>4

LEMMA MixIsAlike ==
  ASSUME NEW obu, Shaped(obu), obu.kind = "mix_presentation"
  PROVE  SameKind(obu, ReadsBackAs(obu)) /\ AlikeMix(obu.payload, ReadsBackAs(obu).payload)
<1> DEFINE p    == obu.payload
           bare == [p EXCEPT !.trailing = <<>>]
<1>1. Whole(obu) /\ "obu_type" \in DOMAIN obu.header /\ MixFields \subseteq DOMAIN p
  BY DEF Shaped, FieldsOf
<1>2. ReadsBackAs(obu) = ObuWith(obu.kind, AsRead(obu.header), bare, Tail2(obu))
  BY <1>1, DescriptorOwned DEF Descriptors
<1>3. SameKind(obu, ReadsBackAs(obu)) /\ ReadsBackAs(obu).payload = bare
  <2> HIDE DEF bare
  <2> QED  BY <1>1, <1>2, WithKind
<1>4. AlikeMix(p, bare)
  <2> HIDE DEF p
  <2> QED  BY <1>1 DEF AlikeMix, MixFields
<1> QED  BY <1>3, <1>4

LEMMA ConfigIsAlike ==
  ASSUME NEW obu, Shaped(obu), obu.kind = "codec_config"
  PROVE  SameKind(obu, ReadsBackAs(obu)) /\ AlikeConfig(obu.payload, ReadsBackAs(obu).payload)
<1> DEFINE p    == obu.payload
           bare == [p EXCEPT !.trailing = <<>>]
<1>1. /\ Whole(obu) /\ "obu_type" \in DOMAIN obu.header /\ ConfigFields \subseteq DOMAIN p
      /\ {"kind", "fields"} \subseteq DOMAIN p.decoder_config
  BY DEF Shaped, FieldsOf, PartsShaped
<1>2. CASE p.decoder_config.kind # "raw"
  <2>1. ReadsBackAs(obu) = ObuWith(obu.kind, AsRead(obu.header), bare, Tail2(obu))
    BY <1>1, <1>2, DescriptorOwned DEF Descriptors
  <2>2. SameKind(obu, ReadsBackAs(obu)) /\ ReadsBackAs(obu).payload = bare
    <3> HIDE DEF bare
    <3> QED  BY <1>1, <2>1, WithKind
  <2>3. AlikeConfig(p, bare)
    <3> HIDE DEF p
    <3> QED  BY <1>1 DEF AlikeConfig, ConfigFields
  <2> QED  BY <2>2, <2>3
<1>3. CASE p.decoder_config.kind = "raw"
  <2>1. PICK fields : ReadsBackAs(obu) = ObuWith("codec_config", AsRead(obu.header),
                                                 [bare EXCEPT !.decoder_config.fields = fields], <<>>)
    BY Zenon, <1>1, <1>3, RawConfigOwned
  <2> DEFINE grown == [bare EXCEPT !.decoder_config.fields = fields]
  <2>2. SameKind(obu, ReadsBackAs(obu)) /\ ReadsBackAs(obu).payload = grown
    <3> HIDE DEF grown
    <3> QED  BY <1>1, <2>1, WithKind DEF grown
  <2>3. AlikeConfig(p, grown)
    <3> HIDE DEF p
    <3> QED  BY <1>1, <1>3 DEF AlikeConfig, ConfigFields
  <2> QED  BY <2>2, <2>3
<1> QED  BY <1>2, <1>3

LEMMA ElementIsAlike ==
  ASSUME NEW obu, Shaped(obu), obu.kind = "audio_element"
  PROVE  SameKind(obu, ReadsBackAs(obu)) /\ AlikeElement(obu.payload, ReadsBackAs(obu).payload)
<1> DEFINE p    == obu.payload
           bare == [p EXCEPT !.trailing = <<>>]
<1>1. /\ Whole(obu) /\ "obu_type" \in DOMAIN obu.header /\ ElementFields \subseteq DOMAIN p
      /\ {"kind", "body"} \subseteq DOMAIN p.type
  BY DEF Shaped, FieldsOf, PartsShaped
<1>2. CASE p.type.kind # "reserved"
  <2>1. ReadsBackAs(obu) = ObuWith(obu.kind, AsRead(obu.header), bare, Tail2(obu))
    BY <1>1, <1>2, DescriptorOwned DEF Descriptors
  <2>2. SameKind(obu, ReadsBackAs(obu)) /\ ReadsBackAs(obu).payload = bare
    <3> HIDE DEF bare
    <3> QED  BY <1>1, <2>1, WithKind
  <2>3. AlikeElement(p, bare)
    <3> HIDE DEF p
    <3> QED  BY <1>1 DEF AlikeElement, ElementFields
  <2> QED  BY <2>2, <2>3
<1>3. CASE p.type.kind = "reserved"
  <2>1. PICK body : ReadsBackAs(obu) = ObuWith("audio_element", AsRead(obu.header),
                                               [bare EXCEPT !.type.body = body], <<>>)
    BY Zenon, <1>1, <1>3, ReservedElementOwned
  <2> DEFINE grown == [bare EXCEPT !.type.body = body]
  <2>2. SameKind(obu, ReadsBackAs(obu)) /\ ReadsBackAs(obu).payload = grown
    <3> HIDE DEF grown
    <3> QED  BY <1>1, <2>1, WithKind DEF grown
  <2>3. AlikeElement(p, grown)
    <3> HIDE DEF p
    <3> QED  BY <1>1, <1>3 DEF AlikeElement, ElementFields
  <2> QED  BY <2>2, <2>3
<1> QED  BY <1>2, <1>3

\* An OBU whose payload is not cut from what trails it.
LEMMA OthersOwned ==
  ASSUME NEW obu, Whole(obu), obu.kind \notin Descriptors, obu.kind # "audio_frame",
         obu.kind # "parameter_block"
  PROVE  ReadsBackAs(obu) = ObuWith(obu.kind, AsRead(obu.header), obu.payload, obu.trailing)
<1>1. Merged(obu) = obu
  <2>1. obu.kind # "codec_config" /\ obu.kind # "audio_element"
    BY DEF Descriptors
  <2> QED  BY <2>1 DEF Merged
<1>2. obu = ObuWith(obu.kind, obu.header, obu.payload, obu.trailing)
  BY DEF Whole
<1> DEFINE kind == obu.kind  header == obu.header  payload == obu.payload  rest == obu.trailing
<1>3. obu = ObuWith(kind, header, payload, rest) /\ Merged(obu) = obu
  BY <1>1, <1>2
<1> HIDE DEF kind, header, payload, rest
<1>4. ReadsBackAs(obu) = ObuWith(kind, AsRead(header), payload, rest)
  BY <1>3, HeaderReplaced
<1> QED  BY <1>4 DEF kind, header, payload, rest

LEMMA FrameIsAlike ==
  ASSUME NEW obu, Shaped(obu), obu.kind = "audio_frame"
  PROVE  /\ SameKind(obu, ReadsBackAs(obu))
         /\ ReadsBackAs(obu).payload.substream_id = obu.payload.substream_id
<1> DEFINE header  == obu.header
           payload == obu.payload
           rest    == obu.trailing
           whole   == payload.payload \o rest
           grown   == [payload EXCEPT !.payload = whole]
<1>1. /\ obu = ObuWith("audio_frame", header, payload, rest) /\ "obu_type" \in DOMAIN header
      /\ {"substream_id", "payload"} \subseteq DOMAIN payload
  BY DEF Shaped, FieldsOf, Whole
<1>2. Merged(obu) = [obu EXCEPT !.payload.payload = @ \o rest, !.trailing = <<>>]
  <2>1. obu.kind \notin Descriptors /\ obu.kind # "codec_config" /\ obu.kind # "audio_element"
    BY DEF Descriptors
  <2> QED  BY <2>1 DEF Merged
<1> HIDE DEF header, payload, rest
<1>3. PICK merged : merged = [obu EXCEPT !.payload.payload = @ \o rest, !.trailing = <<>>]
  OBVIOUS
<1>4. merged = ObuWith("audio_frame", header, grown, <<>>)
  BY <1>1, <1>3 DEF ObuWith
<1>5. grown.substream_id = payload.substream_id
  BY <1>1
<1> HIDE DEF grown
<1>6. ReadsBackAs(obu) = ObuWith("audio_frame", AsRead(header), grown, <<>>)
  BY <1>2, <1>3, <1>4, HeaderReplaced
<1>7. SameKind(obu, ReadsBackAs(obu)) /\ ReadsBackAs(obu).payload = grown
  BY <1>1, <1>6, WithKind DEF header
<1> QED  BY <1>5, <1>7 DEF payload

LEMMA BlockIsAlike ==
  ASSUME NEW obu, Shaped(obu), obu.kind = "parameter_block"
  PROVE  /\ SameKind(obu, ReadsBackAs(obu))
         /\ ReadsBackAs(obu).payload.parameter_id = obu.payload.parameter_id
         /\ ReadsBackAs(obu).payload.subblocks = SubblocksRead(obu.payload.subblocks)
<1> DEFINE header  == obu.header
           payload == obu.payload
           rest    == obu.trailing
           h       == AsRead(header)
           read    == SubblocksRead(payload.subblocks)
           chosen  == [payload EXCEPT !.subblocks = read]
<1>1. /\ obu = ObuWith("parameter_block", header, payload, rest) /\ "obu_type" \in DOMAIN header
      /\ {"parameter_id", "subblocks"} \subseteq DOMAIN payload
  BY DEF Shaped, FieldsOf, Whole
<1>2. Merged(obu) = obu
  <2>1. /\ obu.kind \notin Descriptors /\ obu.kind # "codec_config" /\ obu.kind # "audio_element"
        /\ obu.kind # "audio_frame"
    BY DEF Descriptors
  <2> QED  BY <2>1 DEF Merged
<1>3. PICK framed : framed = [obu EXCEPT !.header = AsRead(@)]
  OBVIOUS
<1>4. ReadsBackAs(obu)
        = [framed EXCEPT !.payload.subblocks = SubblocksRead(framed.payload.subblocks)]
  BY <1>2, <1>3 DEF ReadsBackAs
<1> HIDE DEF header, payload, rest
<1>5. framed = ObuWith("parameter_block", h, payload, rest)
  BY <1>1, <1>3 DEF ObuWith
<1>6. framed.payload = payload
  BY <1>5 DEF ObuWith
<1>8. ReadsBackAs(obu) = [framed EXCEPT !.payload.subblocks = read]
  BY <1>4, <1>6
<1> HIDE DEF read, h
<1>9. PICK back : back = [framed EXCEPT !.payload.subblocks = read]
  OBVIOUS
<1>10. back = ObuWith("parameter_block", h, chosen, rest)
  BY <1>5, <1>9 DEF ObuWith
<1>11. chosen.parameter_id = payload.parameter_id /\ chosen.subblocks = read
  BY <1>1
<1> HIDE DEF chosen
<1>12. ReadsBackAs(obu) = ObuWith("parameter_block", AsRead(header), chosen, rest)
  BY <1>8, <1>9, <1>10 DEF h
<1>13. SameKind(obu, ReadsBackAs(obu)) /\ ReadsBackAs(obu).payload = chosen
  BY <1>1, <1>12, WithKind DEF header
<1> QED  BY <1>11, <1>13 DEF payload, read

\* A flag is read as it was written, whatever gains it selects.
LEMMA DataIsAlike ==
  ASSUME NEW data, DataShaped(data)
  PROVE  DataFindings(SelectedOnly(data)) = DataFindings(data)
<1>1. CASE data.kind # "recon_gain"
  BY <1>1 DEF SelectedOnly
<1>2. CASE data.kind = "recon_gain"
  <2> DEFINE layers  == data.fields
             Gain(e) == [i \in Gains |-> IF Selects(e.flag, i) THEN e.gains[i] ELSE 0]
             Keep(e) == [e EXCEPT !.gains = Gain(e)]
             kept    == [l \in DOMAIN layers |-> IF layers[l] = None THEN None
                                                 ELSE Some(Keep(layers[l][1]))]
             Of(l)   == FlattenSeq([k \in DOMAIN l |-> FlagFindings(l[k])])
  <2>1. /\ {"kind", "fields"} \subseteq DOMAIN data
        /\ \A l \in DOMAIN layers :
             /\ layers[l] = <<>> \/ layers[l] = <<layers[l][1]>>
             /\ layers[l] # <<>> => {"flag", "gains"} \subseteq DOMAIN layers[l][1]
    BY <1>2 DEF DataShaped, Optional, None
  <2>2. SelectedOnly(data) = [data EXCEPT !.fields = kept]
    BY <1>2 DEF SelectedOnly
  <2>3. SelectedOnly(data).kind = "recon_gain" /\ SelectedOnly(data).fields = kept
    <3> HIDE DEF kept
    <3> QED  BY <1>2, <2>1, <2>2
  <2>4. \A d : d.kind = "recon_gain" =>
               DataFindings(d) = FlattenSeq([l \in DOMAIN d.fields |-> Of(d.fields[l])])
    BY DEF DataFindings, FoundIn
  <2>5. ASSUME NEW l \in DOMAIN layers PROVE Of(kept[l]) = Of(layers[l])
    <3>1. CASE layers[l] = <<>>
      <4>1. kept[l] = <<>>
        BY <3>1 DEF None
      <4> QED  BY Zenon, <3>1, <4>1
    <3>2. CASE layers[l] # <<>>
      <4> DEFINE e == layers[l][1]
      <4>1. layers[l] = <<e>> /\ "flag" \in DOMAIN e
        BY <2>1, <3>2
      <4>2. kept[l] = <<Keep(e)>>
        BY <3>2 DEF None, Some
      <4>3. Keep(e).flag = e.flag
        <5> HIDE DEF e
        <5> DEFINE g == Gain(e)
        <5> HIDE DEF g
        <5>1. [e EXCEPT !.gains = g].flag = e.flag
          BY <4>1
        <5> QED  BY <5>1 DEF g
      <4> HIDE DEF e, Keep
      <4>4. FlagFindings(Keep(e)) = FlagFindings(e)
        BY <4>3 DEF FlagFindings
      <4>5. \A x : Of(<<x>>) = FlattenSeq([k \in 1 .. 1 |-> FlagFindings(x)])
        <5> SUFFICES ASSUME NEW x PROVE Of(<<x>>) = FlattenSeq([k \in 1 .. 1 |-> FlagFindings(x)])
          OBVIOUS
        <5>1. [k \in DOMAIN <<x>> |-> FlagFindings(<<x>>[k])] = [k \in 1 .. 1 |-> FlagFindings(x)]
          OBVIOUS
        <5> QED  BY <5>1
      <4> HIDE DEF Of
      <4>6. Of(<<Keep(e)>>) = FlattenSeq([k \in 1 .. 1 |-> FlagFindings(Keep(e))])
        BY <4>5
      <4>7. Of(<<e>>) = FlattenSeq([k \in 1 .. 1 |-> FlagFindings(e)])
        BY <4>5
      <4> QED  BY <4>1, <4>2, <4>4, <4>6, <4>7
    <3> QED  BY Zenon, <3>1, <3>2
  <2>6. DOMAIN kept = DOMAIN layers
    OBVIOUS
  <2> HIDE DEF kept, Of
  <2>7. [l \in DOMAIN kept |-> Of(kept[l])] = [l \in DOMAIN layers |-> Of(layers[l])]
    BY <2>5, <2>6
  <2> QED  BY <1>2, <2>3, <2>4, <2>7
<1> QED  BY <1>1, <1>2

\* What validate finds in a payload depends on what it looks at only.
LEMMA HeaderFindingsAlike ==
  ASSUME NEW p, NEW q, AlikeHeader(p, q)
  PROVE  HeaderFindings(q) = HeaderFindings(p)
BY DEF AlikeHeader, HeaderFindings

LEMMA ConfigFindingsAlike ==
  ASSUME NEW p, NEW q, AlikeConfig(p, q)
  PROVE  ConfigFindings(q) = ConfigFindings(p)
<1>1. CodecFindings(q) = CodecFindings(p)
  <2>1. CASE p.decoder_config.kind = "raw"
    BY <2>1 DEF AlikeConfig, CodecFindings
  <2>2. CASE p.decoder_config.kind # "raw"
    BY Zenon, <2>2 DEF AlikeConfig, CodecFindings
  <2> QED  BY <2>1, <2>2
<1> DEFINE All(found, id) == LET s == SetToSeq(found)
                             IN  FlattenSeq([i \in DOMAIN s |-> Found(TRUE, s[i], id)])
<1>2. \A v : ConfigFindings(v) = All(CodecFindings(v), v.codec_config_id)
  BY DEF ConfigFindings, FoundIn
<1> HIDE DEF All
<1> QED  BY <1>1, <1>2 DEF AlikeConfig

LEMMA ElementFindingsAlike ==
  ASSUME NEW p, NEW q, AlikeElement(p, q)
  PROVE  ElementFindings(q) = ElementFindings(p)
<1> DEFINE All(params)     == FlattenSeq([i \in DOMAIN params |-> ParamFindings(params[i])])
           LaidOut(type, ids) == IF type.kind # "channel_based" THEN <<>>
                              ELSE LayoutFindings(type.body, Len(ids))
           Sum(reserved, ids, laid, all, params, id) ==
             Reserved(reserved, "audio_element.reserved")
             \o Found(ids = <<>>, "num_substreams", 0)
             \o laid \o all
             \o Found(Len(params) > MaxNumParameters, "num_parameters", id)
<1>1. \A e : ElementFindings(e)
               = Sum(e.reserved, e.substream_ids, LaidOut(e.type, e.substream_ids), All(e.params),
                      e.params, e.audio_element_id)
  BY DEF ElementFindings, FoundIn
<1>2. LaidOut(q.type, q.substream_ids) = LaidOut(p.type, p.substream_ids)
  BY DEF AlikeElement
<1> HIDE DEF All, LaidOut, Sum
<1> QED  BY <1>1, <1>2 DEF AlikeElement

LEMMA PresentationFindingsAlike ==
  ASSUME NEW p, NEW q, AlikeMix(p, q)
  PROVE  PresentationFindings(q) = PresentationFindings(p)
<1> DEFINE Ids(sub_mixes) ==
             FlattenSeq([s \in DOMAIN sub_mixes |->
               [i \in DOMAIN sub_mixes[s].elements |-> sub_mixes[s].elements[i].audio_element_id]])
           Played(sub_mixes) ==
             FlattenSeq([i \in DOMAIN Ids(sub_mixes) |->
               Found(\E j \in 1 .. i - 1 : Ids(sub_mixes)[j] = Ids(sub_mixes)[i],
                     "sub_mix.audio_element_id", Ids(sub_mixes)[i])])
           All(languages, annotations, sub_mixes) ==
             Found(Len(annotations) # Len(languages), "localized_presentation_annotations",
                   Len(languages))
             \o FlattenSeq([i \in DOMAIN languages |->
                  Found(\E j \in 1 .. i - 1 : SameTag(languages[j], languages[i]),
                        "annotations_language.repeated", languages[i])])
             \o FlattenSeq([i \in DOMAIN languages |->
                  Found(~IsWellFormedLanguageTag(languages[i]), "annotations_language",
                        languages[i])])
             \o Found(Len(sub_mixes) # 1, "num_sub_mixes", Len(sub_mixes))
             \o Played(sub_mixes)
             \o FlattenSeq([i \in DOMAIN sub_mixes |->
                  SubMixFindings(sub_mixes[i], Len(languages))])
<1>1. \A v : PresentationFindings(v) = All(v.languages, v.annotations, v.sub_mixes)
  BY DEF PresentationFindings, References, Repeated, FoundIn
<1> HIDE DEF All
<1> QED  BY <1>1 DEF AlikeMix

\* So does what a descriptor publishes.
LEMMA ElementPublishesAlike ==
  ASSUME NEW p, NEW q, AlikeElement(p, q)
  PROVE  PublishedByElement(q) = PublishedByElement(p)
<1> DEFINE Gates(type) == IF type.kind # "channel_based" THEN <<>>
                          ELSE [i \in DOMAIN type.body.layers |-> type.body.layers[i].recon_gain]
           All(params, gates) ==
             FlattenSeq([i \in DOMAIN params |->
               IF params[i].definition = None THEN <<>>
               ELSE <<[definition |-> params[i].definition[1],
                       context |-> IF params[i].type = ParamDemixing THEN DemixingContext
                                   ELSE ReconGainContext(gates)]>>])
<1>1. \A e : PublishedByElement(e) = All(e.params, Gates(e.type))
  BY DEF PublishedByElement, PutEach
<1>2. Gates(q.type) = Gates(p.type)
  BY DEF AlikeElement
<1> HIDE DEF All, Gates
<1> QED  BY <1>1, <1>2 DEF AlikeElement

LEMMA PresentationPublishesAlike ==
  ASSUME NEW p, NEW q, AlikeMix(p, q)
  PROVE  PublishedByPresentation(q) = PublishedByPresentation(p)
<1> DEFINE All(sub_mixes) == PublishedByPresentation([sub_mixes |-> sub_mixes])
<1>1. \A v : PublishedByPresentation(v) = All(v.sub_mixes)
  BY DEF PublishedByPresentation, PutEach
<1> HIDE DEF All
<1> QED  BY <1>1 DEF AlikeMix

\* What validate sees of an OBU, by itself and among the others.
SeenAlike(obu, back) ==
  /\ SameKind(obu, back)
  /\ obu.kind = "codec_config" => AlikeConfig(obu.payload, back.payload)
  /\ obu.kind = "audio_element" => AlikeElement(obu.payload, back.payload)
  /\ obu.kind = "mix_presentation" => AlikeMix(obu.payload, back.payload)
  /\ ObuFindings(back) = ObuFindings(obu)
  /\ Observe(<<>>, back) = Observe(<<>>, obu)
  /\ \A elements, known :
       TemporalFindings(back, elements, known) = TemporalFindings(obu, elements, known)

LEMMA BlockFindingsAlike ==
  ASSUME NEW obu, Shaped(obu), obu.kind = "parameter_block"
  PROVE  BlockFindings(ReadsBackAs(obu).payload) = BlockFindings(obu.payload)
<1> DEFINE s    == obu.payload.subblocks
           read == SubblocksRead(s)
           Of(t) == FlattenSeq([i \in DOMAIN t |-> DataFindings(t[i].data)])
<1>1. \A i \in DOMAIN s : "data" \in DOMAIN s[i] /\ DataShaped(s[i].data)
  BY DEF Shaped, PartsShaped
<1>2. \A v : BlockFindings(v) = Of(v.subblocks)
  BY DEF BlockFindings, FoundIn
<1>3. ReadsBackAs(obu).payload.subblocks = read
  BY BlockIsAlike
<1> HIDE DEF s
<1>4. /\ DOMAIN read = DOMAIN s
      /\ \A i \in DOMAIN s : read[i] = [s[i] EXCEPT !.data = SelectedOnly(s[i].data)]
  BY DEF SubblocksRead
<1> HIDE DEF read
<1>5. ASSUME NEW i \in DOMAIN s PROVE DataFindings(read[i].data) = DataFindings(s[i].data)
  <2> DEFINE one  == s[i]
             data == SelectedOnly(one.data)
  <2>1. "data" \in DOMAIN one /\ read[i] = [one EXCEPT !.data = data]
    BY <1>1, <1>4
  <2> HIDE DEF one, data
  <2>2. read[i].data = data
    BY <2>1
  <2> QED  BY <1>1, <2>2, DataIsAlike DEF one, data
<1>6. [i \in DOMAIN read |-> DataFindings(read[i].data)]
        = [i \in DOMAIN s |-> DataFindings(s[i].data)]
  BY <1>4, <1>5
<1>7. Of(read) = Of(s)
  BY <1>6
<1> HIDE DEF Of
<1> QED  BY <1>2, <1>3, <1>7 DEF s

LEMMA BackIsAlike ==
  ASSUME NEW obu, Shaped(obu)
  PROVE  SeenAlike(obu, ReadsBackAs(obu))
<1> DEFINE back == ReadsBackAs(obu)
<1>1. CASE obu.kind = "sequence_header"
  <2>1. SameKind(obu, back) /\ back.kind = "sequence_header"
        /\ HeaderFindings(back.payload) = HeaderFindings(obu.payload)
    BY <1>1, HeaderIsAlike, HeaderFindingsAlike DEF SameKind
  <2> HIDE DEF back
  <2> QED  BY <1>1, <2>1 DEF SeenAlike, ObuFindings, Observe, TemporalFindings, back
<1>2. CASE obu.kind = "codec_config"
  <2>1. SameKind(obu, back) /\ back.kind = "codec_config" /\ AlikeConfig(obu.payload, back.payload)
        /\ ConfigFindings(back.payload) = ConfigFindings(obu.payload)
    BY <1>2, ConfigIsAlike, ConfigFindingsAlike DEF SameKind
  <2> HIDE DEF back
  <2> QED  BY <1>2, <2>1 DEF SeenAlike, ObuFindings, Observe, TemporalFindings, back
<1>3. CASE obu.kind = "audio_element"
  <2>1. SameKind(obu, back) /\ back.kind = "audio_element" /\ AlikeElement(obu.payload, back.payload)
        /\ ElementFindings(back.payload) = ElementFindings(obu.payload)
        /\ PublishedByElement(back.payload) = PublishedByElement(obu.payload)
    BY <1>3, ElementIsAlike, ElementFindingsAlike, ElementPublishesAlike DEF SameKind
  <2> HIDE DEF back
  <2> QED  BY <1>3, <2>1 DEF SeenAlike, ObuFindings, Observe, ObserveAudioElement,
                               TemporalFindings, back
<1>4. CASE obu.kind = "mix_presentation"
  <2>1. SameKind(obu, back) /\ back.kind = "mix_presentation" /\ AlikeMix(obu.payload, back.payload)
        /\ PresentationFindings(back.payload) = PresentationFindings(obu.payload)
        /\ PublishedByPresentation(back.payload) = PublishedByPresentation(obu.payload)
    BY <1>4, MixIsAlike, PresentationFindingsAlike, PresentationPublishesAlike DEF SameKind
  <2> HIDE DEF back
  <2> QED  BY <1>4, <2>1 DEF SeenAlike, ObuFindings, Observe, ObserveMixPresentation,
                               TemporalFindings, back
<1>5. CASE obu.kind = "parameter_block"
  <2>1. SameKind(obu, back) /\ back.kind = "parameter_block"
        /\ back.payload.parameter_id = obu.payload.parameter_id
        /\ BlockFindings(back.payload) = BlockFindings(obu.payload)
    BY <1>5, BlockIsAlike, BlockFindingsAlike DEF SameKind
  <2> HIDE DEF back
  <2> QED  BY <1>5, <2>1 DEF SeenAlike, ObuFindings, Observe, TemporalFindings, back
<1>6. CASE obu.kind = "audio_frame"
  <2>1. SameKind(obu, back) /\ back.kind = "audio_frame"
        /\ back.header.obu_type = obu.header.obu_type
        /\ back.payload.substream_id = obu.payload.substream_id
    BY <1>6, FrameIsAlike DEF SameKind
  <2> HIDE DEF back
  <2>2. FrameFindings(back) = FrameFindings(obu)
    BY <2>1 DEF FrameFindings
  <2>3. \A elements, known :
          TemporalFindings(back, elements, known) = TemporalFindings(obu, elements, known)
    BY <1>6, <2>1 DEF TemporalFindings
  <2> QED  BY <1>6, <2>1, <2>2, <2>3 DEF SeenAlike, ObuFindings, Observe, back
<1>7. CASE obu.kind \notin Descriptors /\ obu.kind # "audio_frame" /\ obu.kind # "parameter_block"
  <2>1. back = ObuWith(obu.kind, AsRead(obu.header), obu.payload, obu.trailing)
    BY <1>7, OthersOwned DEF Shaped
  <2>2. SameKind(obu, back) /\ back.payload = obu.payload
    BY <2>1, WithKind DEF Shaped
  <2>3. back.kind = obu.kind
    BY <2>2 DEF SameKind
  <2> HIDE DEF back
  <2>4. \A elements, known :
          TemporalFindings(back, elements, known) = TemporalFindings(obu, elements, known)
    BY <1>7, <2>2, <2>3 DEF TemporalFindings
  <2> QED  BY <1>7, <2>2, <2>3, <2>4 DEF SeenAlike, ObuFindings, Observe, Descriptors, back
<1> QED  BY <1>1, <1>2, <1>3, <1>4, <1>5, <1>6, <1>7 DEF Descriptors

LEMMA SingleMapped ==
  ASSUME NEW g, NEW x
  PROVE  Mapped(g, <<x>>) = <<g[x]>> /\ Mapped(g, <<>>) = <<>>
<1>1. /\ DOMAIN <<x>> = 1 .. 1 /\ <<x>>[1] = x /\ DOMAIN <<>> = 1 .. 0
      /\ <<g[x]>> = [j \in 1 .. 1 |-> g[x]]
  OBVIOUS
<1>2. Mapped(g, <<x>>) = [j \in 1 .. 1 |-> g[x]]
  <2>1. \A j \in 1 .. 1 : g[<<x>>[j]] = g[x]
    BY <1>1
  <2> QED  BY <1>1, <2>1 DEF Mapped
<1>3. Mapped(g, <<>>) = <<>>
  BY <1>1 DEF Mapped
<1> QED  BY <1>1, <1>2, <1>3

AllSeen(obus, backs) ==
  DOMAIN backs = DOMAIN obus /\ \A i \in DOMAIN obus : SeenAlike(obus[i], backs[i])

\* Two lists are as long.
Paired(s, t) ==
  /\ (\E S : s \in Seq(S)) /\ (\E T : t \in Seq(T))
  /\ DOMAIN s = 1 .. Len(s) /\ DOMAIN t = DOMAIN s /\ Len(t) = Len(s)

\* The payloads of a kind correspond in two lists of OBUs that are alike.
Corresponds(obus, backs, kind) ==
  /\ Paired(PayloadsOf(obus, kind), PayloadsOf(backs, kind))
  /\ \A k \in DOMAIN PayloadsOf(obus, kind) : \E i \in DOMAIN obus :
       /\ obus[i].kind = kind
       /\ PayloadsOf(obus, kind)[k] = obus[i].payload
       /\ PayloadsOf(backs, kind)[k] = backs[i].payload

LEMMA PayloadsCorrespond ==
  ASSUME NEW V, NEW obus \in Seq(V), NEW backs, AllSeen(obus, backs), NEW kind
  PROVE  Corresponds(obus, backs, kind)
<1> DEFINE n     == Len(obus)
           P     == {obus[i].payload : i \in 1 .. n}
           Q     == {backs[i].payload : i \in 1 .. n}
           here  == [i \in 1 .. n |-> IF obus[i].kind = kind THEN <<i>> ELSE <<>>]
           left  == [i \in 1 .. n |-> obus[i].payload]
           right == [i \in 1 .. n |-> backs[i].payload]
           found == FlattenSeq(here)
<1>1. n \in Nat /\ DOMAIN obus = 1 .. n /\ DOMAIN backs = 1 .. n
  BY DEF AllSeen
<1>2. \A i \in 1 .. n : backs[i].kind = obus[i].kind
  BY <1>1 DEF AllSeen, SeenAlike, SameKind
<1>3. here \in Seq(Seq(1 .. n)) /\ left \in [1 .. n -> P] /\ right \in [1 .. n -> Q]
  <2>1. left \in [1 .. n -> P] /\ right \in [1 .. n -> Q]
    BY Zenon
  <2>2. \A i \in 1 .. n : here[i] \in Seq(1 .. n)
    <3> SUFFICES ASSUME NEW i \in 1 .. n PROVE here[i] \in Seq(1 .. n)
      BY Zenon
    <3>1. <<i>> \in Seq(1 .. n) /\ <<>> \in Seq(1 .. n)
      OBVIOUS
    <3>2. here[i] = <<i>> \/ here[i] = <<>>
      OBVIOUS
    <3> QED  BY <3>1, <3>2
  <2>3. n \in Nat /\ here = [i \in 1 .. n |-> here[i]]
    BY <1>1
  <2> HIDE DEF here
  <2> QED  BY <2>1, <2>2, <2>3
<1>4. MappedLists(left, here) = [i \in DOMAIN obus |-> When(obus[i].kind = kind, obus[i].payload)]
  <2>1. \A i \in 1 .. n : Mapped(left, here[i]) = When(obus[i].kind = kind, obus[i].payload)
    <3> SUFFICES ASSUME NEW i \in 1 .. n
                 PROVE  Mapped(left, here[i]) = When(obus[i].kind = kind, obus[i].payload)
      BY Zenon
    <3>1. left[i] = obus[i].payload
      OBVIOUS
    <3>2. here[i] = IF obus[i].kind = kind THEN <<i>> ELSE <<>>
      OBVIOUS
    <3> HIDE DEF left, here
    <3>3. Mapped(left, <<i>>) = <<left[i]>> /\ Mapped(left, <<>>) = <<>>
      BY SingleMapped
    <3>4. CASE obus[i].kind = kind
      BY <3>1, <3>2, <3>3, <3>4 DEF When, Some
    <3>5. CASE obus[i].kind # kind
      BY <3>1, <3>2, <3>3, <3>5 DEF When, None
    <3> QED  BY <3>4, <3>5
  <2> HIDE DEF left, here
  <2>2. DOMAIN here = 1 .. n
    BY DEF here
  <2> QED  BY <1>1, <2>1, <2>2 DEF MappedLists, Mapped
<1>5. MappedLists(right, here)
        = [i \in DOMAIN backs |-> When(backs[i].kind = kind, backs[i].payload)]
  <2>1. \A i \in 1 .. n : Mapped(right, here[i]) = When(backs[i].kind = kind, backs[i].payload)
    <3> SUFFICES ASSUME NEW i \in 1 .. n
                 PROVE  Mapped(right, here[i]) = When(backs[i].kind = kind, backs[i].payload)
      BY Zenon
    <3>1. right[i] = backs[i].payload /\ backs[i].kind = obus[i].kind
      BY <1>2
    <3>2. here[i] = IF obus[i].kind = kind THEN <<i>> ELSE <<>>
      OBVIOUS
    <3> HIDE DEF right, here
    <3>3. Mapped(right, <<i>>) = <<right[i]>> /\ Mapped(right, <<>>) = <<>>
      BY SingleMapped
    <3>4. CASE obus[i].kind = kind
      BY <3>1, <3>2, <3>3, <3>4 DEF When, Some
    <3>5. CASE obus[i].kind # kind
      BY <3>1, <3>2, <3>3, <3>5 DEF When, None
    <3> QED  BY <3>4, <3>5
  <2> HIDE DEF right, here
  <2>2. DOMAIN here = 1 .. n
    BY DEF here
  <2> QED  BY <1>1, <2>1, <2>2 DEF MappedLists, Mapped
<1> HIDE DEF here, left, right, P, Q
<1>6. /\ found \in Seq(1 .. n)
      /\ \A k \in DOMAIN found : \E i \in DOMAIN here : \E j \in DOMAIN here[i] : found[k] = here[i][j]
  BY <1>3, FlattenMembers
<1>7. \A k \in DOMAIN found : found[k] \in 1 .. n /\ obus[found[k]].kind = kind
  <2>1. \A i \in 1 .. n : \A j \in DOMAIN here[i] :
          here[i][j] = i /\ obus[i].kind = kind
    BY DEF here
  <2>2. DOMAIN here = 1 .. n
    BY DEF here
  <2> HIDE DEF found
  <2> QED  BY <1>6, <2>1, <2>2
<1>8. PayloadsOf(obus, kind) = Mapped(left, found)
  <2>1. FlattenSeq(MappedLists(left, here)) = Mapped(left, found)
    BY <1>3, FlattenMap
  <2> QED  BY <1>4, <2>1 DEF PayloadsOf
<1>9. PayloadsOf(backs, kind) = Mapped(right, found)
  <2>1. FlattenSeq(MappedLists(right, here)) = Mapped(right, found)
    BY <1>3, FlattenMap
  <2> QED  BY <1>5, <2>1 DEF PayloadsOf
<1>10. \A i \in 1 .. n : left[i] = obus[i].payload /\ right[i] = backs[i].payload
  BY DEF left, right
<1>12. Paired(PayloadsOf(obus, kind), PayloadsOf(backs, kind))
  <2>1. MapsMembers(1 .. n, P, left, found) /\ MapsMembers(1 .. n, Q, right, found)
    BY <1>3, <1>6, MappedTyped
  <2> HIDE DEF found
  <2>2. /\ Mapped(left, found) \in Seq(P) /\ Mapped(right, found) \in Seq(Q)
        /\ Len(Mapped(left, found)) = Len(found) /\ Len(Mapped(right, found)) = Len(found)
        /\ DOMAIN Mapped(left, found) = 1 .. Len(found)
        /\ DOMAIN Mapped(right, found) = 1 .. Len(found)
    BY <2>1 DEF MapsMembers
  <2> QED  BY <1>8, <1>9, <2>2 DEF Paired
<1> HIDE DEF found
<1>11. /\ DOMAIN PayloadsOf(obus, kind) = DOMAIN found
       /\ DOMAIN PayloadsOf(backs, kind) = DOMAIN found
       /\ \A k \in DOMAIN found : /\ PayloadsOf(obus, kind)[k] = left[found[k]]
                                  /\ PayloadsOf(backs, kind)[k] = right[found[k]]
  BY <1>8, <1>9 DEF Mapped
<1> QED  BY <1>1, <1>7, <1>10, <1>11, <1>12 DEF Corresponds

\* Lists of descriptors that are alike, one by one.
ElementsAlike(s, t) ==
  Paired(s, t) /\ \A k \in DOMAIN s : AlikeElement(s[k], t[k])
ConfigsAlike(s, t) ==
  Paired(s, t) /\ \A k \in DOMAIN s : AlikeConfig(s[k], t[k])
MixesAlike(s, t) ==
  Paired(s, t) /\ \A k \in DOMAIN s : AlikeMix(s[k], t[k])

LEMMA DescriptorsAlike ==
  ASSUME NEW V, NEW obus \in Seq(V), NEW backs, AllSeen(obus, backs)
  PROVE  /\ ElementsAlike(PayloadsOf(obus, "audio_element"), PayloadsOf(backs, "audio_element"))
         /\ ConfigsAlike(PayloadsOf(obus, "codec_config"), PayloadsOf(backs, "codec_config"))
         /\ MixesAlike(PayloadsOf(obus, "mix_presentation"), PayloadsOf(backs, "mix_presentation"))
<1>1. \A kind : Corresponds(obus, backs, kind)
  BY PayloadsCorrespond
<1>2. \A i \in DOMAIN obus : SeenAlike(obus[i], backs[i])
  BY DEF AllSeen
<1>3. ElementsAlike(PayloadsOf(obus, "audio_element"), PayloadsOf(backs, "audio_element"))
  BY <1>1, <1>2 DEF Corresponds, SeenAlike, ElementsAlike
<1>4. ConfigsAlike(PayloadsOf(obus, "codec_config"), PayloadsOf(backs, "codec_config"))
  BY <1>1, <1>2 DEF Corresponds, SeenAlike, ConfigsAlike
<1>5. MixesAlike(PayloadsOf(obus, "mix_presentation"), PayloadsOf(backs, "mix_presentation"))
  BY <1>1, <1>2 DEF Corresponds, SeenAlike, MixesAlike
<1> QED  BY <1>3, <1>4, <1>5

\* The same element carries an id.
CarriersAlike(s, t, id) ==
  \/ CarriersOf(s, id) = <<>> /\ CarriersOf(t, id) = <<>>
  \/ \E e, f : CarriersOf(s, id) = <<e>> /\ CarriersOf(t, id) = <<f>> /\ AlikeElement(e, f)

LEMMA SameCarrier ==
  ASSUME NEW s, NEW t, ElementsAlike(s, t), NEW id
  PROVE  CarriersAlike(s, t, id)
<1> DEFINE I == {i \in 1 .. Len(s) : s[i].audio_element_id = id}
           J == {i \in 1 .. Len(t) : t[i].audio_element_id = id}
           first(K) == IF K # {} THEN CHOOSE x \in K : \A y \in K : x <= y ELSE 0
           of(r, k) == IF k = 0 THEN <<>> ELSE <<r[k]>>
<1>1. /\ DOMAIN s = 1 .. Len(s) /\ Len(t) = Len(s) /\ Len(s) \in Nat
      /\ \A k \in 1 .. Len(s) : AlikeElement(s[k], t[k])
  BY DEF ElementsAlike, Paired
<1>2. I = J
  BY <1>1 DEF AlikeElement
<1>3. CarriersOf(s, id) = of(s, first(I)) /\ CarriersOf(t, id) = of(t, first(J))
  BY DEF CarriersOf, SelectInSeq, Min, Some, None
<1>4. first(I) = 0 \/ first(I) \in 1 .. Len(s)
  <2>1. I \subseteq Nat /\ I \subseteq 1 .. Len(s)
    BY <1>1
  <2> HIDE DEF I
  <2> SUFFICES ASSUME I # {} PROVE first(I) \in 1 .. Len(s)
    BY DEF first
  <2>2. \E x \in I : \A y \in I : x <= y
    BY <2>1, LeastMember
  <2>3. first(I) \in I
    BY <2>2
  <2> QED  BY <2>1, <2>3
<1> HIDE DEF I, J, first
<1>5. CASE first(I) = 0
  BY <1>2, <1>3, <1>5 DEF CarriersAlike
<1>6. CASE first(I) \in 1 .. Len(s)
  <2>1. first(I) # 0 /\ AlikeElement(s[first(I)], t[first(I)])
    BY <1>1, <1>6
  <2>2. CarriersOf(s, id) = <<s[first(I)]>> /\ CarriersOf(t, id) = <<t[first(I)]>>
    BY <1>2, <1>3, <2>1
  <2> QED  BY <2>1, <2>2 DEF CarriersAlike
<1> QED  BY <1>4, <1>5, <1>6

LEMMA ScalableAlike ==
  ASSUME NEW s, NEW t, ElementsAlike(s, t), NEW sub_mix
  PROVE  ScalableLayoutFindings(sub_mix, t) = ScalableLayoutFindings(sub_mix, s)
<1> DEFINE layers(type) == IF type.kind = "channel_based" THEN Len(type.body.layers) ELSE 0
           Of(n) == Found(n > 1 /\ Len(sub_mix.layouts) < n, "sub_mix.num_layouts", n)
           All(c) == FlattenSeq([i \in DOMAIN c |-> Of(layers(c[i].type))])
           id == sub_mix.elements[1].audio_element_id
<1>1. \A r : ScalableLayoutFindings(sub_mix, r)
               = IF Len(sub_mix.elements) # 1 THEN <<>> ELSE All(CarriersOf(r, id))
  BY DEF ScalableLayoutFindings, FoundIn
<1>2. All(CarriersOf(t, id)) = All(CarriersOf(s, id))
  <2> HIDE DEF id
  <2>1. CarriersAlike(s, t, id)
    BY SameCarrier
  <2>2. ASSUME NEW e, NEW f, AlikeElement(e, f) PROVE All(<<f>>) = All(<<e>>)
    <3>1. layers(f.type) = layers(e.type)
      BY <2>2 DEF AlikeElement
    <3> HIDE DEF layers, Of
    <3>2. \A x : [i \in DOMAIN <<x>> |-> Of(layers(<<x>>[i].type))] = [i \in 1 .. 1 |-> Of(layers(x.type))]
      <4> SUFFICES ASSUME NEW x
                   PROVE  [i \in DOMAIN <<x>> |-> Of(layers(<<x>>[i].type))]
                            = [i \in 1 .. 1 |-> Of(layers(x.type))]
        BY Zenon
      <4>1. DOMAIN <<x>> = 1 .. 1 /\ \A i \in 1 .. 1 : <<x>>[i] = x
        OBVIOUS
      <4> QED  BY <4>1
    <3> QED  BY <3>1, <3>2
  <2> HIDE DEF All
  <2> QED  BY <2>1, <2>2 DEF CarriersAlike
<1> HIDE DEF All
<1> QED  BY <1>1, <1>2

\* What does not resolve in one of two lists that are alike does not in the
\* other.
LEMMA UnresolvedAlike ==
  ASSUME NEW e1, NEW e2, ElementsAlike(e1, e2), NEW c1, NEW c2, ConfigsAlike(c1, c2),
         NEW m1, NEW m2, MixesAlike(m1, m2)
  PROVE  Unresolved(e2, c2, m2) = Unresolved(e1, c1, m1)
<1> DEFINE Missing(configs, id) ==
             Found(\A i \in DOMAIN configs : configs[i].codec_config_id # id, "codec_config_id", id)
           OfElements(elements, configs) ==
             FlattenSeq([i \in DOMAIN elements |-> Missing(configs, elements[i].codec_config_id)])
           Named(elements, ids) ==
             FlattenSeq([i \in DOMAIN ids |->
               Found(CarriersOf(elements, ids[i]) = <<>>, "audio_element_id", ids[i])])
           Laid2(elements, sub_mixes) ==
             FlattenSeq([i \in DOMAIN sub_mixes |-> ScalableLayoutFindings(sub_mixes[i], elements)])
           Ids(sub_mixes) ==
             FlattenSeq([s \in DOMAIN sub_mixes |->
               [i \in DOMAIN sub_mixes[s].elements |-> sub_mixes[s].elements[i].audio_element_id]])
           OfMix(elements, sub_mixes) == Named(elements, Ids(sub_mixes)) \o Laid2(elements, sub_mixes)
           OfMixes(elements, mixes) ==
             FlattenSeq([i \in DOMAIN mixes |-> OfMix(elements, mixes[i].sub_mixes)])
<1>1. \A e, c, m : Unresolved(e, c, m) = OfElements(e, c) \o OfMixes(e, m)
  BY DEF Unresolved, FoundIn, References
<1>2. OfElements(e2, c2) = OfElements(e1, c1)
  <2>1. \A id : Missing(c2, id) = Missing(c1, id)
    BY DEF ConfigsAlike, Paired, AlikeConfig
  <2>2. DOMAIN e2 = DOMAIN e1 /\ \A i \in DOMAIN e1 : e2[i].codec_config_id = e1[i].codec_config_id
    BY DEF ElementsAlike, Paired, AlikeElement
  <2> HIDE DEF Missing
  <2>3. [i \in DOMAIN e2 |-> Missing(c2, e2[i].codec_config_id)]
          = [i \in DOMAIN e1 |-> Missing(c1, e1[i].codec_config_id)]
    BY <2>1, <2>2
  <2> QED  BY <2>3
<1>3. \A sub_mixes : OfMix(e2, sub_mixes) = OfMix(e1, sub_mixes)
  <2> SUFFICES ASSUME NEW sub_mixes PROVE OfMix(e2, sub_mixes) = OfMix(e1, sub_mixes)
    BY Zenon
  <2>1. \A id : CarriersOf(e2, id) = <<>> <=> CarriersOf(e1, id) = <<>>
    <3> SUFFICES ASSUME NEW id PROVE CarriersOf(e2, id) = <<>> <=> CarriersOf(e1, id) = <<>>
      OBVIOUS
    <3>1. CarriersAlike(e1, e2, id)
      BY SameCarrier
    <3> QED  BY <3>1 DEF CarriersAlike
  <2>2. \A ids : Named(e2, ids) = Named(e1, ids)
    <3> SUFFICES ASSUME NEW ids PROVE Named(e2, ids) = Named(e1, ids)
      OBVIOUS
    <3> DEFINE Lost(e, id) == Found(CarriersOf(e, id) = <<>>, "audio_element_id", id)
    <3>1. \A id : Lost(e2, id) = Lost(e1, id)
      BY <2>1 DEF Found
    <3>2. \A e : Named(e, ids) = FlattenSeq([i \in DOMAIN ids |-> Lost(e, ids[i])])
      OBVIOUS
    <3> HIDE DEF Lost, Named
    <3>3. [i \in DOMAIN ids |-> Lost(e2, ids[i])] = [i \in DOMAIN ids |-> Lost(e1, ids[i])]
      BY <3>1
    <3> QED  BY <3>2, <3>3
  <2>3. Laid2(e2, sub_mixes) = Laid2(e1, sub_mixes)
    <3>1. \A sub_mix : ScalableLayoutFindings(sub_mix, e2) = ScalableLayoutFindings(sub_mix, e1)
      BY ScalableAlike
    <3>2. [i \in DOMAIN sub_mixes |-> ScalableLayoutFindings(sub_mixes[i], e2)]
            = [i \in DOMAIN sub_mixes |-> ScalableLayoutFindings(sub_mixes[i], e1)]
      BY <3>1
    <3> QED  BY <3>2
  <2> HIDE DEF Named, Laid2, Ids
  <2> QED  BY <2>2, <2>3
<1>4. OfMixes(e2, m2) = OfMixes(e1, m1)
  <2>1. DOMAIN m2 = DOMAIN m1 /\ \A i \in DOMAIN m1 : m2[i].sub_mixes = m1[i].sub_mixes
    BY DEF MixesAlike, Paired, AlikeMix
  <2> HIDE DEF OfMix
  <2>2. [i \in DOMAIN m2 |-> OfMix(e2, m2[i].sub_mixes)]
          = [i \in DOMAIN m1 |-> OfMix(e1, m1[i].sub_mixes)]
    BY <1>3, <2>1
  <2> QED  BY <2>2
<1> HIDE DEF OfElements, OfMixes
<1> QED  BY <1>1, <1>2, <1>4

\* Validate finds in a list of OBUs that are alike what it finds in the other.
LEMMA SequenceFindingsAlike ==
  ASSUME NEW V, NEW obus \in Seq(V), NEW backs, AllSeen(obus, backs)
  PROVE  SequenceFindings(backs) = SequenceFindings(obus)
<1> DEFINE c1 == PayloadsOf(obus, "codec_config")
           c2 == PayloadsOf(backs, "codec_config")
           e1 == PayloadsOf(obus, "audio_element")
           e2 == PayloadsOf(backs, "audio_element")
           m1 == PayloadsOf(obus, "mix_presentation")
           m2 == PayloadsOf(backs, "mix_presentation")
           g1 == RegistryOf(obus)
           g2 == RegistryOf(backs)
<1>1. ElementsAlike(e1, e2) /\ ConfigsAlike(c1, c2) /\ MixesAlike(m1, m2)
  BY DescriptorsAlike
<1>2. DOMAIN backs = DOMAIN obus /\ \A i \in DOMAIN obus : SeenAlike(obus[i], backs[i])
  BY DEF AllSeen
<1>3. g2 = g1
  <2>1. [i \in DOMAIN backs |-> Observe(<<>>, backs[i])]
          = [i \in DOMAIN obus |-> Observe(<<>>, obus[i])]
    BY <1>2 DEF SeenAlike
  <2> QED  BY <2>1 DEF RegistryOf
<1> HIDE DEF c1, c2, e1, e2, m1, m2, g1, g2
<1>4. DuplicateFindings(c2, e2, m2, g2) = DuplicateFindings(c1, e1, m1, g1)
  <2>1. ConfigIds(c2) = ConfigIds(c1)
    BY <1>1 DEF ConfigIds, ConfigsAlike, Paired, AlikeConfig
  <2>2. ElementIds(e2) = ElementIds(e1)
    BY <1>1 DEF ElementIds, ElementsAlike, Paired, AlikeElement
  <2>3. [i \in DOMAIN m2 |-> m2[i].mix_presentation_id]
          = [i \in DOMAIN m1 |-> m1[i].mix_presentation_id]
    BY <1>1 DEF MixesAlike, Paired, AlikeMix
  <2> QED  BY <1>3, <2>1, <2>2, <2>3 DEF DuplicateFindings
<1>5. Unresolved(e2, c2, m2) = Unresolved(e1, c1, m1)
  BY <1>1, UnresolvedAlike
<1>6. FoundIn(backs, ObuFindings) = FoundIn(obus, ObuFindings)
  <2>1. [i \in DOMAIN backs |-> ObuFindings(backs[i])] = [i \in DOMAIN obus |-> ObuFindings(obus[i])]
    BY <1>2 DEF SeenAlike
  <2> QED  BY <2>1 DEF FoundIn
<1>7. FoundIn(backs, LAMBDA obu : TemporalFindings(obu, e2, g2))
        = FoundIn(obus, LAMBDA obu : TemporalFindings(obu, e1, g1))
  <2>1. ASSUME NEW i \in DOMAIN obus
        PROVE  TemporalFindings(backs[i], e2, g2) = TemporalFindings(obus[i], e1, g1)
    <3>1. TemporalFindings(backs[i], e2, g2) = TemporalFindings(obus[i], e2, g1)
      BY <1>2, <1>3 DEF SeenAlike
    <3>2. TemporalFindings(obus[i], e2, g1) = TemporalFindings(obus[i], e1, g1)
      <4>1. DOMAIN e2 = DOMAIN e1 /\ \A k \in DOMAIN e1 : e2[k].substream_ids = e1[k].substream_ids
        BY <1>1 DEF ElementsAlike, Paired, AlikeElement
      <4>2. ASSUME NEW id
            PROVE  (\A k \in DOMAIN e2 : id \notin ToSet(e2[k].substream_ids))
                     <=> \A k \in DOMAIN e1 : id \notin ToSet(e1[k].substream_ids)
        BY <4>1
      <4> QED  BY <4>2 DEF TemporalFindings
    <3> QED  BY <3>1, <3>2
  <2>2. [i \in DOMAIN backs |-> TemporalFindings(backs[i], e2, g2)]
          = [i \in DOMAIN obus |-> TemporalFindings(obus[i], e1, g1)]
    BY <1>2, <2>1
  <2> QED  BY <2>2 DEF FoundIn
<1>8. SequenceFindings(backs)
        = FoundIn(backs, ObuFindings) \o DuplicateFindings(c2, e2, m2, g2) \o Unresolved(e2, c2, m2)
          \o FoundIn(backs, LAMBDA obu : TemporalFindings(obu, e2, g2))
  BY DEF SequenceFindings, FoundIn, c2, e2, m2, g2
<1>9. SequenceFindings(obus)
        = FoundIn(obus, ObuFindings) \o DuplicateFindings(c1, e1, m1, g1) \o Unresolved(e1, c1, m1)
          \o FoundIn(obus, LAMBDA obu : TemporalFindings(obu, e1, g1))
  BY DEF SequenceFindings, FoundIn, c1, e1, m1, g1
<1> QED  BY <1>4, <1>5, <1>6, <1>7, <1>8, <1>9

----------------------------------------------------------------------------
(* What is written has the findings it is read back with                   *)

\* The OBUs a program writes have the fields of their kinds.
ScriptsShaped ==
  \A script \in Scripts :
    Len(script) \in Nat /\ \A i \in 1 .. Len(script) : Shaped(script[i])

AreShaped == (\E V : written \in Seq(V)) /\ \A i \in DOMAIN written : Shaped(written[i])

LEMMA StayShaped ==
  ASSUME ScriptsShaped, AreShaped, [Next]_vars
  PROVE  AreShaped'
<1>1. CASE written' = written
  BY <1>1 DEF AreShaped
<1>2. ASSUME NEW obu \in Candidates, written' = Append(written, obu)
      PROVE  AreShaped'
  <2>1. PICK V : written \in Seq(V)
    BY DEF AreShaped
  <2>2. PICK script \in Scripts : Len(script) > Len(written) /\ obu = script[Len(written) + 1]
    BY DEF Candidates
  <2>3. Len(written) + 1 \in 1 .. Len(script)
    <3>1. Len(script) \in Nat /\ Len(written) \in Nat
      BY <2>1 DEF ScriptsShaped
    <3> QED  BY <2>2, <3>1
  <2>4. Shaped(obu)
    BY <2>2, <2>3 DEF ScriptsShaped
  <2> DEFINE W == V \cup {obu}
             n == Len(written)
  <2>5. written \in Seq(W) /\ obu \in W
    BY <2>1
  <2> HIDE DEF W
  <2>6. /\ Append(written, obu) \in Seq(W) /\ DOMAIN Append(written, obu) = 1 .. n + 1
        /\ n \in Nat /\ DOMAIN written = 1 .. n
        /\ Append(written, obu)[n + 1] = obu
        /\ \A i \in 1 .. n : Append(written, obu)[i] = written[i]
    BY <2>5, AppendProperties
  <2> HIDE DEF n
  <2>7. \A i \in 1 .. n + 1 : i \in 1 .. n \/ i = n + 1
    BY <2>6
  <2>8. \A i \in DOMAIN written' : Shaped(written'[i])
    BY <1>2, <2>4, <2>6, <2>7 DEF AreShaped
  <2> QED  BY <1>2, <2>6, <2>8 DEF AreShaped
<1>3. CASE WriteOwn
  BY <1>2, <1>3 DEF WriteOwn, AppendObu, AppendBytes
<1>4. CASE WriteForeign
  BY <1>2, <1>4 DEF WriteForeign, AppendObu, AppendBytes
<1>5. CASE Cut \/ Garble \/ ReadBack
  BY <1>1, <1>5 DEF Cut, Garble, ReadBack
<1>6. CASE UNCHANGED vars
  BY <1>1, <1>6 DEF vars
<1> QED  BY <1>3, <1>4, <1>5, <1>6 DEF Next

\* Validate finds in a stream, read back, what it finds in the OBUs written, in
\* the same order.
SameFindingsRead ==
  damage = NoDamage /\ parsed # None =>
    SequenceFindings(Result.obus) = SequenceFindings(written)

LEMMA ReadIsFoundAlike ==
  ASSUME AreShaped, WrittenReadsBack
  PROVE  SameFindingsRead
<1> SUFFICES ASSUME damage = NoDamage, parsed # None
             PROVE  SequenceFindings(Result.obus) = SequenceFindings(written)
  BY DEF SameFindingsRead
<1>1. Result.obus = [i \in DOMAIN written |-> ReadsBackAs(written[i])]
  BY DEF WrittenReadsBack
<1>2. AllSeen(written, Result.obus)
  BY <1>1, BackIsAlike DEF AllSeen, AreShaped
<1>3. PICK V : written \in Seq(V)
  BY DEF AreShaped
<1> QED  BY <1>2, <1>3, SequenceFindingsAlike

LEMMA NothingIsShaped == Init => AreShaped
<1> SUFFICES ASSUME Init PROVE AreShaped
  OBVIOUS
<1>1. written \in Seq({}) /\ DOMAIN written = {}
  BY DEF Init
<1> QED  BY <1>1 DEF AreShaped

\* A stream that was not damaged has, read back, the findings its OBUs had
\* before they were written, one by one in their order: nothing that the
\* writers merge, drop or set, no trailing byte moved and no gain left out,
\* is anything that a finding is about.
THEOREM FindingsSurvive ==
  ASSUME CrateLimits, ScriptsShaped
  PROVE  Spec /\ []OthersReadAlone => []SameFindingsRead
<1>1. AreShaped /\ [Next]_vars => AreShaped'
  BY StayShaped
<1>2. AreShaped /\ WrittenReadsBack => SameFindingsRead
  BY ReadIsFoundAlike
<1>3. Spec /\ []OthersReadAlone => [](WrittenReadsBack /\ CutIsReported)
  BY OthersDecide
<1> QED  BY <1>1, <1>2, <1>3, NothingIsShaped, PTL DEF Spec

----------------------------------------------------------------------------
(* Sorted lists                                                            *)

\* A list, sorted.
LEMMA SortedIs ==
  ASSUME NEW n \in Nat, NEW items, DOMAIN items = 1 .. n, NEW ids \in [1 .. n -> Nat]
  PROVE  \E p : StableOrder(n, ids, p) /\ SortedBy(items, ids) = [k \in 1 .. n |-> items[p[k]]]
<1>1. PICK p : /\ StableOrder(n, ids, p)
               /\ \A k \in 1 .. n : p[k] = CHOOSE i \in 1 .. n : Rank(n, ids, i) = k - 1
  BY SortIsStable
<1>3. SortedBy(items, ids)
        = [k \in 1 .. n |-> items[CHOOSE i \in 1 .. n : Rank(n, ids, i) = k - 1]]
  BY DEF SortedBy, Rank, Earlier
<1>4. SortedBy(items, ids) = [k \in 1 .. n |-> items[p[k]]]
  BY <1>1, <1>3
<1> QED  BY <1>1, <1>4

----------------------------------------------------------------------------
(* Findings are lists                                                      *)

LEMMA FindingFinite ==
  ASSUME NEW condition, NEW field
  PROVE  IsFiniteSet(Finding(condition, field))
BY FS_EmptySet, FS_Singleton DEF Finding

\* In parts, for they are many.
LEMMA FlacFinite ==
  ASSUME NEW f, NEW samples
  PROVE  IsFiniteSet(FlacFindings(f, samples))
<1> DEFINE block  == Finding(f[1] # 1, "last_metadata_block")
                     \cup Finding(f[2] # 0, "metadata_block_type")
                     \cup Finding(f[3] # 34, "metadata_data_block_length")
                     \cup Finding(f[4] # samples \/ f[4] < 16, "minimum_block_size")
                     \cup Finding(f[5] # samples \/ f[5] < 16, "maximum_block_size")
           others == Finding(f[6] # 0, "minimum_frame_size")
                     \cup Finding(f[7] # 0, "maximum_frame_size")
                     \cup Finding(f[8] \notin 1 .. FlacMaxSampleRate, "sample_rate")
                     \cup Finding(f[9] # 1, "number_of_channels")
                     \cup Finding(f[10] \notin 3 .. 31, "bits_per_sample")
                     \cup Finding(f[13] # Zero16, "md5_signature")
<1>1. IsFiniteSet(block) /\ IsFiniteSet(others)
  BY ZenonT(30), FindingFinite, FS_Union
<1>2. FlacFindings(f, samples) = block \cup others
  BY DEF FlacFindings
<1> HIDE DEF block, others
<1> QED  BY <1>1, <1>2, FS_Union

LEMMA AacFinite ==
  ASSUME NEW f, NEW samples
  PROVE  IsFiniteSet(AacLcFindings(f, samples))
<1> DEFINE first  == Finding(f[1] # 64, "object_type_indication")
                     \cup Finding(f[2] # 5, "stream_type")
                     \cup Finding(f[3] = 1, "upstream")
                     \cup Finding(f[4] > AacMaxBufferSize, "buffer_size_db")
                     \cup Finding(f[7] # 2, "audio_object_type")
           others == Finding(f[8] >= Len(AacSampleRates), "sampling_frequency_index")
                     \cup Finding(f[9] # 2, "channel_configuration")
                     \cup Finding(f[10] = 1, "frame_length_flag")
                     \cup Finding(f[11] = 1, "depends_on_core_coder")
                     \cup Finding(f[12] = 1, "extension_flag")
                     \cup Finding(samples # AacSamplesPerFrame, "num_samples_per_frame")
<1>1. IsFiniteSet(first)
  BY ZenonT(30), FindingFinite, FS_Union
<1>2. IsFiniteSet(others)
  BY FindingFinite, FS_Union
<1>3. AacLcFindings(f, samples) = first \cup others
  BY DEF AacLcFindings
<1> HIDE DEF first, others
<1> QED  BY <1>1, <1>2, <1>3, FS_Union

LEMMA CodecFinite ==
  ASSUME NEW v
  PROVE  IsFiniteSet(CodecFindings(v))
<1> DEFINE kind    == v.decoder_config.kind
           fields  == v.decoder_config.fields
           samples == v.num_samples_per_frame
           roll    == v.audio_roll_distance
           own     == CASE kind = "lpcm" -> LpcmFindings(fields)
                        [] kind = "flac" -> FlacFindings(fields, samples)
                        [] kind = "opus" -> OpusFindings(fields)
                        [] kind = "aac"  -> AacLcFindings(fields, samples)
                        [] OTHER         -> {}
           id      == Finding(\A k \in Codecs : v.codec_id # CodecId[k], "codec_id")
           frames  == Finding(samples \notin 1 .. MaxSamplesPerFrame, "num_samples_per_frame")
           rolls   == Finding(IF kind = "opus" THEN samples # 0 /\ roll # RequiredOpusRoll(samples)
                              ELSE roll # RequiredAudioRoll(kind), "audio_roll_distance")
<1>1. IsFiniteSet(LpcmFindings(fields)) /\ IsFiniteSet(OpusFindings(fields))
  BY Zenon, FindingFinite, FS_Union DEF LpcmFindings, OpusFindings
<1>2. IsFiniteSet(FlacFindings(fields, samples)) /\ IsFiniteSet(AacLcFindings(fields, samples))
  BY FlacFinite, AacFinite
<1>3. IsFiniteSet(own)
  <2> HIDE DEF kind, fields, samples
  <2> QED  BY <1>1, <1>2, FS_EmptySet
<1>4. IsFiniteSet(id) /\ IsFiniteSet(frames) /\ IsFiniteSet(rolls)
  BY FindingFinite
<1>5. CodecFindings(v) = id \cup frames \cup own \cup rolls
  BY Zenon DEF CodecFindings
<1> HIDE DEF id, frames, own, rolls
<1> QED  BY <1>3, <1>4, <1>5, FS_Union

LEMMA FoundIsList ==
  ASSUME NEW condition, NEW field, NEW id
  PROVE  IsList(Found(condition, field, id)) /\ IsList(Reserved(id, field))
<1>1. <<>> \in Seq({<<field, id>>}) /\ <<<<field, id>>>> \in Seq({<<field, id>>})
  OBVIOUS
<1> QED  BY <1>1 DEF Found, Reserved, IsList

\* One finding for each pair of places, and each repeated member.
LEMMA PairsAreLists ==
  ASSUME NEW s, IsList(s), NEW field
  PROVE  IsList(PairsOf(s, field))
<1> DEFINE row(i)  == [j \in DOMAIN s |-> Found(j < i /\ s[j] = s[i], field, s[i])]
           rows    == [i \in DOMAIN s |-> FlattenSeq(row(i))]
<1>1. ASSUME NEW i \in DOMAIN s PROVE IsList(rows[i])
  <2> DEFINE one == row(i)
  <2>1. one = [j \in DOMAIN s |-> one[j]] /\ \A j \in DOMAIN s : IsList(one[j])
    BY FoundIsList
  <2>2. rows[i] = FlattenSeq(one)
    OBVIOUS
  <2> HIDE DEF one, rows
  <2> QED  BY <2>1, <2>2, EachIsList
<1>2. PairsOf(s, field) = FlattenSeq(rows) /\ rows = [i \in DOMAIN s |-> rows[i]]
  BY DEF PairsOf
<1> HIDE DEF rows
<1> QED  BY <1>1, <1>2, EachIsList

LEMMA ConfigFindingsListed ==
  ASSUME NEW v
  PROVE  IsList(ConfigFindings(v))
<1> DEFINE fields == SetToSeq(CodecFindings(v))
           lists  == [i \in DOMAIN fields |-> Found(TRUE, fields[i], v.codec_config_id)]
<1>1. IsList(fields)
  BY CodecFinite, SetToList
<1>2. ConfigFindings(v) = FlattenSeq(lists)
  BY DEF ConfigFindings, FoundIn
<1>3. lists = [i \in DOMAIN fields |-> lists[i]] /\ \A i \in DOMAIN fields : IsList(lists[i])
  BY FoundIsList
<1> HIDE DEF fields, lists
<1> QED  BY <1>1, <1>2, <1>3, EachIsList

\* A program's sets hold lists where the crate has vectors and options.
LayersListed(layers) ==
  IsList(layers) /\ \A i \in DOMAIN layers : IsList(layers[i].output_gain)

ElementListed(e) ==
  /\ IsList(e.params) /\ \A i \in DOMAIN e.params : IsList(e.params[i].definition)
  /\ e.type.kind = "channel_based" => LayersListed(e.type.body.layers)

LEMMA LayerFindingsListed ==
  ASSUME NEW layer, IsList(layer.output_gain)
  PROVE  IsList(LayerFindings(layer))
<1> DEFINE gains == layer.output_gain
           lists == [i \in DOMAIN gains |-> Reserved(gains[i].reserved, "output_gain.reserved")]
<1>1. lists = [i \in DOMAIN gains |-> lists[i]] /\ \A i \in DOMAIN gains : IsList(lists[i])
  BY FoundIsList
<1>2. LayerFindings(layer)
        = Reserved(layer.reserved, "channel_audio_layer_config.reserved") \o FlattenSeq(lists)
  BY DEF LayerFindings, FoundIn
<1> HIDE DEF lists
<1>3. IsList(FlattenSeq(lists))
  BY <1>1, EachIsList
<1> QED  BY <1>2, <1>3, FoundIsList, ConcatIsList

LEMMA LayoutFindingsListed ==
  ASSUME NEW config, LayersListed(config.layers), NEW substreams
  PROVE  IsList(LayoutFindings(config, substreams))
<1> DEFINE declared == FoldLeft(LAMBDA sum, layer : sum + layer.counts[1], 0, config.layers)
           lists    == [i \in DOMAIN config.layers |-> LayerFindings(config.layers[i])]
           a == Reserved(config.reserved, "scalable_channel_layout_config.reserved")
           b == Found(config.layers = <<>>, "num_layers", 0)
           c == Found(declared # substreams, "substream_count", declared)
<1>1. IsList(a) /\ IsList(b) /\ IsList(c)
  BY Zenon, FoundIsList
<1>2. lists = [i \in DOMAIN config.layers |-> lists[i]]
      /\ \A i \in DOMAIN config.layers : IsList(lists[i])
  BY LayerFindingsListed DEF LayersListed
<1>3. LayoutFindings(config, substreams) = a \o b \o c \o FlattenSeq(lists)
  BY Zenon DEF LayoutFindings, FoundIn
<1> HIDE DEF a, b, c, lists
<1>4. IsList(FlattenSeq(lists))
  BY <1>2, EachIsList DEF LayersListed
<1> QED  BY <1>1, <1>3, <1>4, ConcatIsList

LEMMA ParamFindingsListed ==
  ASSUME NEW p, IsList(p.definition)
  PROVE  IsList(ParamFindings(p))
<1> DEFINE lists == [i \in DOMAIN p.definition |-> DefinitionFindings(p.definition[i])]
           a == Reserved(p.defaults[2], "default_demixing_info_parameter_data.reserved")
           b == Reserved(p.defaults[4], "default_w.reserved")
           c == Found(p.type = 0, "param_definition_type", 0)
           d == IF p.type # ParamDemixing \/ p.definition = None THEN <<>> ELSE a \o b
<1>1. IsList(a) /\ IsList(b) /\ IsList(c)
  BY FoundIsList
<1>2. lists = [i \in DOMAIN p.definition |-> lists[i]]
      /\ \A i \in DOMAIN p.definition : IsList(lists[i])
  BY FoundIsList DEF DefinitionFindings
<1>3. ParamFindings(p) = FlattenSeq(lists) \o d \o c
  BY DEF ParamFindings, FoundIn
<1> HIDE DEF a, b, c, lists
<1>4. IsList(d)
  BY <1>1, ShortLists, ConcatIsList
<1> HIDE DEF d
<1>5. IsList(FlattenSeq(lists))
  BY <1>2, EachIsList
<1> QED  BY <1>1, <1>3, <1>4, <1>5, ConcatIsList

LEMMA ElementFindingsListed ==
  ASSUME NEW e, ElementListed(e)
  PROVE  IsList(ElementFindings(e))
<1> DEFINE lists == [i \in DOMAIN e.params |-> ParamFindings(e.params[i])]
           a == Reserved(e.reserved, "audio_element.reserved")
           b == Found(e.substream_ids = <<>>, "num_substreams", 0)
           c == IF e.type.kind # "channel_based" THEN <<>>
                ELSE LayoutFindings(e.type.body, Len(e.substream_ids))
           d == Found(Len(e.params) > MaxNumParameters, "num_parameters", e.audio_element_id)
<1>1. IsList(a) /\ IsList(b) /\ IsList(d)
  BY FoundIsList
<1>2. IsList(c)
  BY ShortLists, LayoutFindingsListed DEF ElementListed
<1>3. lists = [i \in DOMAIN e.params |-> lists[i]]
      /\ \A i \in DOMAIN e.params : IsList(lists[i])
  BY ParamFindingsListed DEF ElementListed
<1>4. ElementFindings(e) = a \o b \o c \o FlattenSeq(lists) \o d
  BY DEF ElementFindings, FoundIn
<1> HIDE DEF a, b, c, d, lists
<1>5. IsList(FlattenSeq(lists))
  BY <1>3, EachIsList DEF ElementListed
<1> QED  BY <1>1, <1>2, <1>4, <1>5, ConcatIsList

LEMMA ElementPublishesList ==
  ASSUME NEW e, ElementListed(e)
  PROVE  IsList(PublishedByElement(e))
<1> DEFINE gates == IF e.type.kind # "channel_based" THEN <<>>
                    ELSE [i \in DOMAIN e.type.body.layers |-> e.type.body.layers[i].recon_gain]
           context(p) == IF p.type = ParamDemixing THEN DemixingContext ELSE ReconGainContext(gates)
           entry(p) == IF p.definition = None THEN <<>>
                       ELSE <<[definition |-> p.definition[1], context |-> context(p)]>>
           lists == [i \in DOMAIN e.params |-> entry(e.params[i])]
<1>1. PublishedByElement(e) = FlattenSeq(lists)
  BY Zenon DEF PublishedByElement, PutEach
<1> HIDE DEF gates, context
<1>2. lists = [i \in DOMAIN e.params |-> lists[i]]
      /\ \A i \in DOMAIN e.params : IsList(lists[i])
  BY ShortLists
<1> HIDE DEF lists
<1> QED  BY <1>1, <1>2, EachIsList DEF ElementListed

LayoutListed(layout) ==
  /\ IsList(layout.loudness.anchored)
  /\ \A i \in DOMAIN layout.loudness.anchored : IsList(layout.loudness.anchored[i])

SubMixListed(s) ==
  /\ IsList(s.elements) /\ IsList(s.layouts)
  /\ \A i \in DOMAIN s.layouts : LayoutListed(s.layouts[i])

MixListed(v) ==
  /\ IsList(v.languages) /\ IsList(v.sub_mixes)
  /\ \A i \in DOMAIN v.sub_mixes : SubMixListed(v.sub_mixes[i])

LEMMA AnchorFindingsListed ==
  ASSUME NEW s, IsList(s)
  PROVE  IsList(Repeated(s, LAMBDA a, b : a[1] = b[1], "anchored_loudness.anchor_element"))
<1> DEFINE lists == [i \in DOMAIN s |-> Found(\E j \in 1 .. i - 1 : s[j][1] = s[i][1],
                                              "anchored_loudness.anchor_element", s[i])]
<1>1. lists = [i \in DOMAIN s |-> lists[i]] /\ \A i \in DOMAIN s : IsList(lists[i])
  BY FoundIsList
<1>2. Repeated(s, LAMBDA a, b : a[1] = b[1], "anchored_loudness.anchor_element")
        = FlattenSeq(lists)
  BY DEF Repeated
<1> HIDE DEF lists
<1> QED  BY Zenon, <1>1, <1>2, EachIsList

LEMMA LoudnessFindingsListed ==
  ASSUME NEW layout, LayoutListed(layout)
  PROVE  IsList(LoudnessLayoutFindings(layout))
<1> DEFINE all   == layout.loudness.anchored
           a     == Reserved(layout.reserved, "layout.reserved")
           lists == [i \in DOMAIN all |->
                       Repeated(all[i], LAMBDA x, y : x[1] = y[1],
                                "anchored_loudness.anchor_element")]
<1>1. lists = [i \in DOMAIN all |-> lists[i]] /\ \A i \in DOMAIN all : IsList(lists[i])
  BY Zenon, AnchorFindingsListed DEF LayoutListed
<1>2. LoudnessLayoutFindings(layout) = a \o FlattenSeq(lists)
  BY DEF LoudnessLayoutFindings, FoundIn
<1>3. IsList(a) /\ IsList(all)
  BY FoundIsList DEF LayoutListed
<1> HIDE DEF a, all, lists
<1>4. IsList(FlattenSeq(lists))
  BY <1>1, <1>3, EachIsList
<1> QED  BY <1>2, <1>3, <1>4, ConcatIsList

LEMMA MixElementFindingsListed ==
  ASSUME NEW e, NEW labels
  PROVE  IsList(MixElementFindings(e, labels))
<1> DEFINE a == Reserved(e.reserved, "rendering_config.reserved")
           b == Found(e.mode.reserved, "headphones_rendering_mode", e.mode.raw)
           c == DefinitionFindings(e.element_mix_gain.definition)
           d == Found(Len(e.annotations) # labels, "localized_element_annotations",
                      e.audio_element_id)
<1>1. IsList(a) /\ IsList(b) /\ IsList(c) /\ IsList(d)
  BY FoundIsList DEF DefinitionFindings
<1>2. MixElementFindings(e, labels) = a \o b \o c \o d
  BY DEF MixElementFindings
<1> HIDE DEF a, b, c, d
<1> QED  BY <1>1, <1>2, ConcatIsList

LEMMA SubMixFindingsListed ==
  ASSUME NEW s, SubMixListed(s), NEW labels
  PROVE  IsList(SubMixFindings(s, labels))
<1> DEFINE a     == Found(~HasStereoLayout(s), "sub_mix.layouts", 0)
           b     == Found(s.elements = <<>>, "sub_mix.num_audio_elements", 0)
           c     == DefinitionFindings(s.output_mix_gain.definition)
           lists == [i \in DOMAIN s.elements |-> MixElementFindings(s.elements[i], labels)]
           loud  == [i \in DOMAIN s.layouts |-> LoudnessLayoutFindings(s.layouts[i])]
<1>1. IsList(a) /\ IsList(b) /\ IsList(c)
  BY FoundIsList DEF DefinitionFindings
<1>2. lists = [i \in DOMAIN s.elements |-> lists[i]]
      /\ \A i \in DOMAIN s.elements : IsList(lists[i])
  BY MixElementFindingsListed
<1>3. loud = [i \in DOMAIN s.layouts |-> loud[i]]
      /\ \A i \in DOMAIN s.layouts : IsList(loud[i])
  BY LoudnessFindingsListed DEF SubMixListed
<1>4. SubMixFindings(s, labels) = a \o b \o FlattenSeq(lists) \o c \o FlattenSeq(loud)
  BY DEF SubMixFindings, FoundIn
<1> HIDE DEF a, b, c, lists, loud
<1>5. IsList(FlattenSeq(lists)) /\ IsList(FlattenSeq(loud))
  BY <1>2, <1>3, EachIsList DEF SubMixListed
<1> QED  BY <1>1, <1>4, <1>5, ConcatIsList

LEMMA ReferencesListed ==
  ASSUME NEW v, MixListed(v)
  PROVE  IsList(References(v))
<1> DEFINE ids(s) == [i \in DOMAIN s.elements |-> s.elements[i].audio_element_id]
           lists  == [k \in DOMAIN v.sub_mixes |-> ids(v.sub_mixes[k])]
<1>1. ASSUME NEW k \in DOMAIN v.sub_mixes PROVE IsList(lists[k])
  <2> DEFINE s   == v.sub_mixes[k]
             one == ids(s)
  <2>1. IsList(s.elements)
    BY DEF MixListed, SubMixListed
  <2>2. Len(s.elements) \in Nat /\ DOMAIN s.elements = 1 .. Len(s.elements)
    BY <2>1, ListDomain
  <2>3. one = [i \in 1 .. Len(s.elements) |-> one[i]]
    BY <2>2
  <2>4. lists[k] = one
    OBVIOUS
  <2> HIDE DEF one, s, lists
  <2> QED  BY <2>2, <2>3, <2>4, BoundIsList
<1>2. References(v) = FlattenSeq(lists) /\ lists = [k \in DOMAIN v.sub_mixes |-> lists[k]]
  BY DEF References, FoundIn
<1> HIDE DEF lists
<1> QED  BY <1>1, <1>2, EachIsList DEF MixListed

LEMMA PresentationFindingsListed ==
  ASSUME NEW v, MixListed(v)
  PROVE  IsList(PresentationFindings(v))
<1> DEFINE labels == Len(v.languages)
           tags   == v.languages
           ids    == References(v)
           a == Found(Len(v.annotations) # labels, "localized_presentation_annotations", labels)
           b == Found(Len(v.sub_mixes) # 1, "num_sub_mixes", Len(v.sub_mixes))
           same  == [i \in DOMAIN tags |-> Found(\E j \in 1 .. i - 1 : SameTag(tags[j], tags[i]),
                                                "annotations_language.repeated", tags[i])]
           form  == [i \in DOMAIN tags |-> Found(~IsWellFormedLanguageTag(tags[i]),
                                                "annotations_language", tags[i])]
           again == [i \in DOMAIN ids |-> Found(\E j \in 1 .. i - 1 : ids[j] = ids[i],
                                                "sub_mix.audio_element_id", ids[i])]
           subs  == [i \in DOMAIN v.sub_mixes |-> SubMixFindings(v.sub_mixes[i], labels)]
<1>1. IsList(a) /\ IsList(b)
  BY FoundIsList
<1>2. /\ same = [i \in DOMAIN tags |-> same[i]] /\ \A i \in DOMAIN tags : IsList(same[i])
      /\ form = [i \in DOMAIN tags |-> form[i]] /\ \A i \in DOMAIN tags : IsList(form[i])
  BY FoundIsList
<1>3. again = [i \in DOMAIN ids |-> again[i]] /\ \A i \in DOMAIN ids : IsList(again[i])
  BY FoundIsList
<1>4. subs = [i \in DOMAIN v.sub_mixes |-> subs[i]]
      /\ \A i \in DOMAIN v.sub_mixes : IsList(subs[i])
  BY SubMixFindingsListed DEF MixListed
<1>5. PresentationFindings(v)
        = a \o FlattenSeq(same) \o FlattenSeq(form) \o b \o FlattenSeq(again) \o FlattenSeq(subs)
  BY DEF PresentationFindings, FoundIn, Repeated
<1>6. IsList(tags) /\ IsList(ids) /\ IsList(v.sub_mixes)
  BY ReferencesListed DEF MixListed
<1> HIDE DEF a, b, tags, ids, same, form, again, subs
<1>7. IsList(FlattenSeq(same)) /\ IsList(FlattenSeq(form))
  BY <1>2, <1>6, EachIsList
<1>8. IsList(FlattenSeq(again)) /\ IsList(FlattenSeq(subs))
  BY <1>3, <1>4, <1>6, EachIsList
<1> QED  BY <1>1, <1>5, <1>7, <1>8, ConcatIsList

LEMMA PresentationPublishesList ==
  ASSUME NEW v, MixListed(v)
  PROVE  IsList(PublishedByPresentation(v))
<1> DEFINE entry(gain) == <<[definition |-> gain.definition, context |-> MixGainContext]>>
           inner(s) == [i \in DOMAIN s.elements |-> entry(s.elements[i].element_mix_gain)]
           lists == [k \in DOMAIN v.sub_mixes |->
                       FlattenSeq(inner(v.sub_mixes[k])) \o entry(v.sub_mixes[k].output_mix_gain)]
<1>1. ASSUME NEW k \in DOMAIN v.sub_mixes PROVE IsList(lists[k])
  <2> DEFINE s   == v.sub_mixes[k]
             one == inner(s)
             out == entry(s.output_mix_gain)
  <2>1. IsList(s.elements)
    BY DEF MixListed, SubMixListed
  <2>2. one = [i \in DOMAIN s.elements |-> one[i]] /\ \A i \in DOMAIN s.elements : IsList(one[i])
    BY ShortLists
  <2>3. IsList(out)
    BY ShortLists
  <2>4. lists[k] = FlattenSeq(one) \o out
    BY Zenon
  <2> HIDE DEF one, s, lists, out
  <2>5. IsList(FlattenSeq(one))
    BY <2>1, <2>2, EachIsList
  <2> QED  BY <2>3, <2>4, <2>5, ConcatIsList
<1>2. PublishedByPresentation(v) = FlattenSeq(lists) /\ lists = [k \in DOMAIN v.sub_mixes |-> lists[k]]
  BY Zenon DEF PublishedByPresentation, PutEach
<1> HIDE DEF lists
<1> QED  BY <1>1, <1>2, EachIsList DEF MixListed

----------------------------------------------------------------------------
(* What does not depend on the order                                       *)

\* t is s in a stable order by ids.
SortedAs(s, t, ids, p) ==
  /\ Len(s) \in Nat /\ IsList(s) /\ DOMAIN s = 1 .. Len(s)
  /\ IsList(t) /\ Len(t) = Len(s) /\ DOMAIN t = 1 .. Len(s)
  /\ StableOrder(Len(s), ids, p) /\ ids \in [1 .. Len(s) -> Nat]
  /\ \A k \in 1 .. Len(s) : p[k] \in 1 .. Len(s) /\ t[k] = s[p[k]]

LEMMA SortedList ==
  ASSUME NEW s, IsList(s), NEW ids \in [DOMAIN s -> Nat]
  PROVE  \E p : SortedAs(s, SortedBy(s, ids), ids, p)
<1> DEFINE n == Len(s)
           t == SortedBy(s, ids)
<1>1. n \in Nat /\ DOMAIN s = 1 .. n
  BY ListDomain
<1>2. PICK p : StableOrder(n, ids, p) /\ t = [k \in 1 .. n |-> s[p[k]]]
  BY <1>1, SortedIs
<1> HIDE DEF t
<1>3. t = [k \in 1 .. n |-> t[k]] /\ DOMAIN t = 1 .. n /\ \A k \in 1 .. n : t[k] = s[p[k]]
  BY <1>2
<1>4. IsList(t) /\ Len(t) = n
  BY <1>1, <1>3, BoundIsList
<1>5. \A k \in 1 .. n : p[k] \in 1 .. n
  BY <1>2 DEF StableOrder, Bijection, Injection
<1> QED  BY <1>1, <1>2, <1>3, <1>4, <1>5 DEF SortedAs, t

\* Found in each member, in whatever order.
LEMMA EachRearranged ==
  ASSUME NEW s, NEW t, NEW ids, NEW p, SortedAs(s, t, ids, p),
         NEW x, x = [i \in DOMAIN s |-> x[i]], NEW y, y = [i \in DOMAIN t |-> y[i]],
         \A i \in DOMAIN s : IsList(x[i]),
         \A k \in DOMAIN t : y[k] = x[p[k]]
  PROVE  /\ Rearranged(FlattenSeq(y), FlattenSeq(x))
         /\ IsList(FlattenSeq(x)) /\ IsList(FlattenSeq(y))
<1> DEFINE n == Len(s)
<1>1. /\ n \in Nat /\ DOMAIN s = 1 .. n /\ DOMAIN t = 1 .. n
      /\ p \in Bijection(1 .. n, 1 .. n) /\ \A k \in 1 .. n : p[k] \in 1 .. n
  BY DEF SortedAs, StableOrder
<1> HIDE DEF n
<1>2. \A k \in 1 .. n : IsList(y[k]) /\ Rearranged(y[k], x[p[k]])
  BY <1>1, SameIsRearranged
<1>3. ListsIn(n, x) /\ ListsIn(n, y)
  BY <1>1, <1>2 DEF ListsIn
<1> QED  BY <1>1, <1>2, <1>3, ListsRearranged, FlattenIsList

\* A pair of equal ids is in the order it had.
LEMMA PairsRearranged ==
  ASSUME NEW s, NEW t, NEW ids, NEW p, SortedAs(s, t, ids, p),
         NEW a, IsList(a), DOMAIN a = DOMAIN s, \A i \in DOMAIN s : a[i] = ids[i],
         NEW b, IsList(b), DOMAIN b = DOMAIN t, \A k \in DOMAIN t : b[k] = a[p[k]],
         NEW field
  PROVE  Rearranged(PairsOf(b, field), PairsOf(a, field))
<1> DEFINE n == Len(s)
           x == [i \in DOMAIN a |-> [j \in DOMAIN a |-> Found(j < i /\ a[j] = a[i], field, a[i])]]
           y == [k \in DOMAIN b |-> [l \in DOMAIN b |-> Found(l < k /\ b[l] = b[k], field, b[k])]]
           rows == [i \in DOMAIN a |-> FlattenSeq(x[i])]
           down == [k \in DOMAIN b |-> FlattenSeq(y[k])]
<1>1. /\ n \in Nat /\ DOMAIN a = 1 .. n /\ DOMAIN b = 1 .. n
      /\ p \in Bijection(1 .. n, 1 .. n) /\ \A k \in 1 .. n : p[k] \in 1 .. n
      /\ ids \in [1 .. n -> Nat]
      /\ \A k, l \in 1 .. n :
           l < k <=> ids[p[l]] < ids[p[k]] \/ (ids[p[l]] = ids[p[k]] /\ p[l] < p[k])
  BY DEF SortedAs, StableOrder
<1>2. \A k \in 1 .. n : b[k] = a[p[k]] /\ a[p[k]] = ids[p[k]]
  BY <1>1 DEF SortedAs
<1>3. PairsOf(a, field) = FlattenSeq(rows) /\ PairsOf(b, field) = FlattenSeq(down)
  BY DEF PairsOf
<1>4. ASSUME NEW k \in 1 .. n, NEW l \in 1 .. n
      PROVE  y[k][l] = x[p[k]][p[l]]
  <2>1. p[k] \in 1 .. n /\ p[l] \in 1 .. n
    BY <1>1
  <2>2. y[k][l] = Found(l < k /\ b[l] = b[k], field, b[k])
    BY <1>1
  <2>3. x[p[k]][p[l]] = Found(p[l] < p[k] /\ a[p[l]] = a[p[k]], field, a[p[k]])
    BY <1>1, <2>1
  <2>4. (l < k /\ b[l] = b[k]) <=> (p[l] < p[k] /\ a[p[l]] = a[p[k]])
    <3>1. b[l] = b[k] <=> a[p[l]] = a[p[k]]
      BY <1>2
    <3>2. CASE a[p[l]] = a[p[k]]
      <4>1. ids[p[l]] = ids[p[k]]
        BY <1>2, <3>2
      <4>2. ids[p[k]] \in Nat
        BY <1>1, <2>1
      <4>3. l < k <=> p[l] < p[k]
        BY <1>1, <4>1, <4>2
      <4> QED  BY <3>1, <3>2, <4>3
    <3>3. CASE a[p[l]] # a[p[k]]
      BY <3>1, <3>3
    <3> QED  BY <3>2, <3>3
  <2>5. b[k] = a[p[k]]
    BY <1>2
  <2> QED  BY <2>2, <2>3, <2>4, <2>5 DEF Found
<1>5. \A i \in 1 .. n : \A j \in 1 .. n : IsList(x[i][j])
  BY <1>1, FoundIsList
<1>6. \A i \in 1 .. n : /\ x[i] = [j \in 1 .. n |-> x[i][j]]
                        /\ y[i] = [j \in 1 .. n |-> y[i][j]]
  BY <1>1
<1>7. /\ rows = [i \in 1 .. n |-> rows[i]] /\ down = [i \in 1 .. n |-> down[i]]
      /\ \A i \in 1 .. n : rows[i] = FlattenSeq(x[i]) /\ down[i] = FlattenSeq(y[i])
  BY <1>1
<1> HIDE DEF n, x, y, rows, down
<1>8. \A i \in 1 .. n : ListsIn(n, x[i])
  BY <1>1, <1>5, <1>6 DEF ListsIn
<1>9. \A k \in 1 .. n : ListsIn(n, y[k])
  <2>1. \A k, l \in 1 .. n : IsList(y[k][l])
    BY <1>1, <1>4, <1>5
  <2> QED  BY <1>1, <1>6, <2>1 DEF ListsIn
<1>10. ASSUME NEW k \in 1 .. n PROVE Rearranged(down[k], rows[p[k]])
  <2>1. p[k] \in 1 .. n
    BY <1>1
  <2>2. \A l \in 1 .. n : Rearranged(y[k][l], x[p[k]][p[l]])
    BY <1>4, SameIsRearranged
  <2>3. Rearranged(FlattenSeq(y[k]), FlattenSeq(x[p[k]]))
    BY <1>1, <1>8, <1>9, <2>1, <2>2, ListsRearranged
  <2> QED  BY <1>7, <2>1, <2>3
<1>11. ListsIn(n, rows) /\ ListsIn(n, down)
  <2>1. \A i \in 1 .. n : IsList(rows[i]) /\ IsList(down[i])
    BY <1>7, <1>8, <1>9, FlattenIsList
  <2> QED  BY <1>1, <1>7, <2>1 DEF ListsIn
<1>12. Rearranged(FlattenSeq(down), FlattenSeq(rows))
  BY <1>1, <1>10, <1>11, ListsRearranged
<1> QED  BY <1>3, <1>12

\* Nothing carries an id in the one if nothing does in the other.
LEMMA MembersStay ==
  ASSUME NEW s, NEW t, NEW ids, NEW p, SortedAs(s, t, ids, p)
  PROVE  /\ \A k \in DOMAIN t : p[k] \in DOMAIN s /\ t[k] = s[p[k]]
         /\ \A i \in DOMAIN s : \E k \in DOMAIN t : p[k] = i
BY DEF SortedAs, StableOrder, Bijection, Surjection

\* The first element of an id is the first of it when they are sorted.
LEMMA FirstStays ==
  ASSUME NEW s, NEW t, NEW p, SortedAs(s, t, ElementIds(s), p), NEW id
  PROVE  CarriersOf(t, id) = CarriersOf(s, id)
<1> DEFINE n == Len(s)
           I == {i \in 1 .. n : s[i].audio_element_id = id}
           J == {k \in 1 .. n : t[k].audio_element_id = id}
           least(K) == CHOOSE x \in K : \A y \in K : x <= y
           first(K) == IF K # {} THEN least(K) ELSE 0
           of(r, k) == IF k = 0 THEN <<>> ELSE <<r[k]>>
           ids == ElementIds(s)
<1>1. /\ n \in Nat /\ DOMAIN s = 1 .. n /\ Len(t) = n
      /\ ids \in [1 .. n -> Nat]
      /\ \A k \in 1 .. n : p[k] \in 1 .. n /\ t[k] = s[p[k]]
      /\ \A i \in 1 .. n : \E k \in 1 .. n : p[k] = i
      /\ \A k, l \in 1 .. n :
           l < k <=> ids[p[l]] < ids[p[k]] \/ (ids[p[l]] = ids[p[k]] /\ p[l] < p[k])
  BY DEF SortedAs, StableOrder, Bijection, Surjection
<1>2. CarriersOf(s, id) = of(s, first(I)) /\ CarriersOf(t, id) = of(t, first(J))
  BY <1>1 DEF CarriersOf, SelectInSeq, Min, Some, None
<1>3. \A i \in 1 .. n : ids[i] = s[i].audio_element_id
  BY <1>1 DEF ElementIds
<1>4. \A K : K \subseteq 1 .. n /\ K # {} => least(K) \in K /\ \A y \in K : least(K) <= y
  <2> SUFFICES ASSUME NEW K, K \subseteq 1 .. n, K # {}
               PROVE  least(K) \in K /\ \A y \in K : least(K) <= y
    OBVIOUS
  <2>1. K \in SUBSET Nat
    OBVIOUS
  <2>2. \E x \in K : \A y \in K : x <= y
    BY <2>1, LeastMember
  <2> QED  BY <2>2
<1>5. I \subseteq 1 .. n /\ J \subseteq 1 .. n
  OBVIOUS
<1>6. \A k \in 1 .. n : k \in J <=> p[k] \in I
  BY <1>1
<1>7. /\ \A i \in I : ids[i] = id
      /\ I # {} => J # {}
      /\ J # {} => I # {}
  <2>1. \A i \in I : ids[i] = id
    BY <1>3
  <2> HIDE DEF I, J, ids
  <2>2. ASSUME NEW i \in I PROVE J # {}
    <3>1. PICK k \in 1 .. n : p[k] = i
      BY <1>1, <1>5
    <3> QED  BY <1>6, <3>1
  <2>3. ASSUME NEW k \in J PROVE I # {}
    BY <1>5, <1>6
  <2> QED  BY <2>1, <2>2, <2>3
<1> HIDE DEF I, J, least, ids
<1>8. CASE I = {}
  BY <1>2, <1>7, <1>8
<1>9. CASE I # {}
  <2> DEFINE i == least(I)
             k == least(J)
  <2>1. i \in I /\ (\A y \in I : i <= y) /\ k \in J /\ \A y \in J : k <= y
    BY <1>4, <1>5, <1>7, <1>9
  <2> HIDE DEF i, k
  <2>2. PICK l \in 1 .. n : p[l] = i
    BY <1>1, <1>5, <2>1
  <2>3. /\ i \in 1 .. n /\ k \in 1 .. n /\ p[k] \in 1 .. n
        /\ p[k] \in I /\ l \in J
    BY <1>1, <1>5, <1>6, <2>1, <2>2
  <2>4. i <= p[k] /\ k <= l /\ ids[p[l]] = ids[p[k]] /\ ids[p[k]] \in Nat
    BY <1>1, <1>7, <2>1, <2>2, <2>3
  <2>5. ~ l < k
    BY <2>2, <2>3, <2>4
  <2>6. ~ p[l] < p[k]
    BY <1>1, <2>3, <2>4, <2>5
  <2>7. p[k] = i
    BY <2>2, <2>3, <2>4, <2>6
  <2>8. t[k] = s[i]
    BY <1>1, <2>3, <2>7
  <2>9. first(I) = i /\ first(J) = k /\ i # 0 /\ k # 0
    BY <1>7, <1>9, <2>3 DEF i, k
  <2> HIDE DEF first
  <2> QED  BY <1>2, <2>8, <2>9
<1> QED  BY <1>8, <1>9

----------------------------------------------------------------------------
(* The file of a set                                                       *)

\* w is the file of a header, configs, elements and presentations.
FileParts(w, h, c, e, m) ==
  /\ IsList(c) /\ IsList(e) /\ IsList(m)
  /\ DOMAIN w = 1 .. (1 + Len(c) + Len(e) + Len(m))
  /\ w[1].kind = "sequence_header" /\ w[1].payload = h
  /\ \A i \in 1 .. Len(c) : w[1 + i].kind = "codec_config" /\ w[1 + i].payload = c[i]
  /\ \A i \in 1 .. Len(e) :
       w[1 + Len(c) + i].kind = "audio_element" /\ w[1 + Len(c) + i].payload = e[i]
  /\ \A i \in 1 .. Len(m) :
       /\ w[1 + Len(c) + Len(e) + i].kind = "mix_presentation"
       /\ w[1 + Len(c) + Len(e) + i].payload = m[i]

ObusOf(kind, type, payloads) ==
  [i \in DOMAIN payloads |-> DescriptorObu(kind, type, payloads[i])]

LEMMA ObusListed ==
  ASSUME NEW s, IsList(s), NEW kind, NEW type
  PROVE  /\ IsList(ObusOf(kind, type, s)) /\ Len(ObusOf(kind, type, s)) = Len(s)
         /\ \A i \in 1 .. Len(s) : /\ ObusOf(kind, type, s)[i].kind = kind
                                   /\ ObusOf(kind, type, s)[i].payload = s[i]
<1> DEFINE t == ObusOf(kind, type, s)
<1>1. Len(s) \in Nat /\ DOMAIN s = 1 .. Len(s)
  BY ListDomain
<1>2. t = [i \in 1 .. Len(s) |-> t[i]]
      /\ \A i \in 1 .. Len(s) : t[i] = DescriptorObu(kind, type, s[i])
  BY <1>1 DEF ObusOf
<1> HIDE DEF t
<1>3. IsList(t) /\ Len(t) = Len(s)
  BY <1>1, <1>2, BoundIsList
<1>4. \A v : DescriptorObu(kind, type, v).kind = kind /\ DescriptorObu(kind, type, v).payload = v
  BY DEF DescriptorObu
<1>5. \A i \in 1 .. Len(s) : t[i].kind = kind /\ t[i].payload = s[i]
  BY <1>2, <1>4
<1> QED  BY <1>3, <1>5 DEF t

LEMMA FileOfSet ==
  ASSUME NEW set, IsList(SortedConfigs(set.codec_configs)),
         IsList(SortedElements(set.audio_elements)), IsList(set.mix_presentations)
  PROVE  FileParts(WriteDescriptors(set), set.sequence_header,
                   SortedConfigs(set.codec_configs), SortedElements(set.audio_elements),
                   set.mix_presentations)
<1> DEFINE w == WriteDescriptors(set)
           h == set.sequence_header
           c == SortedConfigs(set.codec_configs)
           e == SortedElements(set.audio_elements)
           m == set.mix_presentations
           first == DescriptorObu("sequence_header", SequenceHeaderType, h)
           wc == ObusOf("codec_config", 0, c)
           we == ObusOf("audio_element", 1, e)
           wm == ObusOf("mix_presentation", 2, m)
<1>1. w = <<first>> \o wc \o we \o wm
  BY DEF WriteDescriptors, ObusOf
<1>2. first.kind = "sequence_header" /\ first.payload = h
  BY DEF DescriptorObu
<1>3. IsList(c) /\ IsList(e) /\ IsList(m)
  OBVIOUS
<1> HIDE DEF w, h, c, e, m, first
<1>4. /\ IsList(wc) /\ Len(wc) = Len(c)
      /\ \A i \in 1 .. Len(c) : wc[i].kind = "codec_config" /\ wc[i].payload = c[i]
  BY <1>3, ObusListed
<1>5. /\ IsList(we) /\ Len(we) = Len(e)
      /\ \A i \in 1 .. Len(e) : we[i].kind = "audio_element" /\ we[i].payload = e[i]
  BY <1>3, ObusListed
<1>6. /\ IsList(wm) /\ Len(wm) = Len(m)
      /\ \A i \in 1 .. Len(m) : wm[i].kind = "mix_presentation" /\ wm[i].payload = m[i]
  BY <1>3, ObusListed
<1> HIDE DEF wc, we, wm
<1>7. Spread(w, first, wc, we, wm)
  BY <1>1, <1>4, <1>5, <1>6, ConcatSpreads
<1>8. /\ DOMAIN w = 1 .. (1 + Len(c) + Len(e) + Len(m)) /\ w[1] = first
      /\ \A i \in 1 .. Len(c) : w[1 + i] = wc[i]
      /\ \A i \in 1 .. Len(e) : w[1 + Len(c) + i] = we[i]
      /\ \A i \in 1 .. Len(m) : w[1 + Len(c) + Len(e) + i] = wm[i]
  BY <1>4, <1>5, <1>6, <1>7 DEF Spread
<1>9. FileParts(w, h, c, e, m)
  <2>1. \A i \in 1 .. Len(c) : w[1 + i].kind = "codec_config" /\ w[1 + i].payload = c[i]
    BY <1>4, <1>8
  <2>2. ASSUME NEW i \in 1 .. Len(e)
        PROVE  w[1 + Len(c) + i].kind = "audio_element" /\ w[1 + Len(c) + i].payload = e[i]
    BY <1>5, <1>8
  <2>3. ASSUME NEW i \in 1 .. Len(m)
        PROVE  /\ w[1 + Len(c) + Len(e) + i].kind = "mix_presentation"
               /\ w[1 + Len(c) + Len(e) + i].payload = m[i]
    BY <1>6, <1>8
  <2> QED  BY <1>2, <1>3, <1>8, <2>1, <2>2, <2>3, Zenon DEF FileParts
<1> QED  BY <1>9 DEF w, h, c, e, m

\* A list for each member.
ListsOver(s, x) == x = [i \in DOMAIN s |-> x[i]] /\ \A i \in DOMAIN s : IsList(x[i])

\* For each OBU of a file what there is for the part it was made of.
InParts(w, c, e, m, all, a, x, y, z) ==
  /\ all = [i \in DOMAIN w |-> all[i]] /\ all[1] = a
  /\ \A i \in 1 .. Len(c) : all[1 + i] = x[i]
  /\ \A i \in 1 .. Len(e) : all[1 + Len(c) + i] = y[i]
  /\ \A i \in 1 .. Len(m) : all[1 + Len(c) + Len(e) + i] = z[i]

\* What is found in a file is found in its parts.
LEMMA FoundInParts ==
  ASSUME NEW w, NEW h, NEW c, NEW e, NEW m, FileParts(w, h, c, e, m),
         NEW all, NEW a, IsList(a), NEW x, ListsOver(c, x), NEW y, ListsOver(e, y),
         NEW z, ListsOver(m, z), InParts(w, c, e, m, all, a, x, y, z)
  PROVE  /\ FlattenSeq(all) = a \o FlattenSeq(x) \o FlattenSeq(y) \o FlattenSeq(z)
         /\ IsList(FlattenSeq(x)) /\ IsList(FlattenSeq(y)) /\ IsList(FlattenSeq(z))
<1>1. /\ Len(c) \in Nat /\ DOMAIN c = 1 .. Len(c)
      /\ Len(e) \in Nat /\ DOMAIN e = 1 .. Len(e)
      /\ Len(m) \in Nat /\ DOMAIN m = 1 .. Len(m)
      /\ DOMAIN w = 1 .. (1 + Len(c) + Len(e) + Len(m))
  BY ListDomain DEF FileParts
<1>2. Len(x) = Len(c) /\ ListsIn(Len(x), x)
  BY <1>1, BoundIsList DEF ListsIn, ListsOver
<1>3. Len(y) = Len(e) /\ ListsIn(Len(y), y)
  BY <1>1, BoundIsList DEF ListsIn, ListsOver
<1>4. Len(z) = Len(m) /\ ListsIn(Len(z), z)
  BY <1>1, BoundIsList DEF ListsIn, ListsOver
<1>5. Spread(all, a, x, y, z)
  BY <1>1, <1>2, <1>3, <1>4 DEF Spread, ListsOver, InParts
<1>6. FlattenSeq(all) = a \o FlattenSeq(x) \o FlattenSeq(y) \o FlattenSeq(z)
  BY <1>2, <1>3, <1>4, <1>5, SpreadFlattened
<1> QED  BY <1>2, <1>3, <1>4, <1>6, FlattenIsList

\* The descriptors of a file are those it was made of.
LEMMA FilePayloads ==
  ASSUME NEW w, NEW h, NEW c, NEW e, NEW m, FileParts(w, h, c, e, m)
  PROVE  /\ PayloadsOf(w, "codec_config") = c
         /\ PayloadsOf(w, "audio_element") = e
         /\ PayloadsOf(w, "mix_presentation") = m
<1> DEFINE of(kind)  == [i \in DOMAIN w |-> When(w[i].kind = kind, w[i].payload)]
           single(s) == [i \in DOMAIN s |-> <<s[i]>>]
           none(s)   == [i \in DOMAIN s |-> <<>>]
           nothing   == <<>>
<1>1. IsList(c) /\ IsList(e) /\ IsList(m)
  BY DEF FileParts
<1>2. /\ Len(c) \in Nat /\ DOMAIN c = 1 .. Len(c)
      /\ Len(e) \in Nat /\ DOMAIN e = 1 .. Len(e)
      /\ Len(m) \in Nat /\ DOMAIN m = 1 .. Len(m)
      /\ DOMAIN w = 1 .. (1 + Len(c) + Len(e) + Len(m))
  BY <1>1, ListDomain DEF FileParts
<1>3. \A kind : PayloadsOf(w, kind) = FlattenSeq(of(kind))
  BY DEF PayloadsOf
<1>4. IsList(nothing)
  BY ShortLists
<1>5. FlattenSeq(of("codec_config")) = c
  <2>1. PICK all, x, y, z : all = of("codec_config") /\ x = single(c) /\ y = none(e) /\ z = none(m)
    OBVIOUS
  <2>2. InParts(w, c, e, m, all, nothing, x, y, z)
    BY <1>2, <2>1 DEF InParts, FileParts, When, Some, None
  <2>3. ListsOver(c, x) /\ ListsOver(e, y) /\ ListsOver(m, z)
    BY <2>1, ShortLists DEF ListsOver
  <2>4. FlattenSeq(x) = c /\ FlattenSeq(y) = <<>> /\ FlattenSeq(z) = <<>>
    BY <1>1, <2>1, SinglesFlattened, NoneFlattened
  <2> HIDE DEF nothing, of, single, none
  <2>5. FlattenSeq(all) = nothing \o FlattenSeq(x) \o FlattenSeq(y) \o FlattenSeq(z)
    BY <1>4, <2>2, <2>3, FoundInParts
  <2>6. FlattenSeq(all) = <<>> \o c \o <<>> \o <<>>
    BY <2>4, <2>5 DEF nothing
  <2> QED  BY <1>1, <2>6, <2>1, NoneFlattened
<1>6. FlattenSeq(of("audio_element")) = e
  <2>1. PICK all, x, y, z : all = of("audio_element") /\ x = none(c) /\ y = single(e) /\ z = none(m)
    OBVIOUS
  <2>2. InParts(w, c, e, m, all, nothing, x, y, z)
    BY <1>2, <2>1 DEF InParts, FileParts, When, Some, None
  <2>3. ListsOver(c, x) /\ ListsOver(e, y) /\ ListsOver(m, z)
    BY <2>1, ShortLists DEF ListsOver
  <2>4. FlattenSeq(x) = <<>> /\ FlattenSeq(y) = e /\ FlattenSeq(z) = <<>>
    BY <1>1, <2>1, SinglesFlattened, NoneFlattened
  <2> HIDE DEF nothing, of, single, none
  <2>5. FlattenSeq(all) = nothing \o FlattenSeq(x) \o FlattenSeq(y) \o FlattenSeq(z)
    BY <1>4, <2>2, <2>3, FoundInParts
  <2>6. FlattenSeq(all) = <<>> \o <<>> \o e \o <<>>
    BY <2>4, <2>5 DEF nothing
  <2> QED  BY <1>1, <2>6, <2>1, NoneFlattened, ShortLists
<1>7. FlattenSeq(of("mix_presentation")) = m
  <2>1. PICK all, x, y, z : all = of("mix_presentation") /\ x = none(c) /\ y = none(e) /\ z = single(m)
    OBVIOUS
  <2>2. InParts(w, c, e, m, all, nothing, x, y, z)
    BY <1>2, <2>1 DEF InParts, FileParts, When, Some, None
  <2>3. ListsOver(c, x) /\ ListsOver(e, y) /\ ListsOver(m, z)
    BY <2>1, ShortLists DEF ListsOver
  <2>4. FlattenSeq(x) = <<>> /\ FlattenSeq(y) = <<>> /\ FlattenSeq(z) = m
    BY <1>1, <2>1, SinglesFlattened, NoneFlattened
  <2> HIDE DEF nothing, of, single, none
  <2>5. FlattenSeq(all) = nothing \o FlattenSeq(x) \o FlattenSeq(y) \o FlattenSeq(z)
    BY <1>4, <2>2, <2>3, FoundInParts
  <2>6. FlattenSeq(all) = <<>> \o <<>> \o <<>> \o m
    BY <2>4, <2>5 DEF nothing
  <2> QED  BY <1>1, <2>6, <2>1, NoneFlattened, ShortLists
<1> QED  BY <1>3, <1>5, <1>6, <1>7

\* A file publishes what its elements and its presentations do, in their order.
LEMMA FileRegistry ==
  ASSUME NEW w, NEW h, NEW c, NEW e, NEW m, FileParts(w, h, c, e, m),
         \A i \in DOMAIN e : ElementListed(e[i]), \A i \in DOMAIN m : MixListed(m[i])
  PROVE  /\ RegistryOf(w) = FoundIn(e, PublishedByElement) \o FoundIn(m, PublishedByPresentation)
         /\ IsList(RegistryOf(w))
<1> DEFINE of      == [i \in DOMAIN w |-> Observe(<<>>, w[i])]
           none    == [i \in DOMAIN c |-> <<>>]
           left    == [i \in DOMAIN e |-> PublishedByElement(e[i])]
           right   == [i \in DOMAIN m |-> PublishedByPresentation(m[i])]
           nothing == <<>>
<1>1. IsList(c) /\ IsList(e) /\ IsList(m)
  BY DEF FileParts
<1>2. /\ Len(c) \in Nat /\ DOMAIN c = 1 .. Len(c)
      /\ Len(e) \in Nat /\ DOMAIN e = 1 .. Len(e)
      /\ Len(m) \in Nat /\ DOMAIN m = 1 .. Len(m)
      /\ DOMAIN w = 1 .. (1 + Len(c) + Len(e) + Len(m))
  BY <1>1, ListDomain DEF FileParts
<1>3. /\ RegistryOf(w) = FlattenSeq(of)
      /\ FoundIn(e, PublishedByElement) = FlattenSeq(left)
      /\ FoundIn(m, PublishedByPresentation) = FlattenSeq(right)
  BY DEF RegistryOf, FoundIn
<1>4. ASSUME NEW i \in DOMAIN e
      PROVE  IsList(left[i]) /\ <<>> \o PublishedByElement(e[i]) = left[i]
  BY ElementPublishesList, NoneFlattened
<1>5. ASSUME NEW i \in DOMAIN m
      PROVE  IsList(right[i]) /\ <<>> \o PublishedByPresentation(m[i]) = right[i]
  BY PresentationPublishesList, NoneFlattened
<1>6. /\ \A o : o.kind \in {"sequence_header", "codec_config"} => Observe(<<>>, o) = <<>>
      /\ \A o : o.kind = "audio_element" => Observe(<<>>, o) = <<>> \o PublishedByElement(o.payload)
      /\ \A o : o.kind = "mix_presentation" =>
           Observe(<<>>, o) = <<>> \o PublishedByPresentation(o.payload)
  BY DEF Observe, ObserveAudioElement, ObserveMixPresentation
<1>7. PICK all, x, y, z : all = of /\ x = none /\ y = left /\ z = right
  OBVIOUS
<1>8. InParts(w, c, e, m, all, nothing, x, y, z)
  <2>1. all = [i \in DOMAIN w |-> all[i]] /\ \A i \in DOMAIN w : all[i] = Observe(<<>>, w[i])
    BY <1>7
  <2>2. all[1] = nothing
    BY <1>2, <1>6, <2>1 DEF FileParts
  <2>3. ASSUME NEW i \in 1 .. Len(c) PROVE all[1 + i] = x[i]
    <3>1. 1 + i \in DOMAIN w /\ w[1 + i].kind = "codec_config"
      BY <1>2 DEF FileParts
    <3> QED  BY <1>2, <1>6, <1>7, <2>1, <3>1
  <2>4. ASSUME NEW i \in 1 .. Len(e) PROVE all[1 + Len(c) + i] = y[i]
    <3>1. 1 + Len(c) + i \in DOMAIN w
      BY <1>2
    <3>2. w[1 + Len(c) + i].kind = "audio_element" /\ w[1 + Len(c) + i].payload = e[i]
      BY DEF FileParts
    <3>3. all[1 + Len(c) + i] = <<>> \o PublishedByElement(e[i])
      BY <1>6, <2>1, <3>1, <3>2
    <3> QED  BY <1>2, <1>4, <1>7, <3>3
  <2>5. ASSUME NEW i \in 1 .. Len(m) PROVE all[1 + Len(c) + Len(e) + i] = z[i]
    <3>1. 1 + Len(c) + Len(e) + i \in DOMAIN w
      BY <1>2
    <3>2. /\ w[1 + Len(c) + Len(e) + i].kind = "mix_presentation"
          /\ w[1 + Len(c) + Len(e) + i].payload = m[i]
      BY DEF FileParts
    <3>3. all[1 + Len(c) + Len(e) + i] = <<>> \o PublishedByPresentation(m[i])
      BY <1>6, <2>1, <3>1, <3>2
    <3> QED  BY <1>2, <1>5, <1>7, <3>3
  <2> QED  BY <2>1, <2>2, <2>3, <2>4, <2>5 DEF InParts
<1>9. ListsOver(c, x) /\ ListsOver(e, y) /\ ListsOver(m, z) /\ IsList(nothing)
  BY <1>4, <1>5, <1>7, ShortLists DEF ListsOver
<1>10. FlattenSeq(x) = <<>>
  BY <1>1, <1>7, NoneFlattened
<1> HIDE DEF of, none, left, right, nothing
<1>11. /\ FlattenSeq(all) = nothing \o FlattenSeq(x) \o FlattenSeq(y) \o FlattenSeq(z)
       /\ IsList(FlattenSeq(y)) /\ IsList(FlattenSeq(z))
  BY <1>8, <1>9, FoundInParts
<1>12. FlattenSeq(all) = FlattenSeq(y) \o FlattenSeq(z)
  BY <1>10, <1>11, NoneFlattened, ShortLists DEF nothing
<1> QED  BY <1>3, <1>7, <1>11, <1>12, ConcatIsList

\* Each descriptor has the findings it has by itself.
LEMMA FileObuFindings ==
  ASSUME NEW w, NEW h, NEW c, NEW e, NEW m, FileParts(w, h, c, e, m),
         \A i \in DOMAIN e : ElementListed(e[i]), \A i \in DOMAIN m : MixListed(m[i])
  PROVE  FoundIn(w, ObuFindings)
           = HeaderFindings(h) \o FoundIn(c, ConfigFindings) \o FoundIn(e, ElementFindings)
             \o FoundIn(m, PresentationFindings)
<1> DEFINE of    == [i \in DOMAIN w |-> ObuFindings(w[i])]
           one   == [i \in DOMAIN c |-> ConfigFindings(c[i])]
           two   == [i \in DOMAIN e |-> ElementFindings(e[i])]
           three == [i \in DOMAIN m |-> PresentationFindings(m[i])]
           first == HeaderFindings(h)
<1>1. IsList(c) /\ IsList(e) /\ IsList(m)
  BY DEF FileParts
<1>2. /\ Len(c) \in Nat /\ DOMAIN c = 1 .. Len(c)
      /\ Len(e) \in Nat /\ DOMAIN e = 1 .. Len(e)
      /\ Len(m) \in Nat /\ DOMAIN m = 1 .. Len(m)
      /\ DOMAIN w = 1 .. (1 + Len(c) + Len(e) + Len(m))
  BY <1>1, ListDomain DEF FileParts
<1>3. /\ FoundIn(w, ObuFindings) = FlattenSeq(of)
      /\ FoundIn(c, ConfigFindings) = FlattenSeq(one)
      /\ FoundIn(e, ElementFindings) = FlattenSeq(two)
      /\ FoundIn(m, PresentationFindings) = FlattenSeq(three)
  BY DEF FoundIn
<1>4. \A o : /\ o.kind = "sequence_header" => ObuFindings(o) = HeaderFindings(o.payload)
             /\ o.kind = "codec_config" => ObuFindings(o) = ConfigFindings(o.payload)
             /\ o.kind = "audio_element" => ObuFindings(o) = ElementFindings(o.payload)
             /\ o.kind = "mix_presentation" => ObuFindings(o) = PresentationFindings(o.payload)
  BY DEF ObuFindings
<1>5. IsList(first)
  BY FoundIsList, ConcatIsList DEF HeaderFindings
<1>6. PICK all, x, y, z : all = of /\ x = one /\ y = two /\ z = three
  OBVIOUS
<1>7. ListsOver(c, x) /\ ListsOver(e, y) /\ ListsOver(m, z)
  BY <1>6, ConfigFindingsListed, ElementFindingsListed, PresentationFindingsListed DEF ListsOver
<1>8. /\ \A i \in DOMAIN c : x[i] = ConfigFindings(c[i])
      /\ \A i \in DOMAIN e : y[i] = ElementFindings(e[i])
      /\ \A i \in DOMAIN m : z[i] = PresentationFindings(m[i])
      /\ all = [i \in DOMAIN w |-> all[i]] /\ \A i \in DOMAIN w : all[i] = ObuFindings(w[i])
  BY <1>6
<1>9. InParts(w, c, e, m, all, first, x, y, z)
  <2>1. all[1] = first
    BY <1>2, <1>4, <1>8 DEF FileParts
  <2> HIDE DEF first, of, one, two, three
  <2>2. ASSUME NEW i \in 1 .. Len(c) PROVE all[1 + i] = x[i]
    <3>1. 1 + i \in DOMAIN w /\ w[1 + i].kind = "codec_config" /\ w[1 + i].payload = c[i]
      BY <1>2 DEF FileParts
    <3> QED  BY <1>2, <1>4, <1>8, <3>1
  <2>3. ASSUME NEW i \in 1 .. Len(e) PROVE all[1 + Len(c) + i] = y[i]
    <3>1. 1 + Len(c) + i \in DOMAIN w
      BY <1>2
    <3>2. w[1 + Len(c) + i].kind = "audio_element" /\ w[1 + Len(c) + i].payload = e[i]
      BY DEF FileParts
    <3> QED  BY <1>2, <1>4, <1>8, <3>1, <3>2
  <2>4. ASSUME NEW i \in 1 .. Len(m) PROVE all[1 + Len(c) + Len(e) + i] = z[i]
    <3>1. 1 + Len(c) + Len(e) + i \in DOMAIN w
      BY <1>2
    <3>2. /\ w[1 + Len(c) + Len(e) + i].kind = "mix_presentation"
          /\ w[1 + Len(c) + Len(e) + i].payload = m[i]
      BY DEF FileParts
    <3> QED  BY <1>2, <1>4, <1>8, <3>1, <3>2
  <2> QED  BY <1>8, <2>1, <2>2, <2>3, <2>4 DEF InParts
<1> HIDE DEF of, one, two, three, first
<1>10. FlattenSeq(all) = first \o FlattenSeq(x) \o FlattenSeq(y) \o FlattenSeq(z)
  BY <1>5, <1>7, <1>9, FoundInParts
<1> QED  BY <1>3, <1>6, <1>10 DEF first

\* What is found in the temporal units.
UnitFindings(obus, elements, known) ==
  FoundIn(obus, LAMBDA obu : TemporalFindings(obu, elements, known))

LEMMA PartsOfFindings ==
  ASSUME NEW obus
  PROVE  SequenceFindings(obus)
           = FoundIn(obus, ObuFindings)
             \o DuplicateFindings(PayloadsOf(obus, "codec_config"),
                                  PayloadsOf(obus, "audio_element"),
                                  PayloadsOf(obus, "mix_presentation"), RegistryOf(obus))
             \o Unresolved(PayloadsOf(obus, "audio_element"), PayloadsOf(obus, "codec_config"),
                           PayloadsOf(obus, "mix_presentation"))
             \o UnitFindings(obus, PayloadsOf(obus, "audio_element"), RegistryOf(obus))
BY DEF SequenceFindings, UnitFindings, FoundIn

\* A file of descriptors has no temporal unit.
LEMMA FileTemporalFindings ==
  ASSUME NEW w, NEW h, NEW c, NEW e, NEW m, FileParts(w, h, c, e, m), NEW elements, NEW known
  PROVE  UnitFindings(w, elements, known) = <<>>
<1> DEFINE of      == [i \in DOMAIN w |-> TemporalFindings(w[i], elements, known)]
           none(s) == [i \in DOMAIN s |-> <<>>]
           nothing == <<>>
<1>1. IsList(c) /\ IsList(e) /\ IsList(m)
  BY DEF FileParts
<1>2. /\ Len(c) \in Nat /\ DOMAIN c = 1 .. Len(c)
      /\ Len(e) \in Nat /\ DOMAIN e = 1 .. Len(e)
      /\ Len(m) \in Nat /\ DOMAIN m = 1 .. Len(m)
      /\ DOMAIN w = 1 .. (1 + Len(c) + Len(e) + Len(m))
  BY <1>1, ListDomain DEF FileParts
<1>3. UnitFindings(w, elements, known) = FlattenSeq(of)
  BY DEF UnitFindings, FoundIn
<1>4. \A o : o.kind \in {"sequence_header", "codec_config", "audio_element", "mix_presentation"}
             => TemporalFindings(o, elements, known) = <<>>
  BY DEF TemporalFindings
<1>5. PICK all, x, y, z : all = of /\ x = none(c) /\ y = none(e) /\ z = none(m)
  OBVIOUS
<1>6. InParts(w, c, e, m, all, nothing, x, y, z)
  <2>1. all = [i \in DOMAIN w |-> all[i]]
        /\ \A i \in DOMAIN w : all[i] = TemporalFindings(w[i], elements, known)
    BY <1>5
  <2>2. all[1] = nothing
    BY <1>2, <1>4, <2>1 DEF FileParts
  <2>3. ASSUME NEW i \in 1 .. Len(c) PROVE all[1 + i] = x[i]
    <3>1. 1 + i \in DOMAIN w /\ w[1 + i].kind = "codec_config"
      BY <1>2 DEF FileParts
    <3> QED  BY <1>2, <1>4, <1>5, <2>1, <3>1
  <2>4. ASSUME NEW i \in 1 .. Len(e) PROVE all[1 + Len(c) + i] = y[i]
    <3>1. 1 + Len(c) + i \in DOMAIN w /\ w[1 + Len(c) + i].kind = "audio_element"
      BY <1>2 DEF FileParts
    <3> QED  BY <1>2, <1>4, <1>5, <2>1, <3>1
  <2>5. ASSUME NEW i \in 1 .. Len(m) PROVE all[1 + Len(c) + Len(e) + i] = z[i]
    <3>1. /\ 1 + Len(c) + Len(e) + i \in DOMAIN w
          /\ w[1 + Len(c) + Len(e) + i].kind = "mix_presentation"
      BY <1>2 DEF FileParts
    <3> QED  BY <1>2, <1>4, <1>5, <2>1, <3>1
  <2> QED  BY <2>1, <2>2, <2>3, <2>4, <2>5 DEF InParts
<1>7. ListsOver(c, x) /\ ListsOver(e, y) /\ ListsOver(m, z) /\ IsList(nothing)
  BY <1>5, ShortLists DEF ListsOver
<1>8. FlattenSeq(x) = <<>> /\ FlattenSeq(y) = <<>> /\ FlattenSeq(z) = <<>>
  BY <1>1, <1>5, NoneFlattened
<1> HIDE DEF of, none, nothing
<1>9. FlattenSeq(all) = nothing \o FlattenSeq(x) \o FlattenSeq(y) \o FlattenSeq(z)
  BY <1>6, <1>7, FoundInParts
<1>10. nothing \o nothing = nothing
  BY <1>7, NoneFlattened DEF nothing
<1> QED  BY <1>3, <1>5, <1>8, <1>9, <1>10 DEF nothing

----------------------------------------------------------------------------
(* A set and the file of it                                                *)

\* The references of presentations that no element resolves.
LooseReferences(mixes, elements) ==
  FoundIn(mixes, LAMBDA mix :
    FoundIn(References(mix), LAMBDA id :
      Found(CarriersOf(elements, id) = <<>>, "audio_element_id", id))
    \o FoundIn(mix.sub_mixes, LAMBDA sub_mix : ScalableLayoutFindings(sub_mix, elements)))

\* Only the carriers of the ids matter to presentations.
LEMMA SameReferences ==
  ASSUME NEW s, NEW t, \A id : CarriersOf(t, id) = CarriersOf(s, id), NEW mixes
  PROVE  LooseReferences(mixes, t) = LooseReferences(mixes, s)
<1> DEFINE ids(v, e)  == [i \in DOMAIN References(v) |->
                            Found(CarriersOf(e, References(v)[i]) = <<>>, "audio_element_id",
                                  References(v)[i])]
           subs(v, e) == [i \in DOMAIN v.sub_mixes |-> ScalableLayoutFindings(v.sub_mixes[i], e)]
           of(v, e)   == FlattenSeq(ids(v, e)) \o FlattenSeq(subs(v, e))
<1>1. \A e : LooseReferences(mixes, e) = FlattenSeq([k \in DOMAIN mixes |-> of(mixes[k], e)])
  BY DEF LooseReferences, FoundIn
<1>2. ASSUME NEW sub PROVE ScalableLayoutFindings(sub, t) = ScalableLayoutFindings(sub, s)
  <2> DEFINE id   == sub.elements[1].audio_element_id
             F(q) == FoundIn(q, LAMBDA e :
                       LET layers == IF e.type.kind = "channel_based" THEN Len(e.type.body.layers)
                                     ELSE 0
                       IN  Found(layers > 1 /\ Len(sub.layouts) < layers, "sub_mix.num_layouts",
                                 layers))
  <2>1. \A e : ScalableLayoutFindings(sub, e)
                 = IF Len(sub.elements) # 1 THEN <<>> ELSE F(CarriersOf(e, id))
    BY DEF ScalableLayoutFindings
  <2> HIDE DEF F, id
  <2> QED  BY <2>1
<1>3. ASSUME NEW v PROVE of(v, t) = of(v, s)
  <2>1. ids(v, t) = ids(v, s)
    OBVIOUS
  <2>2. subs(v, t) = subs(v, s)
    BY <1>2
  <2> HIDE DEF ids, subs
  <2> QED  BY <2>1, <2>2
<1> HIDE DEF of
<1>4. [k \in DOMAIN mixes |-> of(mixes[k], t)] = [k \in DOMAIN mixes |-> of(mixes[k], s)]
  BY <1>3
<1> QED  BY <1>1, <1>4

LEMMA LooseReferencesListed ==
  ASSUME NEW mixes, IsList(mixes), \A i \in DOMAIN mixes : MixListed(mixes[i]), NEW elements
  PROVE  IsList(LooseReferences(mixes, elements))
<1> DEFINE ids(v)  == [i \in DOMAIN References(v) |->
                         Found(CarriersOf(elements, References(v)[i]) = <<>>, "audio_element_id",
                               References(v)[i])]
           subs(v) == [i \in DOMAIN v.sub_mixes |->
                         ScalableLayoutFindings(v.sub_mixes[i], elements)]
           of(v)   == FlattenSeq(ids(v)) \o FlattenSeq(subs(v))
           lists   == [k \in DOMAIN mixes |-> of(mixes[k])]
<1>1. LooseReferences(mixes, elements) = FlattenSeq(lists)
  BY DEF LooseReferences, FoundIn
<1>2. ASSUME NEW sub PROVE IsList(ScalableLayoutFindings(sub, elements))
  <2> DEFINE id == sub.elements[1].audio_element_id
             q  == CarriersOf(elements, id)
             layers(e) == IF e.type.kind = "channel_based" THEN Len(e.type.body.layers) ELSE 0
             each == [i \in DOMAIN q |->
                        Found(layers(q[i]) > 1 /\ Len(sub.layouts) < layers(q[i]),
                              "sub_mix.num_layouts", layers(q[i]))]
  <2>1. ScalableLayoutFindings(sub, elements)
          = IF Len(sub.elements) # 1 THEN <<>> ELSE FlattenSeq(each)
    BY DEF ScalableLayoutFindings, FoundIn
  <2>2. IsList(q)
    BY ShortLists DEF CarriersOf, Some, None
  <2>3. each = [i \in DOMAIN q |-> each[i]] /\ \A i \in DOMAIN q : IsList(each[i])
    BY FoundIsList
  <2> HIDE DEF q, each
  <2>4. IsList(FlattenSeq(each))
    BY <2>2, <2>3, EachIsList
  <2> QED  BY <2>1, <2>4, ShortLists
<1>3. ASSUME NEW v, MixListed(v) PROVE IsList(of(v))
  <2> DEFINE r   == References(v)
             one == ids(v)
             two == subs(v)
  <2>1. one = [i \in DOMAIN r |-> one[i]] /\ \A i \in DOMAIN r : IsList(one[i])
    BY FoundIsList
  <2>2. two = [i \in DOMAIN v.sub_mixes |-> two[i]]
        /\ \A i \in DOMAIN v.sub_mixes : IsList(two[i])
    BY <1>2
  <2>3. IsList(r) /\ IsList(v.sub_mixes)
    BY <1>3, ReferencesListed DEF MixListed
  <2>4. of(v) = FlattenSeq(one) \o FlattenSeq(two)
    OBVIOUS
  <2> HIDE DEF of, r, one, two
  <2>5. IsList(FlattenSeq(one)) /\ IsList(FlattenSeq(two))
    BY <2>1, <2>2, <2>3, EachIsList
  <2> QED  BY <2>4, <2>5, ConcatIsList
<1> HIDE DEF of
<1>4. lists = [k \in DOMAIN mixes |-> lists[k]] /\ \A k \in DOMAIN mixes : IsList(lists[k])
  BY <1>3
<1> HIDE DEF lists
<1> QED  BY <1>1, <1>4, EachIsList

\* A DescriptorSet that a program can hold.
SetListed(set) ==
  /\ IsList(set.codec_configs) /\ IsList(set.audio_elements) /\ IsList(set.mix_presentations)
  /\ \A i \in DOMAIN set.codec_configs : set.codec_configs[i].codec_config_id \in Nat
  /\ \A i \in DOMAIN set.audio_elements :
       /\ set.audio_elements[i].audio_element_id \in Nat
       /\ ElementListed(set.audio_elements[i])
  /\ \A i \in DOMAIN set.mix_presentations : MixListed(set.mix_presentations[i])

\* References are resolved alike in configs and elements that were sorted.
LEMMA UnresolvedRearranged ==
  ASSUME NEW c, NEW cs, NEW q, SortedAs(c, cs, ConfigIds(c), q),
         NEW e, NEW es, NEW p, SortedAs(e, es, ElementIds(e), p),
         NEW m, IsList(m), \A i \in DOMAIN m : MixListed(m[i])
  PROVE  /\ Rearranged(Unresolved(es, cs, m), Unresolved(e, c, m))
         /\ IsList(Unresolved(es, cs, m)) /\ IsList(Unresolved(e, c, m))
<1> DEFINE missing(one, configs) ==
             Found(\A i \in DOMAIN configs : configs[i].codec_config_id # one.codec_config_id,
                   "codec_config_id", one.codec_config_id)
           x == [i \in DOMAIN e |-> missing(e[i], c)]
           y == [k \in DOMAIN es |-> missing(es[k], cs)]
           a == LooseReferences(m, e)
           b == LooseReferences(m, es)
<1>1. Unresolved(e, c, m) = FlattenSeq(x) \o a /\ Unresolved(es, cs, m) = FlattenSeq(y) \o b
  BY DEF Unresolved, FoundIn, LooseReferences
<1>2. b = a
  BY FirstStays, SameReferences
<1>3. IsList(a)
  BY LooseReferencesListed
<1>4. ASSUME NEW one PROVE missing(one, cs) = missing(one, c)
  <2>1. /\ \A k \in DOMAIN cs : q[k] \in DOMAIN c /\ cs[k] = c[q[k]]
        /\ \A i \in DOMAIN c : \E k \in DOMAIN cs : q[k] = i
    BY MembersStay
  <2>2. (\A i \in DOMAIN cs : cs[i].codec_config_id # one.codec_config_id)
          <=> \A i \in DOMAIN c : c[i].codec_config_id # one.codec_config_id
    BY <2>1
  <2> QED  BY <2>2 DEF Found
<1>5. \A k \in DOMAIN es : p[k] \in DOMAIN e /\ es[k] = e[p[k]]
  BY MembersStay
<1>6. /\ x = [i \in DOMAIN e |-> x[i]] /\ \A i \in DOMAIN e : IsList(x[i]) /\ x[i] = missing(e[i], c)
      /\ y = [k \in DOMAIN es |-> y[k]] /\ \A k \in DOMAIN es : y[k] = missing(es[k], cs)
  BY FoundIsList
<1> HIDE DEF missing, x, y, a, b
<1>7. \A k \in DOMAIN es : y[k] = x[p[k]]
  BY <1>4, <1>5, <1>6
<1>8. /\ Rearranged(FlattenSeq(y), FlattenSeq(x))
      /\ IsList(FlattenSeq(x)) /\ IsList(FlattenSeq(y))
  BY <1>6, <1>7, EachRearranged
<1> QED  BY <1>1, <1>2, <1>3, <1>8, SameIsRearranged, PartsRearranged

\* The ids of a list, in a list.
LEMMA IdsListed ==
  ASSUME NEW s, IsList(s)
  PROVE  /\ IsList(ConfigIds(s)) /\ IsList(ElementIds(s))
         /\ IsList([i \in DOMAIN s |-> s[i].mix_presentation_id])
         /\ IsList([i \in DOMAIN s |-> s[i].definition.parameter_id])
<1> DEFINE a == ConfigIds(s)
           b == ElementIds(s)
           c == [i \in DOMAIN s |-> s[i].mix_presentation_id]
           d == [i \in DOMAIN s |-> s[i].definition.parameter_id]
           n == Len(s)
<1>1. n \in Nat /\ DOMAIN s = 1 .. n
  BY ListDomain
<1>2. /\ a = [i \in 1 .. n |-> a[i]] /\ b = [i \in 1 .. n |-> b[i]]
      /\ c = [i \in 1 .. n |-> c[i]] /\ d = [i \in 1 .. n |-> d[i]]
  BY <1>1 DEF ConfigIds, ElementIds
<1> HIDE DEF a, b, c, d, n
<1>3. IsList(a) /\ IsList(b) /\ IsList(c) /\ IsList(d)
  BY <1>1, <1>2, BoundIsList
<1> QED  BY <1>3 DEF a, b, c, d

\* Duplicates are as many in what was sorted.
LEMMA DuplicatesRearranged ==
  ASSUME NEW c, NEW cs, NEW q, SortedAs(c, cs, ConfigIds(c), q),
         NEW e, NEW es, NEW p, SortedAs(e, es, ElementIds(e), p),
         NEW m, IsList(m), NEW known, IsList(known)
  PROVE  /\ Rearranged(DuplicateFindings(cs, es, m, known), DuplicateFindings(c, e, m, known))
         /\ IsList(DuplicateFindings(cs, es, m, known))
         /\ IsList(DuplicateFindings(c, e, m, known))
<1> DEFINE ms == [i \in DOMAIN m |-> m[i].mix_presentation_id]
           ks == [i \in DOMAIN known |-> known[i].definition.parameter_id]
           c1 == PairsOf(ConfigIds(c), "codec_config_id")
           c2 == PairsOf(ConfigIds(cs), "codec_config_id")
           e1 == PairsOf(ElementIds(e), "audio_element_id")
           e2 == PairsOf(ElementIds(es), "audio_element_id")
           m1 == PairsOf(ms, "mix_presentation_id")
           k1 == PairsOf(ks, "parameter_id")
<1>1. IsList(c) /\ IsList(cs) /\ IsList(e) /\ IsList(es)
  BY DEF SortedAs
<1>2. /\ IsList(ConfigIds(c)) /\ IsList(ConfigIds(cs))
      /\ IsList(ElementIds(e)) /\ IsList(ElementIds(es)) /\ IsList(ms) /\ IsList(ks)
  BY <1>1, IdsListed
<1>3. Rearranged(c2, c1)
  <2>1. /\ DOMAIN ConfigIds(c) = DOMAIN c /\ DOMAIN ConfigIds(cs) = DOMAIN cs
        /\ \A k \in DOMAIN cs : ConfigIds(cs)[k] = ConfigIds(c)[q[k]]
    BY MembersStay DEF ConfigIds
  <2> QED  BY <1>2, <2>1, PairsRearranged
<1>4. Rearranged(e2, e1)
  <2>1. /\ DOMAIN ElementIds(e) = DOMAIN e /\ DOMAIN ElementIds(es) = DOMAIN es
        /\ \A k \in DOMAIN es : ElementIds(es)[k] = ElementIds(e)[p[k]]
    BY MembersStay DEF ElementIds
  <2> QED  BY <1>2, <2>1, PairsRearranged
<1>5. IsList(c1) /\ IsList(c2) /\ IsList(e1) /\ IsList(e2) /\ IsList(m1) /\ IsList(k1)
  BY <1>2, PairsAreLists
<1>6. /\ DuplicateFindings(c, e, m, known) = c1 \o e1 \o m1 \o k1
      /\ DuplicateFindings(cs, es, m, known) = c2 \o e2 \o m1 \o k1
  BY DEF DuplicateFindings
<1> HIDE DEF c1, c2, e1, e2, m1, k1, ms, ks
<1>7. /\ Rearranged(c2 \o e2, c1 \o e1) /\ IsList(c2 \o e2) /\ IsList(c1 \o e1)
      /\ Rearranged(m1, m1) /\ Rearranged(k1, k1)
  BY <1>3, <1>4, <1>5, PartsRearranged, SameIsRearranged
<1>8. /\ Rearranged(c2 \o e2 \o m1, c1 \o e1 \o m1)
      /\ IsList(c2 \o e2 \o m1) /\ IsList(c1 \o e1 \o m1)
  BY <1>5, <1>7, PartsRearranged
<1>9. /\ Rearranged(c2 \o e2 \o m1 \o k1, c1 \o e1 \o m1 \o k1)
      /\ IsList(c2 \o e2 \o m1 \o k1) /\ IsList(c1 \o e1 \o m1 \o k1)
  BY <1>5, <1>7, <1>8, PartsRearranged
<1> QED  BY <1>6, <1>9

\* The file of a set has the findings of the set.
THEOREM FileHasFindings ==
  ASSUME NEW set, SetListed(set)
  PROVE  SameFindings(SetFindings(set), SequenceFindings(WriteDescriptors(set)))
<1> DEFINE w  == WriteDescriptors(set)
           h  == set.sequence_header
           c  == set.codec_configs
           e  == set.audio_elements
           m  == set.mix_presentations
           cs == SortedConfigs(c)
           es == SortedElements(e)
           known == FromDescriptors(set)
<1>1. IsList(c) /\ IsList(e) /\ IsList(m)
  BY DEF SetListed
<1>2. PICK q : SortedAs(c, cs, ConfigIds(c), q)
  <2>1. ConfigIds(c) \in [DOMAIN c -> Nat]
    BY DEF SetListed, ConfigIds
  <2> QED  BY <1>1, <2>1, SortedList DEF SortedConfigs
<1>3. PICK p : SortedAs(e, es, ElementIds(e), p)
  <2>1. ElementIds(e) \in [DOMAIN e -> Nat]
    BY DEF SetListed, ElementIds
  <2> QED  BY <1>1, <2>1, SortedList DEF SortedElements
<1>4. IsList(cs) /\ IsList(es)
  BY <1>2, <1>3 DEF SortedAs
<1>5. FileParts(w, h, cs, es, m)
  BY <1>1, <1>4, FileOfSet
<1>6. /\ \A i \in DOMAIN e : ElementListed(e[i])
      /\ \A i \in DOMAIN m : MixListed(m[i])
  BY DEF SetListed
<1>7. SetFindings(set)
        = HeaderFindings(h) \o FoundIn(c, ConfigFindings) \o FoundIn(e, ElementFindings)
          \o FoundIn(m, PresentationFindings) \o DuplicateFindings(c, e, m, known)
          \o Unresolved(e, c, m)
  BY DEF SetFindings
<1>8. known = FoundIn(es, PublishedByElement) \o FoundIn(m, PublishedByPresentation)
  BY DEF FromDescriptors
<1> HIDE DEF w, h, c, e, m, cs, es, known
<1>9. \A i \in DOMAIN es : ElementListed(es[i])
  BY <1>3, <1>6, MembersStay
<1>10. RegistryOf(w) = known /\ IsList(known)
  BY Zenon, <1>5, <1>6, <1>8, <1>9, FileRegistry
<1>11. /\ PayloadsOf(w, "codec_config") = cs
       /\ PayloadsOf(w, "audio_element") = es
       /\ PayloadsOf(w, "mix_presentation") = m
  BY <1>5, FilePayloads
<1> DEFINE first == HeaderFindings(h)
           c1 == FoundIn(c, ConfigFindings)
           c2 == FoundIn(cs, ConfigFindings)
           e1 == FoundIn(e, ElementFindings)
           e2 == FoundIn(es, ElementFindings)
           m1 == FoundIn(m, PresentationFindings)
           d1 == DuplicateFindings(c, e, m, known)
           d2 == DuplicateFindings(cs, es, m, known)
           u1 == Unresolved(e, c, m)
           u2 == Unresolved(es, cs, m)
<1>12. SequenceFindings(w) = first \o c2 \o e2 \o m1 \o d2 \o u2 \o <<>>
  <2>1. SequenceFindings(w)
          = FoundIn(w, ObuFindings) \o DuplicateFindings(cs, es, m, known)
            \o Unresolved(es, cs, m) \o UnitFindings(w, es, known)
    BY <1>10, <1>11, PartsOfFindings
  <2>2. UnitFindings(w, es, known) = <<>>
    BY <1>5, FileTemporalFindings
  <2>3. FoundIn(w, ObuFindings) = first \o c2 \o e2 \o m1
    BY <1>5, <1>6, <1>9, FileObuFindings
  <2> HIDE DEF first, c2, e2, m1
  <2> QED  BY <2>1, <2>2, <2>3
<1>13. IsList(first) /\ IsList(m1)
  <2> DEFINE lists == [i \in DOMAIN m |-> PresentationFindings(m[i])]
  <2>1. lists = [i \in DOMAIN m |-> lists[i]] /\ \A i \in DOMAIN m : IsList(lists[i])
    BY <1>6, PresentationFindingsListed
  <2>2. m1 = FlattenSeq(lists)
    BY DEF FoundIn
  <2>3. IsList(first)
    BY FoundIsList, ConcatIsList DEF HeaderFindings
  <2> HIDE DEF lists, m1, first
  <2> QED  BY <1>1, <2>1, <2>2, <2>3, EachIsList
<1>14. Rearranged(c2, c1) /\ IsList(c1) /\ IsList(c2)
  <2> DEFINE x == [i \in DOMAIN c |-> ConfigFindings(c[i])]
             y == [k \in DOMAIN cs |-> ConfigFindings(cs[k])]
  <2>1. /\ x = [i \in DOMAIN c |-> x[i]] /\ y = [i \in DOMAIN cs |-> y[i]]
        /\ \A i \in DOMAIN c : IsList(x[i])
    BY ConfigFindingsListed
  <2>2. \A k \in DOMAIN cs : y[k] = x[q[k]]
    BY <1>2, MembersStay
  <2>3. c1 = FlattenSeq(x) /\ c2 = FlattenSeq(y)
    BY DEF FoundIn
  <2> HIDE DEF x, y, c1, c2
  <2> QED  BY <1>2, <2>1, <2>2, <2>3, EachRearranged
<1>15. Rearranged(e2, e1) /\ IsList(e1) /\ IsList(e2)
  <2> DEFINE x == [i \in DOMAIN e |-> ElementFindings(e[i])]
             y == [k \in DOMAIN es |-> ElementFindings(es[k])]
  <2>1. /\ x = [i \in DOMAIN e |-> x[i]] /\ y = [i \in DOMAIN es |-> y[i]]
        /\ \A i \in DOMAIN e : IsList(x[i])
    BY <1>6, ElementFindingsListed
  <2>2. \A k \in DOMAIN es : y[k] = x[p[k]]
    BY <1>3, MembersStay
  <2>3. e1 = FlattenSeq(x) /\ e2 = FlattenSeq(y)
    BY DEF FoundIn
  <2> HIDE DEF x, y, e1, e2
  <2> QED  BY <1>3, <2>1, <2>2, <2>3, EachRearranged
<1>16. Rearranged(d2, d1) /\ IsList(d1) /\ IsList(d2)
  BY <1>1, <1>2, <1>3, <1>10, DuplicatesRearranged
<1>17. Rearranged(u2, u1) /\ IsList(u1) /\ IsList(u2)
  BY <1>1, <1>2, <1>3, <1>6, UnresolvedRearranged
<1>18. SetFindings(set) = first \o c1 \o e1 \o m1 \o d1 \o u1
  BY <1>7
<1> HIDE DEF first, c1, c2, e1, e2, m1, d1, d2, u1, u2
<1>19. /\ Rearranged(first \o c2, first \o c1) /\ IsList(first \o c2) /\ IsList(first \o c1)
       /\ Rearranged(m1, m1)
  BY <1>13, <1>14, SameIsRearranged, PartsRearranged
<1>20. /\ Rearranged(first \o c2 \o e2, first \o c1 \o e1)
       /\ IsList(first \o c2 \o e2) /\ IsList(first \o c1 \o e1)
  BY <1>15, <1>19, PartsRearranged
<1>21. /\ Rearranged(first \o c2 \o e2 \o m1, first \o c1 \o e1 \o m1)
       /\ IsList(first \o c2 \o e2 \o m1) /\ IsList(first \o c1 \o e1 \o m1)
  BY <1>13, <1>19, <1>20, PartsRearranged
<1>22. /\ Rearranged(first \o c2 \o e2 \o m1 \o d2, first \o c1 \o e1 \o m1 \o d1)
       /\ IsList(first \o c2 \o e2 \o m1 \o d2) /\ IsList(first \o c1 \o e1 \o m1 \o d1)
  BY <1>16, <1>21, PartsRearranged
<1>23. /\ Rearranged(first \o c2 \o e2 \o m1 \o d2 \o u2, first \o c1 \o e1 \o m1 \o d1 \o u1)
       /\ IsList(first \o c2 \o e2 \o m1 \o d2 \o u2)
       /\ IsList(first \o c1 \o e1 \o m1 \o d1 \o u1)
  BY <1>17, <1>22, PartsRearranged
<1>24. SequenceFindings(w) = first \o c2 \o e2 \o m1 \o d2 \o u2
  BY <1>12, <1>23, NoneFlattened
<1>25. ToBag(SequenceFindings(w)) = ToBag(SetFindings(set))
  BY <1>18, <1>23, <1>24, BagsOfLists
<1> QED  BY <1>25 DEF SameFindings, w

\* The DescriptorSets that files are of are sets that a program can hold.
SetsListed == \A set \in Sets : SetListed(set)

LEMMA FindingsReadAgree ==
  ASSUME SetsListed, SameFindingsRead
  PROVE  FindingsAgree
<1> SUFFICES ASSUME damage = NoDamage, parsed # None
             PROVE  /\ SameFindings(SequenceFindings(written), SequenceFindings(Result.obus))
                    /\ \A set \in Sets : WriteDescriptors(set) = written
                         => SameFindings(SetFindings(set), SequenceFindings(Result.obus))
  BY Zenon DEF FindingsAgree
<1>1. SequenceFindings(Result.obus) = SequenceFindings(written)
  BY DEF SameFindingsRead
<1>2. SameFindings(SequenceFindings(written), SequenceFindings(written))
  BY DEF SameFindings
<1>3. ASSUME NEW set \in Sets, WriteDescriptors(set) = written
      PROVE  SameFindings(SetFindings(set), SequenceFindings(written))
  BY <1>3, FileHasFindings DEF SetsListed
<1> QED  BY <1>1, <1>2, <1>3

\* A file has the findings, each as often, that its OBUs had before they were
\* written, and that the DescriptorSet had that it was written from: the set's
\* validator and the sequence's agree though one looks for duplicates and
\* carriers before the writer has sorted, and the other after, for the sort is
\* stable.
THEOREM FileFindingsAgree ==
  ASSUME CrateLimits, ScriptsShaped, SetsListed
  PROVE  Spec /\ []OthersReadAlone => []FindingsAgree
<1>1. SameFindingsRead => FindingsAgree
  BY FindingsReadAgree
<1>2. Spec /\ []OthersReadAlone => []SameFindingsRead
  BY FindingsSurvive
<1> QED  BY <1>1, <1>2, PTL

=============================================================================
