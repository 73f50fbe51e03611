--------------------------- MODULE SequenceLemmas ---------------------------
(***************************************************************************)
(* Facts about sequences and naturals that the proofs of several           *)
(* components use: folds and flattened lists, lists with the same entries  *)
(* as often, and stable sorts.                                             *)
(***************************************************************************)
EXTENDS Sequences, Integers, SequencesExt, SequenceTheorems, FiniteSetTheorems, WellFoundedInduction, TLAPS

\* A nonempty set of naturals has a least member.
LEMMA LeastMember ==
  ASSUME NEW S \in SUBSET Nat, S # {}
  PROVE  \E n \in S : \A m \in S : n <= m
<1> DEFINE Below == OpToRel(<, Nat)
<1>1. IsWellFoundedOn(Below, Nat)
  BY ONLY NatLessThanWellFounded, Zenon
<1>2. \A m, n \in Nat : m < n => <<m, n>> \in Below
  BY DEF OpToRel
<1> HIDE DEF Below
<1>3. PICK n \in S : \A m \in S : ~ (<<m, n>> \in Below)
  BY <1>1, WFMin, Zenon
<1>4. \A m \in S : ~ (m < n)
  BY <1>2, <1>3
<1> QED  BY <1>4

\* Induction on the members of a set of naturals.
LEMMA NaturalSteps ==
  ASSUME NEW S, 0 \in S, \A n \in Nat : n \in S => n + 1 \in S
  PROVE  Nat \subseteq S
<1> DEFINE Bad == Nat \ S
<1> SUFFICES ASSUME Bad # {} PROVE FALSE
  OBVIOUS
<1>1. PICK n \in Bad : \A m \in Bad : n <= m
  <2>1. Bad \in SUBSET Nat
    OBVIOUS
  <2> HIDE DEF Bad
  <2> QED  BY <2>1, LeastMember
<1>2. n \in Nat /\ n # 0 /\ n \notin S
  BY <1>1
<1>3. n - 1 \in Nat /\ n - 1 \notin Bad /\ (n - 1) + 1 = n
  BY <1>1, <1>2
<1> QED  BY <1>2, <1>3

\* A sequence holds members of its set, and a list of them is a sequence.
LEMMA SeqMember ==
  ASSUME NEW S, NEW s \in Seq(S), NEW i \in DOMAIN s
  PROVE  s[i] \in S /\ i \in Nat /\ DOMAIN s = 1..Len(s) /\ Len(s) \in Nat
OBVIOUS

ListOf(T, s, t) == t \in Seq(T) /\ Len(t) = Len(s) /\ DOMAIN t = DOMAIN s

LEMMA ListTyped ==
  ASSUME NEW S, NEW T, NEW s \in Seq(S), NEW t, t = [i \in DOMAIN s |-> t[i]],
         \A i \in DOMAIN s : t[i] \in T
  PROVE  ListOf(T, s, t)
BY DEF ListOf

\* What Append leaves and what it adds.
LEMMA AppendMembers ==
  ASSUME NEW S, NEW s \in Seq(S), NEW x \in S
  PROVE  /\ Append(s, x) \in Seq(S) /\ Append(s, x) # <<>>
         /\ Len(s) \in Nat /\ Len(Append(s, x)) = Len(s) + 1
         /\ DOMAIN Append(s, x) = 1..(Len(s) + 1)
         /\ \A i \in 1..Len(s) : s[i] = Append(s, x)[i]
         /\ Append(s, x)[Len(s) + 1] = x
OBVIOUS

\* What concatenation keeps of both sides.
Concatenates(S, a, b) ==
         /\ a \o b \in Seq(S) /\ Len(a) \in Nat /\ Len(b) \in Nat
         /\ Len(a \o b) = Len(a) + Len(b)
         /\ DOMAIN (a \o b) = 1..(Len(a) + Len(b))
         /\ DOMAIN a = 1..Len(a) /\ DOMAIN b = 1..Len(b)
         /\ \A k \in 1..Len(a) : (a \o b)[k] = a[k]
         /\ \A k \in 1..Len(b) : (a \o b)[Len(a) + k] = b[k]

LEMMA ConcatMembers ==
  ASSUME NEW S, NEW a \in Seq(S), NEW b \in Seq(S)
  PROVE  Concatenates(S, a, b)
BY DEF Concatenates

\* A nonempty sequence is another one and its last member.
EndsInMember(S, n, s) == \E t \in Seq(S), x \in S : Len(t) = n /\ s = Append(t, x)

LEMMA LastAppended ==
  ASSUME NEW S, NEW n \in Nat, NEW s \in Seq(S), Len(s) = n + 1
  PROVE  EndsInMember(S, n, s)
<1> DEFINE t == [i \in 1..n |-> s[i]]
<1>1. t \in Seq(S) /\ Len(t) = n /\ \A i \in 1..n : t[i] = s[i]
  OBVIOUS
<1>2. s[n + 1] \in S
  OBVIOUS
<1> HIDE DEF t
<1>3. /\ Append(t, s[n + 1]) \in Seq(S) /\ Len(Append(t, s[n + 1])) = n + 1
      /\ \A i \in 1..n : Append(t, s[n + 1])[i] = t[i]
      /\ Append(t, s[n + 1])[n + 1] = s[n + 1]
  BY <1>1, <1>2
<1>4. \A i \in 1..(n + 1) : Append(t, s[n + 1])[i] = s[i]
  <2>1. \A i \in 1..(n + 1) : i \in 1..n \/ i = n + 1
    OBVIOUS
  <2> QED  BY <1>1, <1>3, <2>1
<1>5. s = Append(t, s[n + 1])
  BY <1>3, <1>4, SeqEqual
<1> QED  BY <1>1, <1>2, <1>5 DEF EndsInMember

----------------------------------------------------------------------------
(* Flattening                                                              *)

FlattenTable(seqs, m, f) ==
  f = [i \in 1..m |-> IF i = 1 THEN seqs[i] ELSE f[i - 1] \o seqs[i]]

\* The recursion that flattens a list has a solution: extend that of one
\* member less.
LEMMA FlattenTableExists ==
  ASSUME NEW seqs, NEW m \in Nat
  PROVE  \E f : FlattenTable(seqs, m, f)
<1> DEFINE S == {k \in Nat : \E f : FlattenTable(seqs, k, f)}
<1>1. 0 \in S
  <2> DEFINE f == [i \in 1..0 |-> 0]
  <2>1. FlattenTable(seqs, 0, f)
    BY DEF FlattenTable
  <2> QED  BY <2>1
<1>2. ASSUME NEW k \in Nat, k \in S PROVE k + 1 \in S
  <2>1. PICK f : FlattenTable(seqs, k, f)
    BY <1>2
  <2> DEFINE g == [i \in 1..(k + 1) |-> IF i = 1 THEN seqs[i] ELSE f[i - 1] \o seqs[i]]
  <2>2. \A i \in 1..k : f[i] = IF i = 1 THEN seqs[i] ELSE f[i - 1] \o seqs[i]
    BY <2>1 DEF FlattenTable
  <2>3. \A i \in 1..k : g[i] = f[i]
    BY <2>2
  <2>4. \A i \in 1..(k + 1) : (IF i = 1 THEN seqs[i] ELSE g[i - 1] \o seqs[i])
                             = (IF i = 1 THEN seqs[i] ELSE f[i - 1] \o seqs[i])
    <3> HIDE DEF g
    <3>1. \A i \in 1..(k + 1) : i # 1 => i - 1 \in 1..k
      OBVIOUS
    <3> QED  BY <2>3, <3>1
  <2>5. g = [i \in 1..(k + 1) |-> IF i = 1 THEN seqs[i] ELSE g[i - 1] \o seqs[i]]
    BY <2>4
  <2>6. FlattenTable(seqs, k + 1, g)
    BY <2>5 DEF FlattenTable
  <2> QED  BY <2>6
<1> HIDE DEF S
<1>3. Nat \subseteq S
  BY <1>1, <1>2, NaturalSteps
<1> QED  BY <1>3 DEF S

SameUpTo(m, s, t) == \A i \in 1..m : s[i] = t[i]

\* Two tables agree as far as their lists do.
LEMMA FlattenTablesAgree ==
  ASSUME NEW s, NEW t, NEW m \in Nat, NEW k \in Nat, m <= k,
         SameUpTo(m, s, t),
         NEW f, FlattenTable(s, m, f), NEW g, FlattenTable(t, k, g)
  PROVE  SameUpTo(m, f, g)
<1> DEFINE S == {n \in Nat : n \in 1..m => f[n] = g[n]}
<1>1. \A n \in 1..m : /\ n \in 1..k
                      /\ f[n] = IF n = 1 THEN s[n] ELSE f[n - 1] \o s[n]
                      /\ g[n] = IF n = 1 THEN t[n] ELSE g[n - 1] \o t[n]
  <2> SUFFICES ASSUME NEW n \in 1..m
               PROVE  /\ n \in 1..k
                      /\ f[n] = IF n = 1 THEN s[n] ELSE f[n - 1] \o s[n]
                      /\ g[n] = IF n = 1 THEN t[n] ELSE g[n - 1] \o t[n]
    OBVIOUS
  <2>1. n \in 1..k
    OBVIOUS
  <2>2. f[n] = IF n = 1 THEN s[n] ELSE f[n - 1] \o s[n]
    BY DEF FlattenTable
  <2>3. g[n] = IF n = 1 THEN t[n] ELSE g[n - 1] \o t[n]
    BY <2>1 DEF FlattenTable
  <2> QED  BY <2>1, <2>2, <2>3
<1>2. 0 \in S
  OBVIOUS
<1>3. ASSUME NEW n \in Nat, n \in S PROVE n + 1 \in S
  <2> SUFFICES ASSUME n + 1 \in 1..m PROVE f[n + 1] = g[n + 1]
    OBVIOUS
  <2>1. CASE n = 0
    BY <1>1, <2>1 DEF SameUpTo
  <2>2. CASE n # 0
    <3>1. n \in 1..m /\ (n + 1) - 1 = n /\ n + 1 # 1
      BY <2>2
    <3>2. f[n] = g[n]
      BY <1>3, <3>1
    <3> QED  BY <1>1, <3>1, <3>2 DEF SameUpTo
  <2> QED  BY <2>1, <2>2
<1> HIDE DEF S
<1>4. Nat \subseteq S
  BY <1>2, <1>3, NaturalSteps
<1> QED  BY <1>4 DEF S, SameUpTo

LEMMA FlattenOfTable ==
  ASSUME NEW S, NEW seqs \in Seq(S), seqs # <<>>
  PROVE  \E f : FlattenTable(seqs, Len(seqs), f) /\ FlattenSeq(seqs) = f[Len(seqs)]
<1> DEFINE f == CHOOSE f : FlattenTable(seqs, Len(seqs), f)
<1>1. FlattenTable(seqs, Len(seqs), f)
  BY FlattenTableExists
<1>2. Len(seqs) # 0
  OBVIOUS
<1>3. FlattenSeq(seqs) = f[Len(seqs)]
  BY <1>2 DEF FlattenSeq, FlattenTable
<1> HIDE DEF f
<1> QED  BY <1>1, <1>3

LEMMA FlattenEmpty == FlattenSeq(<<>>) = <<>>
BY DEF FlattenSeq

\* Another list at the end is concatenated at the end.
LEMMA FlattenAppend ==
  ASSUME NEW S, NEW seqs \in Seq(Seq(S)), NEW s \in Seq(S)
  PROVE  FlattenSeq(Append(seqs, s)) = FlattenSeq(seqs) \o s
<1> DEFINE m    == Len(seqs)
           more == Append(seqs, s)
<1>1. /\ m \in Nat /\ more \in Seq(Seq(S)) /\ Len(more) = m + 1 /\ more # <<>>
      /\ \A i \in 1..m : seqs[i] = more[i]
      /\ more[m + 1] = s
  BY AppendMembers
<1>2. PICK g : FlattenTable(more, m + 1, g) /\ FlattenSeq(more) = g[m + 1]
  BY <1>1, FlattenOfTable
<1> HIDE DEF more
<1>3. CASE seqs = <<>>
  <2>1. m = 0 /\ FlattenSeq(more) = s
    BY <1>1, <1>2, <1>3 DEF FlattenTable
  <2>2. FlattenSeq(seqs) \o s = s
    BY <1>3, FlattenEmpty, ConcatEmptySeq
  <2> QED  BY <2>1, <2>2 DEF more
<1>4. CASE seqs # <<>>
  <2>1. PICK f : FlattenTable(seqs, m, f) /\ FlattenSeq(seqs) = f[m]
    BY <1>4, FlattenOfTable
  <2>2. m \in 1..m
    BY <1>1, <1>4
  <2>3. f[m] = g[m]
    <3> HIDE DEF m
    <3>1. m \in Nat /\ m + 1 \in Nat /\ m <= m + 1
      BY <1>1
    <3>2. FlattenTable(seqs, m, f) /\ FlattenTable(more, m + 1, g)
      BY <1>2, <2>1
    <3>3. SameUpTo(m, seqs, more)
      BY <1>1 DEF SameUpTo
    <3>4. SameUpTo(m, f, g)
      BY <3>1, <3>2, <3>3, FlattenTablesAgree
    <3> QED  BY <2>2, <3>4 DEF SameUpTo
  <2>4. g[m + 1] = g[m] \o s
    <3> HIDE DEF m
    <3>1. m + 1 \in 1..(m + 1) /\ m + 1 # 1 /\ (m + 1) - 1 = m
      BY <1>1, <2>2
    <3>2. g[m + 1] = IF m + 1 = 1 THEN more[m + 1] ELSE g[(m + 1) - 1] \o more[m + 1]
      BY <1>2, <3>1 DEF FlattenTable
    <3> QED  BY <1>1, <3>1, <3>2
  <2> QED  BY <1>2, <2>1, <2>3, <2>4 DEF more
<1> QED  BY <1>3, <1>4

\* What a list of lists holds is what its flattening holds.
LEMMA FlattenMembers ==
  ASSUME NEW S, NEW seqs \in Seq(Seq(S))
  PROVE  /\ FlattenSeq(seqs) \in Seq(S)
         /\ \A k \in DOMAIN FlattenSeq(seqs) :
              \E i \in DOMAIN seqs : \E j \in DOMAIN seqs[i] : FlattenSeq(seqs)[k] = seqs[i][j]
         /\ \A i \in DOMAIN seqs : \A j \in DOMAIN seqs[i] :
              \E k \in DOMAIN FlattenSeq(seqs) : FlattenSeq(seqs)[k] = seqs[i][j]
<1> DEFINE Right(s) ==
             /\ FlattenSeq(s) \in Seq(S)
             /\ \A k \in DOMAIN FlattenSeq(s) :
                  \E i \in DOMAIN s : \E j \in DOMAIN s[i] : FlattenSeq(s)[k] = s[i][j]
             /\ \A i \in DOMAIN s : \A j \in DOMAIN s[i] :
                  \E k \in DOMAIN FlattenSeq(s) : FlattenSeq(s)[k] = s[i][j]
           T == {n \in Nat : \A s \in Seq(Seq(S)) : Len(s) = n => Right(s)}
<1>1. 0 \in T
  <2>1. Right(<<>>)
    <3>1. <<>> \in Seq(S) /\ DOMAIN <<>> = {}
      OBVIOUS
    <3> QED  BY ONLY <3>1, FlattenEmpty, Zenon
  <2>2. \A s \in Seq(Seq(S)) : Len(s) = 0 => s = <<>>
    OBVIOUS
  <2> HIDE DEF Right
  <2> QED  BY <2>1, <2>2
<1>2. ASSUME NEW n \in Nat, n \in T PROVE n + 1 \in T
  <2> SUFFICES ASSUME NEW s \in Seq(Seq(S)), Len(s) = n + 1 PROVE Right(s)
    OBVIOUS
  <2>1. PICK t \in Seq(Seq(S)), x \in Seq(S) : Len(t) = n /\ s = Append(t, x)
    <3>1. EndsInMember(Seq(S), n, s)
      BY LastAppended
    <3> QED  BY <3>1 DEF EndsInMember
  <2>2. /\ DOMAIN s = 1..(n + 1) /\ DOMAIN t = 1..n
        /\ \A i \in 1..n : s[i] = t[i]
        /\ s[n + 1] = x
    BY <2>1, AppendMembers, LenProperties
  <2>3. Right(t)
    BY <1>2, <2>1
  <2> DEFINE f == FlattenSeq(t)
  <2>4. FlattenSeq(s) = f \o x
    BY <2>1, FlattenAppend
  <2>5. f \in Seq(S)
    BY <2>3
  <2>6. \A k \in DOMAIN f : \E i \in 1..n : \E j \in DOMAIN t[i] : f[k] = t[i][j]
    BY <2>2, <2>3
  <2>7. \A i \in 1..n : \A j \in DOMAIN t[i] : \E k \in DOMAIN f : f[k] = t[i][j]
    BY <2>2, <2>3
  <2> HIDE DEF f, T, Right
  <2>8. /\ f \o x \in Seq(S) /\ DOMAIN (f \o x) = 1..(Len(f) + Len(x))
        /\ \A k \in 1..Len(f) : (f \o x)[k] = f[k]
        /\ \A k \in 1..Len(x) : (f \o x)[Len(f) + k] = x[k]
        /\ DOMAIN f = 1..Len(f) /\ DOMAIN x = 1..Len(x)
        /\ Len(f) \in Nat /\ Len(x) \in Nat
    BY <2>5
  <2>9. ASSUME NEW k \in 1..(Len(f) + Len(x))
        PROVE  \E i \in 1..(n + 1) : \E j \in DOMAIN s[i] : (f \o x)[k] = s[i][j]
    <3>1. CASE k \in 1..Len(f)
      <4>1. PICK i \in 1..n : \E j \in DOMAIN t[i] : f[k] = t[i][j]
        BY <2>6, <2>8, <3>1
      <4>2. i \in 1..(n + 1) /\ s[i] = t[i] /\ (f \o x)[k] = f[k]
        BY <2>2, <2>8, <3>1
      <4> QED  BY <4>1, <4>2
    <3>2. CASE k \notin 1..Len(f)
      <4>1. k - Len(f) \in 1..Len(x) /\ Len(f) + (k - Len(f)) = k
        BY <2>8, <3>2
      <4>2. (f \o x)[k] = x[k - Len(f)] /\ n + 1 \in 1..(n + 1)
        BY <2>8, <4>1
      <4> QED  BY <2>2, <2>8, <4>1, <4>2
    <3> QED  BY <3>1, <3>2
  <2>10. ASSUME NEW i \in 1..(n + 1), NEW j \in DOMAIN s[i]
         PROVE  \E k \in 1..(Len(f) + Len(x)) : (f \o x)[k] = s[i][j]
    <3>1. CASE i \in 1..n
      <4>1. PICK k \in DOMAIN f : f[k] = s[i][j]
        BY <2>2, <2>7, <3>1
      <4>2. k \in 1..(Len(f) + Len(x)) /\ (f \o x)[k] = f[k]
        BY <2>8
      <4> QED  BY <4>1, <4>2
    <3>2. CASE i = n + 1
      <4>1. j \in 1..Len(x) /\ s[i][j] = x[j]
        BY <2>2, <2>8, <3>2
      <4>2. Len(f) + j \in 1..(Len(f) + Len(x)) /\ (f \o x)[Len(f) + j] = x[j]
        BY <2>8, <4>1
      <4> QED  BY <4>1, <4>2
    <3> QED  BY <3>1, <3>2
  <2>11. FlattenSeq(s) \in Seq(S) /\ DOMAIN FlattenSeq(s) = 1..(Len(f) + Len(x))
    BY ONLY <2>4, <2>8, Zenon
  <2>12. \A k \in DOMAIN FlattenSeq(s) :
           \E i \in DOMAIN s : \E j \in DOMAIN s[i] : FlattenSeq(s)[k] = s[i][j]
    <3> TAKE k \in DOMAIN FlattenSeq(s)
    <3>1. \E i \in 1..(n + 1) : \E j \in DOMAIN s[i] : (f \o x)[k] = s[i][j]
      BY <2>9, <2>11
    <3> QED  BY ONLY <3>1, <2>2, <2>4, Zenon
  <2>13. \A i \in DOMAIN s : \A j \in DOMAIN s[i] :
           \E k \in DOMAIN FlattenSeq(s) : FlattenSeq(s)[k] = s[i][j]
    <3> TAKE i \in DOMAIN s
    <3> TAKE j \in DOMAIN s[i]
    <3>1. \E k \in 1..(Len(f) + Len(x)) : (f \o x)[k] = s[i][j]
      BY <2>2, <2>10
    <3> QED  BY ONLY <3>1, <2>4, <2>11, Zenon
  <2> QED  BY ONLY <2>11, <2>12, <2>13, Zenon DEF Right
<1> HIDE DEF T, Right
<1>3. Nat \subseteq T
  BY <1>1, <1>2, NaturalSteps
<1>4. Right(seqs)
  BY <1>3 DEF T
<1> QED  BY <1>4 DEF Right

\* Flattening two lists of lists one after the other.
LEMMA FlattenConcat ==
  ASSUME NEW S, NEW a \in Seq(Seq(S)), NEW b \in Seq(Seq(S))
  PROVE  FlattenSeq(a \o b) = FlattenSeq(a) \o FlattenSeq(b)
<1> DEFINE T == {n \in Nat : \A c \in Seq(Seq(S)) :
                   Len(c) = n => FlattenSeq(a \o c) = FlattenSeq(a) \o FlattenSeq(c)}
<1>0. FlattenSeq(a) \in Seq(S)
  BY FlattenMembers
<1>1. 0 \in T
  <2>1. \A c \in Seq(Seq(S)) : Len(c) = 0 => c = <<>>
    OBVIOUS
  <2>2. FlattenSeq(a \o <<>>) = FlattenSeq(a) \o FlattenSeq(<<>>)
    BY <1>0, FlattenEmpty, ConcatEmptySeq
  <2> QED  BY <2>1, <2>2
<1>2. ASSUME NEW n \in Nat, n \in T PROVE n + 1 \in T
  <2> SUFFICES ASSUME NEW c \in Seq(Seq(S)), Len(c) = n + 1
               PROVE  FlattenSeq(a \o c) = FlattenSeq(a) \o FlattenSeq(c)
    OBVIOUS
  <2>1. PICK d \in Seq(Seq(S)), x \in Seq(S) : Len(d) = n /\ c = Append(d, x)
    <3>1. EndsInMember(Seq(S), n, c)
      BY LastAppended
    <3> QED  BY <3>1 DEF EndsInMember
  <2>2. FlattenSeq(a \o d) = FlattenSeq(a) \o FlattenSeq(d)
    BY <1>2, <2>1
  <2> HIDE DEF T
  <2>3. a \o c = Append(a \o d, x) /\ a \o d \in Seq(Seq(S))
    <3>1. /\ c = d \o <<x>> /\ <<x>> \in Seq(Seq(S)) /\ a \o d \in Seq(Seq(S))
          /\ Append(a \o d, x) = (a \o d) \o <<x>>
      BY <2>1, AppendIsConcat, ConcatProperties
    <3> QED  BY SMTT(30), <2>1, <3>1, ConcatAssociative
  <2>4. FlattenSeq(a \o c) = FlattenSeq(a \o d) \o x /\ FlattenSeq(c) = FlattenSeq(d) \o x
    BY <2>1, <2>3, FlattenAppend
  <2>5. FlattenSeq(d) \in Seq(S)
    BY <2>1, FlattenMembers
  <2>6. (FlattenSeq(a) \o FlattenSeq(d)) \o x = FlattenSeq(a) \o (FlattenSeq(d) \o x)
    BY SMTT(30), <1>0, <2>1, <2>5, ConcatAssociative
  <2> QED  BY <2>2, <2>4, <2>6
<1>3. Len(b) \in T
  <2> HIDE DEF T
  <2>1. Len(b) \in Nat
    OBVIOUS
  <2> QED  BY <1>1, <1>2, <2>1, NaturalSteps
<1> QED  BY <1>3

AllEmpty(seqs) == \A i \in DOMAIN seqs : seqs[i] = <<>>

EmptyBut(seqs, k) == k \in DOMAIN seqs /\ \A i \in DOMAIN seqs : i # k => seqs[i] = <<>>

\* Empty lists add nothing.
LEMMA FlattenSparse ==
  ASSUME NEW S, NEW seqs \in Seq(Seq(S))
  PROVE  /\ AllEmpty(seqs) => FlattenSeq(seqs) = <<>>
         /\ \A k : EmptyBut(seqs, k) => FlattenSeq(seqs) = seqs[k]
<1> DEFINE Right(s) == /\ AllEmpty(s) => FlattenSeq(s) = <<>>
                       /\ \A k : EmptyBut(s, k) => FlattenSeq(s) = s[k]
           T == {n \in Nat : \A s \in Seq(Seq(S)) : Len(s) = n => Right(s)}
<1>1. 0 \in T
  <2>1. \A s \in Seq(Seq(S)) : Len(s) = 0 => s = <<>>
    OBVIOUS
  <2>2. Right(<<>>)
    BY FlattenEmpty DEF EmptyBut
  <2> HIDE DEF Right
  <2> QED  BY <2>1, <2>2
<1>2. ASSUME NEW n \in Nat, n \in T PROVE n + 1 \in T
  <2> SUFFICES ASSUME NEW s \in Seq(Seq(S)), Len(s) = n + 1 PROVE Right(s)
    OBVIOUS
  <2>1. PICK t \in Seq(Seq(S)), x \in Seq(S) : Len(t) = n /\ s = Append(t, x)
    <3>1. EndsInMember(Seq(S), n, s)
      BY LastAppended
    <3> QED  BY <3>1 DEF EndsInMember
  <2>2. /\ DOMAIN s = 1..(n + 1) /\ DOMAIN t = 1..n
        /\ \A i \in 1..n : s[i] = t[i] /\ i \in 1..(n + 1) /\ i # n + 1
        /\ s[n + 1] = x /\ n + 1 \in 1..(n + 1)
        /\ \A i \in 1..(n + 1) : i \in 1..n \/ i = n + 1
    BY <2>1, AppendMembers, LenProperties
  <2>3. Right(t)
    BY <1>2, <2>1
  <2>4. FlattenSeq(s) = FlattenSeq(t) \o x /\ FlattenSeq(t) \in Seq(S)
    BY <2>1, FlattenAppend, FlattenMembers
  <2>5. <<>> \o x = x /\ FlattenSeq(t) \o <<>> = FlattenSeq(t)
    BY <2>1, <2>4, ConcatEmptySeq
  <2> HIDE DEF T
  <2>6. ASSUME AllEmpty(s) PROVE FlattenSeq(s) = <<>>
    BY <2>2, <2>3, <2>4, <2>5, <2>6 DEF AllEmpty
  <2>7. ASSUME NEW k, EmptyBut(s, k) PROVE FlattenSeq(s) = s[k]
    <3>1. CASE k = n + 1
      <4>1. AllEmpty(t)
        BY <2>2, <2>7, <3>1 DEF AllEmpty, EmptyBut
      <4> QED  BY <2>2, <2>3, <2>4, <2>5, <3>1, <4>1
    <3>2. CASE k # n + 1
      <4>1. EmptyBut(t, k) /\ x = <<>> /\ s[k] = t[k]
        BY <2>2, <2>7, <3>2 DEF EmptyBut
      <4> QED  BY <2>3, <2>4, <2>5, <4>1
    <3> QED  BY <3>1, <3>2
  <2> QED  BY <2>6, <2>7
<1>3. Len(seqs) \in T
  <2> HIDE DEF T
  <2>1. Len(seqs) \in Nat
    OBVIOUS
  <2> QED  BY <1>1, <1>2, <2>1, NaturalSteps
<1> QED  BY <1>3

Mapped(g, s) == [j \in DOMAIN s |-> g[s[j]]]

MappedLists(g, seqs) == [i \in DOMAIN seqs |-> Mapped(g, seqs[i])]

MapsMembers(S, R, g, s) ==
  /\ Mapped(g, s) \in Seq(R) /\ Len(Mapped(g, s)) = Len(s)
  /\ DOMAIN Mapped(g, s) = 1..Len(s)
  /\ \A j \in 1..Len(s) : Mapped(g, s)[j] = g[s[j]]

LEMMA MappedTyped ==
  ASSUME NEW S, NEW R, NEW g \in [S -> R], NEW s \in Seq(S)
  PROVE  MapsMembers(S, R, g, s)
BY DEF Mapped, MapsMembers

MapsParts(S, R, g, a, b) == Mapped(g, a \o b) = Mapped(g, a) \o Mapped(g, b)

\* What is changed member by member is changed in each part.
LEMMA MappedConcat ==
  ASSUME NEW S, NEW R, NEW g \in [S -> R], NEW a \in Seq(S), NEW b \in Seq(S)
  PROVE  MapsParts(S, R, g, a, b)
<1>1. Concatenates(S, a, b)
  BY ConcatMembers
<1>2. a \o b \in Seq(S)
  BY <1>1 DEF Concatenates
<1>3. /\ Mapped(g, a \o b) \in Seq(R) /\ Len(Mapped(g, a \o b)) = Len(a) + Len(b)
      /\ \A k \in 1..(Len(a) + Len(b)) : Mapped(g, a \o b)[k] = g[(a \o b)[k]]
  <2>1. MapsMembers(S, R, g, a \o b)
    BY <1>2, MappedTyped
  <2> QED  BY <1>1, <2>1 DEF MapsMembers, Concatenates
<1>4. /\ Mapped(g, a) \in Seq(R) /\ Mapped(g, b) \in Seq(R)
      /\ Len(Mapped(g, a)) = Len(a) /\ Len(Mapped(g, b)) = Len(b)
      /\ \A k \in 1..Len(a) : Mapped(g, a)[k] = g[a[k]]
      /\ \A k \in 1..Len(b) : Mapped(g, b)[k] = g[b[k]]
  <2>1. MapsMembers(S, R, g, a) /\ MapsMembers(S, R, g, b)
    BY MappedTyped
  <2> QED  BY <2>1 DEF MapsMembers
<1>5. Concatenates(R, Mapped(g, a), Mapped(g, b))
  BY ONLY <1>4, ConcatMembers, SMT
<1>6. ASSUME NEW k \in 1..(Len(a) + Len(b))
      PROVE  Mapped(g, a \o b)[k] = (Mapped(g, a) \o Mapped(g, b))[k]
  <2>1. CASE k \in 1..Len(a)
    BY <1>1, <1>3, <1>4, <1>5, <2>1 DEF Concatenates
  <2>2. CASE k \notin 1..Len(a)
    <3>1. k - Len(a) \in 1..Len(b) /\ Len(a) + (k - Len(a)) = k
      BY <1>1, <2>2 DEF Concatenates
    <3> DEFINE l == k - Len(a)
    <3> HIDE DEF l
    <3>2. l \in 1..Len(b) /\ Len(a) + l = k
      BY <3>1 DEF l
    <3> QED  BY <1>1, <1>3, <1>4, <1>5, <3>2 DEF Concatenates
  <2> QED  BY <2>1, <2>2
<1> QED  BY <1>3, <1>4, <1>5, <1>6, SeqEqual DEF Concatenates, MapsParts

\* Flattening commutes with a change of every member.
LEMMA FlattenMap ==
  ASSUME NEW S, NEW R, NEW g \in [S -> R], NEW seqs \in Seq(Seq(S))
  PROVE  FlattenSeq(MappedLists(g, seqs)) = Mapped(g, FlattenSeq(seqs))
<1> DEFINE Image(s)  == [j \in DOMAIN s |-> g[s[j]]]
           Images(s) == [i \in DOMAIN s |-> Image(s[i])]
           T == {n \in Nat : \A s \in Seq(Seq(S)) :
                               Len(s) = n => FlattenSeq(Images(s)) = Image(FlattenSeq(s))}
<1>1. \A s \in Seq(S) : /\ Image(s) \in Seq(R) /\ Len(Image(s)) = Len(s)
                        /\ \A j \in 1..Len(s) : Image(s)[j] = g[s[j]]
  OBVIOUS
<1>2. \A s \in Seq(Seq(S)) : /\ Images(s) \in Seq(Seq(R)) /\ Len(Images(s)) = Len(s)
                             /\ \A j \in 1..Len(s) : Images(s)[j] = Image(s[j])
  <2> SUFFICES ASSUME NEW s \in Seq(Seq(S))
               PROVE  /\ Images(s) \in Seq(Seq(R)) /\ Len(Images(s)) = Len(s)
                      /\ \A j \in 1..Len(s) : Images(s)[j] = Image(s[j])
    OBVIOUS
  <2>1. DOMAIN s = 1..Len(s) /\ Len(s) \in Nat /\ \A j \in 1..Len(s) : s[j] \in Seq(S)
    OBVIOUS
  <2> HIDE DEF Image
  <2>2. \A j \in 1..Len(s) : Image(s[j]) \in Seq(R)
    BY <1>1, <2>1
  <2> QED  BY <2>1, <2>2
<1>3. \A a, b \in Seq(S) : Image(a \o b) = Image(a) \o Image(b)
  <2> SUFFICES ASSUME NEW a \in Seq(S), NEW b \in Seq(S)
               PROVE  Image(a \o b) = Image(a) \o Image(b)
    OBVIOUS
  <2>1. MapsParts(S, R, g, a, b)
    BY MappedConcat
  <2> QED  BY <2>1 DEF Mapped, MapsParts
<1> HIDE DEF Image, Images
<1>4. 0 \in T
  <2>1. \A s \in Seq(Seq(S)) : Len(s) = 0 => s = <<>>
    OBVIOUS
  <2>2. <<>> \in Seq(S) /\ <<>> \in Seq(Seq(S)) /\ Len(<<>>) = 0
    OBVIOUS
  <2>3. Image(<<>>) = <<>> /\ Images(<<>>) = <<>>
    <3>1. Image(<<>>) \in Seq(R) /\ Len(Image(<<>>)) = 0
      BY <1>1, <2>2
    <3>2. Images(<<>>) \in Seq(Seq(R)) /\ Len(Images(<<>>)) = 0
      BY <1>2, <2>2
    <3> QED  BY <3>1, <3>2, EmptySeq
  <2> QED  BY <2>1, <2>3, FlattenEmpty
<1>5. ASSUME NEW n \in Nat, n \in T PROVE n + 1 \in T
  <2> SUFFICES ASSUME NEW s \in Seq(Seq(S)), Len(s) = n + 1
               PROVE  FlattenSeq(Images(s)) = Image(FlattenSeq(s))
    OBVIOUS
  <2>1. PICK t \in Seq(Seq(S)), x \in Seq(S) : Len(t) = n /\ s = Append(t, x)
    <3>1. EndsInMember(Seq(S), n, s)
      BY LastAppended
    <3> QED  BY <3>1 DEF EndsInMember
  <2>2. Images(s) = Append(Images(t), Image(x))
    <3>1. /\ Len(s) = n + 1 /\ s[n + 1] = x /\ \A i \in 1..n : s[i] = t[i]
      BY <2>1, AppendMembers
    <3>2. /\ Images(s) \in Seq(Seq(R)) /\ Len(Images(s)) = n + 1
          /\ \A j \in 1..(n + 1) : Images(s)[j] = Image(s[j])
      BY <1>2, <3>1
    <3>3. /\ Images(t) \in Seq(Seq(R)) /\ Len(Images(t)) = n
          /\ \A j \in 1..n : Images(t)[j] = Image(t[j])
          /\ Image(x) \in Seq(R)
      BY <1>1, <1>2, <2>1
    <3>4. /\ Append(Images(t), Image(x)) \in Seq(Seq(R))
          /\ Len(Append(Images(t), Image(x))) = n + 1
          /\ \A j \in 1..n : Append(Images(t), Image(x))[j] = Images(t)[j]
          /\ Append(Images(t), Image(x))[n + 1] = Image(x)
      <4> DEFINE M == Seq(R)
      <4> HIDE DEF M
      <4>1. Images(t) \in Seq(M) /\ Image(x) \in M
        BY ONLY <3>3 DEF M
      <4>2. /\ Append(Images(t), Image(x)) \in Seq(M)
            /\ Len(Append(Images(t), Image(x))) = n + 1
            /\ \A j \in 1..n : Append(Images(t), Image(x))[j] = Images(t)[j]
            /\ Append(Images(t), Image(x))[n + 1] = Image(x)
        BY ONLY <3>3, <4>1, AppendMembers, SMT
      <4> QED  BY ONLY <4>2 DEF M
    <3>5. \A j \in 1..(n + 1) : j \in 1..n \/ j = n + 1
      OBVIOUS
    <3>6. \A j \in 1..(n + 1) : Images(s)[j] = Append(Images(t), Image(x))[j]
      BY <3>1, <3>2, <3>3, <3>4, <3>5
    <3> QED  BY <3>2, <3>4, <3>6, SeqEqual
  <2>3. FlattenSeq(Images(s)) = FlattenSeq(Images(t)) \o Image(x)
    BY <1>1, <1>2, <2>1, <2>2, FlattenAppend
  <2>4. FlattenSeq(s) = FlattenSeq(t) \o x /\ FlattenSeq(t) \in Seq(S)
    BY <2>1, FlattenAppend, FlattenMembers
  <2>5. FlattenSeq(Images(t)) = Image(FlattenSeq(t))
    BY <1>5, <2>1
  <2> QED  BY <1>3, <2>3, <2>4, <2>5
<1> HIDE DEF T
<1>6. Nat \subseteq T
  BY <1>4, <1>5, NaturalSteps
<1>7. Len(seqs) \in T
  BY <1>6
<1>8. FlattenSeq(Images(seqs)) = Image(FlattenSeq(seqs))
  BY <1>7 DEF T
<1> QED  BY <1>8 DEF Images, Image, MappedLists, Mapped

----------------------------------------------------------------------------
(* Members                                                                 *)

Distinct(s) == \A k, l \in DOMAIN s : s[k] = s[l] => k = l

Within(s, t) == \A k \in DOMAIN s : \E l \in DOMAIN t : s[k] = t[l]

\* Two sequences of as many distinct members, one within the other, have the
\* same members.
LEMMA SameMembers ==
  ASSUME NEW S, NEW s \in Seq(S), NEW t \in Seq(S), Len(s) = Len(t),
         Distinct(s), Distinct(t), Within(s, t)
  PROVE  Within(t, s)
<1> DEFINE n    == Len(s)
           held == {t[k] : k \in 1..n}
<1>1. n \in Nat /\ DOMAIN s = 1..n /\ DOMAIN t = 1..n
  OBVIOUS
<1> HIDE DEF n
<1>2. IsFiniteSet(1..n) /\ Cardinality(1..n) = n
  BY <1>1, FS_Interval
<1>3. t \in Bijection(1..n, held)
  BY <1>1 DEF Bijection, Injection, Surjection, IsInjective, Distinct
<1>4. IsFiniteSet(held) /\ Cardinality(held) = n
  BY <1>2, <1>3, FS_Bijection DEF ExistsBijection
<1>5. s \in Injection(1..n, held)
  <2>1. \A k \in 1..n : s[k] \in held
    BY <1>1 DEF Within
  <2> HIDE DEF held
  <2> QED  BY <1>1, <2>1 DEF Injection, IsInjective, Distinct
<1>6. s \in Surjection(1..n, held)
  BY <1>2, <1>4, <1>5, FS_Injection
<1>7. \A m \in held : \E k \in 1..n : s[k] = m
  BY <1>6 DEF Surjection
<1> QED  BY <1>1, <1>7 DEF Within

\* b[i] of the members of the lists come before those of list i.
Places(lists, b) ==
  /\ b \in [1..(Len(lists) + 1) -> Nat]
  /\ b[1] = 0 /\ b[Len(lists) + 1] = Len(FlattenSeq(lists))
  /\ \A i \in 1..Len(lists) :
       /\ b[i + 1] = b[i] + Len(lists[i]) /\ b[i + 1] <= Len(FlattenSeq(lists))
       /\ \A j \in 1..Len(lists[i]) : FlattenSeq(lists)[b[i] + j] = lists[i][j]

LEMMA FlattenPlaces ==
  ASSUME NEW S, NEW lists \in Seq(Seq(S))
  PROVE  \E b : Places(lists, b)
<1> DEFINE T == {n \in Nat : \A t \in Seq(Seq(S)) : Len(t) = n => \E b : Places(t, b)}
<1>1. 0 \in T
  <2>1. ASSUME NEW t \in Seq(Seq(S)), Len(t) = 0 PROVE \E b : Places(t, b)
    <3> DEFINE b == [i \in 1..1 |-> 0]
    <3>1. FlattenSeq(t) = <<>>
      BY <2>1, EmptySeq, FlattenEmpty
    <3>2. /\ b \in [1..(Len(t) + 1) -> Nat] /\ b[1] = 0 /\ b[Len(t) + 1] = 0
          /\ Len(FlattenSeq(t)) = 0 /\ 1..Len(t) = {}
      BY <2>1, <3>1
    <3> HIDE DEF b
    <3>3. Places(t, b)
      BY <3>2 DEF Places
    <3> QED  BY <3>3
  <2> QED  BY <2>1
<1>2. ASSUME NEW n \in Nat, n \in T PROVE n + 1 \in T
  <2> SUFFICES ASSUME NEW t \in Seq(Seq(S)), Len(t) = n + 1 PROVE \E b : Places(t, b)
    OBVIOUS
  <2>1. PICK u \in Seq(Seq(S)), x \in Seq(S) : Len(u) = n /\ t = Append(u, x)
    <3>1. EndsInMember(Seq(S), n, t)
      BY LastAppended
    <3> QED  BY <3>1 DEF EndsInMember
  <2>2. PICK c : Places(u, c)
    BY <1>2, <2>1
  <2> DEFINE all == FlattenSeq(t)
             old == FlattenSeq(u)
             m   == Len(old)
             b   == [i \in 1..(n + 2) |-> IF i = n + 2 THEN m + Len(x) ELSE c[i]]
  <2>3. all = old \o x /\ old \in Seq(S)
    BY <2>1, FlattenAppend, FlattenMembers
  <2>4. /\ c \in [1..(n + 1) -> Nat] /\ c[1] = 0 /\ c[n + 1] = m
        /\ \A i \in 1..n :
             /\ c[i + 1] = c[i] + Len(u[i]) /\ c[i + 1] <= m
             /\ \A j \in 1..Len(u[i]) : old[c[i] + j] = u[i][j]
    BY <2>1, <2>2 DEF Places
  <2>5. /\ \A i \in 1..n : t[i] = u[i] /\ u[i] \in Seq(S)
        /\ t[n + 1] = x
    BY <2>1
  <2> HIDE DEF all, old
  <2>6. /\ m \in Nat /\ Len(x) \in Nat /\ Len(all) = m + Len(x)
        /\ \A k \in 1..m : all[k] = old[k]
        /\ \A j \in 1..Len(x) : all[m + j] = x[j]
    <3>1. Concatenates(S, old, x)
      BY <2>1, <2>3, ConcatMembers
    <3> QED  BY <2>3, <3>1 DEF Concatenates
  <2> HIDE DEF m
  <2>7. /\ b \in [1..(n + 2) -> Nat] /\ b[n + 2] = m + Len(x)
        /\ \A i \in 1..(n + 1) : b[i] = c[i]
    BY <2>4, <2>6
  <2> HIDE DEF b
  <2>8. ASSUME NEW i \in 1..(n + 1)
        PROVE  /\ b[i + 1] = b[i] + Len(t[i]) /\ b[i + 1] <= Len(all)
               /\ \A j \in 1..Len(t[i]) : all[b[i] + j] = t[i][j]
    <3>1. CASE i = n + 1
      <4>1. b[i + 1] = m + Len(x) /\ b[i] = m /\ t[i] = x
        BY <2>4, <2>5, <2>7, <3>1
      <4> QED  BY SMTT(30), <2>6, <4>1
    <3>2. CASE i \in 1..n
      <4>1. /\ b[i + 1] = c[i + 1] /\ b[i] = c[i] /\ t[i] = u[i] /\ c[i] \in Nat
            /\ c[i + 1] = c[i] + Len(u[i]) /\ c[i + 1] <= m /\ Len(u[i]) \in Nat
            /\ \A j \in 1..Len(u[i]) : old[c[i] + j] = u[i][j]
        <5>1. i \in 1..(n + 1) /\ i + 1 \in 1..(n + 1) /\ Len(u[i]) \in Nat
          BY <2>5, <3>2
        <5> QED  BY <2>4, <2>5, <2>7, <3>2, <5>1
      <4> DEFINE at == c[i]
                 l  == Len(u[i])
      <4>2. at \in Nat /\ l \in Nat /\ m \in Nat /\ at + l <= m
        <5>1. c[i + 1] = at + l /\ c[i + 1] <= m
          BY <4>1
        <5> QED  BY <2>6, <4>1, <5>1
      <4>3. \A j \in 1..l : all[at + j] = old[at + j]
        <5> HIDE DEF at, l
        <5>1. \A j \in 1..l : at + j \in 1..m
          BY <4>2
        <5> QED  BY <2>6, <5>1
      <4>4. b[i + 1] <= Len(all)
        <5> HIDE DEF at, l
        <5>1. b[i + 1] <= m /\ b[i + 1] = at + l
          BY <4>1 DEF at, l
        <5> QED  BY <2>6, <4>2, <5>1
      <4> QED  BY <4>1, <4>3, <4>4
    <3> QED  BY <3>1, <3>2
  <2>9. Places(t, b)
    <3>1. /\ Len(t) = n + 1 /\ Len(t) + 1 = n + 2 /\ b[1] = 0 /\ b[Len(t) + 1] = Len(all)
      BY <2>4, <2>6, <2>7
    <3> QED  BY <2>7, <2>8, <3>1 DEF Places, all
  <2> QED  BY <2>9
<1> HIDE DEF T
<1>3. Len(lists) \in T
  <2>1. Len(lists) \in Nat
    OBVIOUS
  <2> QED  BY <1>1, <1>2, <2>1, NaturalSteps
<1> QED  BY <1>3 DEF T

\* In what even lists make up, the members have places that can be computed.
EvenlyPlaced(S, size, lists) ==
  /\ FlattenSeq(lists) \in Seq(S)
  /\ Len(FlattenSeq(lists)) = Len(lists) * size
  /\ \A i \in 1..Len(lists) : \A j \in 1..size :
       FlattenSeq(lists)[(i - 1) * size + j] = lists[i][j]

LEMMA FlattenEven ==
  ASSUME NEW S, NEW size \in Nat, NEW lists \in Seq(Seq(S)),
         \A i \in 1..Len(lists) : Len(lists[i]) = size
  PROVE  EvenlyPlaced(S, size, lists)
<1> DEFINE n == Len(lists)
<1>1. n \in Nat /\ FlattenSeq(lists) \in Seq(S)
  BY FlattenMembers
<1>2. PICK b : Places(lists, b)
  BY FlattenPlaces
<1>3. ASSUME NEW i \in 1..n
      PROVE  /\ b[i + 1] = b[i] + size
             /\ \A j \in 1..size : FlattenSeq(lists)[b[i] + j] = lists[i][j]
  BY <1>2 DEF Places
<1>4. b[1] = 0 /\ b[n + 1] = Len(FlattenSeq(lists))
  BY <1>2 DEF Places
<1> DEFINE Even == {m \in Nat : m <= n => b[m + 1] = m * size}
<1> HIDE DEF n
<1>5. 0 \in Even
  BY <1>4
<1>6. ASSUME NEW m \in Nat, m \in Even PROVE m + 1 \in Even
  <2>1. (m + 1) * size = m * size + size /\ m * size \in Nat
    OBVIOUS
  <2>2. CASE m + 1 <= n
    <3>1. m + 1 \in 1..n /\ m <= n
      BY <1>1, <2>2
    <3>2. b[(m + 1) + 1] = b[m + 1] + size
      BY <1>3, <3>1
    <3>3. b[m + 1] = m * size
      BY <1>6, <3>1
    <3> QED  BY <2>1, <3>2, <3>3
  <2>3. CASE ~ (m + 1 <= n)
    BY <2>3
  <2> QED  BY <2>2, <2>3
<1> HIDE DEF Even
<1>7. Nat \subseteq Even
  BY <1>5, <1>6, NaturalSteps
<1>8. \A m \in 0..n : b[m + 1] = m * size
  BY <1>1, <1>7 DEF Even
<1>9. Len(FlattenSeq(lists)) = n * size
  BY <1>1, <1>4, <1>8
<1>10. ASSUME NEW i \in 1..n, NEW j \in 1..size
       PROVE  FlattenSeq(lists)[(i - 1) * size + j] = lists[i][j]
  <2>1. i - 1 \in 0..n /\ (i - 1) + 1 = i
    BY <1>1
  <2>2. b[i] = (i - 1) * size
    BY <1>8, <2>1
  <2> QED  BY <1>3, <2>2
<1> QED  BY <1>1, <1>9, <1>10 DEF EvenlyPlaced, n

\* What never falls from one place to the next never falls.
LEMMA NeverFalls ==
  ASSUME NEW n \in Nat, NEW f \in [1..n -> Nat], \A i \in 1..(n - 1) : f[i] <= f[i + 1]
  PROVE  \A i, j \in 1..n : i <= j => f[i] <= f[j]
<1> DEFINE T == {d \in Nat : \A i, j \in 1..n : j = i + d => f[i] <= f[j]}
<1>1. 0 \in T
  OBVIOUS
<1>2. ASSUME NEW d \in Nat, d \in T PROVE d + 1 \in T
  <2> SUFFICES ASSUME NEW i \in 1..n, NEW j \in 1..n, j = i + (d + 1) PROVE f[i] <= f[j]
    OBVIOUS
  <2> DEFINE k == i + d
  <2>1. k \in 1..n /\ k \in 1..(n - 1) /\ j = k + 1
    OBVIOUS
  <2>2. f[i] <= f[k]
    BY <1>2, <2>1
  <2> HIDE DEF k
  <2>3. f[k] <= f[j]
    BY <2>1
  <2> QED  BY <2>1, <2>2, <2>3
<1> HIDE DEF T
<1>3. Nat \subseteq T
  BY <1>1, <1>2, NaturalSteps
<1> SUFFICES ASSUME NEW i \in 1..n, NEW j \in 1..n, i <= j PROVE f[i] <= f[j]
  OBVIOUS
<1>4. j - i \in T /\ j = i + (j - i)
  BY <1>3
<1> QED  BY <1>4 DEF T

----------------------------------------------------------------------------
(* Rearranged lists                                                        *)

Rearranges(f, s, t) ==
  f \in Bijection(DOMAIN s, DOMAIN t) /\ \A i \in DOMAIN s : s[i] = t[f[i]]

\* The same members, each as often.
Rearranged(s, t) == \E f : Rearranges(f, s, t)

LEMMA SameIsRearranged ==
  ASSUME NEW s
  PROVE  Rearranged(s, s)
<1> DEFINE f == [i \in DOMAIN s |-> i]
<1>1. f \in Bijection(DOMAIN s, DOMAIN s) /\ \A i \in DOMAIN s : s[i] = s[f[i]]
  BY DEF Bijection, Injection, Surjection, IsInjective
<1> HIDE DEF f
<1> QED  BY <1>1 DEF Rearranges, Rearranged

\* Every member of what lists make up is in one place of one list.
Cells(lists, b) ==
  /\ \A k \in 1..Len(FlattenSeq(lists)) :
       \E i \in 1..Len(lists) : \E j \in 1..Len(lists[i]) : k = b[i] + j
  /\ \A i, h \in 1..Len(lists) : \A j \in 1..Len(lists[i]), l \in 1..Len(lists[h]) :
       b[i] + j = b[h] + l => i = h /\ j = l

LEMMA PlacesAreCells ==
  ASSUME NEW S, NEW lists \in Seq(Seq(S)), NEW b, Places(lists, b)
  PROVE  Cells(lists, b)
<1> DEFINE n    == Len(lists)
           all  == Len(FlattenSeq(lists))
           size == [i \in 1..n |-> Len(lists[i])]
<1>1. n \in Nat /\ size \in [1..n -> Nat] /\ \A i \in 1..n : size[i] = Len(lists[i])
  <2>1. n \in Nat /\ \A i \in 1..n : Len(lists[i]) \in Nat
    OBVIOUS
  <2> QED  BY <2>1
<1> HIDE DEF size
<1>2. /\ b \in [1..(n + 1) -> Nat] /\ b[1] = 0 /\ b[n + 1] = all
      /\ \A i \in 1..n : b[i + 1] = b[i] + size[i]
  BY <1>1 DEF Places
<1> HIDE DEF n, all
<1>3. \A i, h \in 1..(n + 1) : i <= h => b[i] <= b[h]
  <2>1. \A i \in 1..n : b[i] \in Nat /\ b[i + 1] \in Nat /\ b[i] <= b[i + 1]
    <3> SUFFICES ASSUME NEW i \in 1..n
                 PROVE  b[i] \in Nat /\ b[i + 1] \in Nat /\ b[i] <= b[i + 1]
      OBVIOUS
    <3>1. i \in 1..(n + 1) /\ i + 1 \in 1..(n + 1) /\ size[i] \in Nat
      BY <1>1
    <3>2. b[i] \in Nat /\ b[i + 1] = b[i] + size[i]
      BY <1>2, <3>1
    <3> QED  BY <3>1, <3>2
  <2>2. n + 1 \in Nat /\ (n + 1) - 1 = n
    BY <1>1
  <2> QED  BY <1>2, <2>1, <2>2, NeverFalls
<1>4. ASSUME NEW i \in 1..n, NEW h \in 1..n, NEW j \in 1..size[i], NEW l \in 1..size[h],
             b[i] + j = b[h] + l
      PROVE  i = h /\ j = l
  <2>1. /\ b[i] \in Nat /\ b[h] \in Nat /\ size[i] \in Nat /\ size[h] \in Nat
        /\ b[i + 1] = b[i] + size[i] /\ b[h + 1] = b[h] + size[h]
    <3>1. i \in 1..(n + 1) /\ h \in 1..(n + 1)
      BY <1>1
    <3> QED  BY <1>1, <1>2, <3>1
  <2>2. ~ i < h
    <3> SUFFICES ASSUME i < h PROVE FALSE
      OBVIOUS
    <3>1. i + 1 \in 1..(n + 1) /\ h \in 1..(n + 1) /\ i + 1 <= h
      BY <1>1
    <3>2. b[i + 1] <= b[h]
      BY <1>3, <3>1
    <3> QED  BY SMTT(30), <1>4, <2>1, <3>2
  <2>3. ~ h < i
    <3> SUFFICES ASSUME h < i PROVE FALSE
      OBVIOUS
    <3>1. h + 1 \in 1..(n + 1) /\ i \in 1..(n + 1) /\ h + 1 <= i
      BY <1>1
    <3>2. b[h + 1] <= b[i]
      BY <1>3, <3>1
    <3> QED  BY SMTT(30), <1>4, <2>1, <3>2
  <2>4. i = h
    BY <1>1, <2>2, <2>3
  <2> QED  BY <1>4, <2>1, <2>4
<1> DEFINE T == {m \in Nat : m \in 1..(n + 1) =>
                   \A k \in 1..b[m] : \E i \in 1..n : \E j \in 1..size[i] : k = b[i] + j}
<1>5. 0 \in T
  OBVIOUS
<1>6. ASSUME NEW m \in Nat, m \in T PROVE m + 1 \in T
  <2> SUFFICES ASSUME m + 1 \in 1..(n + 1), NEW k \in 1..b[m + 1]
               PROVE  \E i \in 1..n : \E j \in 1..size[i] : k = b[i] + j
    OBVIOUS
  <2>1. CASE m = 0
    <3>1. b[m + 1] = 0
      BY <1>2, <2>1
    <3> QED  BY <3>1
  <2>2. CASE m # 0
    <3>1. m \in 1..n /\ m \in 1..(n + 1)
      BY <1>1, <2>2
    <3>2. b[m] \in Nat /\ size[m] \in Nat /\ b[m + 1] = b[m] + size[m]
      BY <1>1, <1>2, <3>1
    <3>3. CASE k \in 1..b[m]
      BY <1>6, <3>1, <3>3
    <3>4. CASE k \notin 1..b[m]
      <4> DEFINE j == k - b[m]
      <4>1. j \in 1..size[m] /\ k = b[m] + j
        BY <3>2, <3>4
      <4> HIDE DEF j
      <4> QED  BY <3>1, <4>1
    <3> QED  BY <3>3, <3>4
  <2> QED  BY <2>1, <2>2
<1> HIDE DEF T
<1>7. Nat \subseteq T
  BY <1>5, <1>6, NaturalSteps
<1>8. n + 1 \in T /\ n + 1 \in 1..(n + 1)
  BY <1>1, <1>7
<1>9. \A k \in 1..all : \E i \in 1..n : \E j \in 1..size[i] : k = b[i] + j
  BY <1>2, <1>8 DEF T
<1>10. \A k \in 1..all : \E i \in 1..n : \E j \in 1..Len(lists[i]) : k = b[i] + j
  BY <1>1, <1>9
<1>11. ASSUME NEW i \in 1..n, NEW h \in 1..n,
              NEW j \in 1..Len(lists[i]), NEW l \in 1..Len(lists[h]), b[i] + j = b[h] + l
       PROVE  i = h /\ j = l
  <2>1. j \in 1..size[i] /\ l \in 1..size[h]
    BY <1>1
  <2> QED  BY <1>4, <1>11, <2>1
<1> QED  BY <1>10, <1>11 DEF Cells, n, all

\* Lists that are rearranged and take each other's places make up rearranged
\* lists.
LEMMA FlattenRearranged ==
  ASSUME NEW S, NEW s \in Seq(Seq(S)), NEW t \in Seq(Seq(S)),
         NEW p \in Bijection(1..Len(s), 1..Len(t)),
         \A i \in 1..Len(s) : Rearranged(s[i], t[p[i]])
  PROVE  Rearranged(FlattenSeq(s), FlattenSeq(t))
<1> DEFINE n  == Len(s)
           m  == Len(t)
           fs == FlattenSeq(s)
           ft == FlattenSeq(t)
           q  == [i \in 1..n |-> CHOOSE f : Rearranges(f, s[i], t[p[i]])]
<1>1. PICK b : Places(s, b)
  BY FlattenPlaces
<1>2. PICK c : Places(t, c)
  BY FlattenPlaces
<1>3. Cells(s, b) /\ Cells(t, c)
  BY <1>1, <1>2, PlacesAreCells
<1>4. /\ fs \in Seq(S) /\ ft \in Seq(S) /\ DOMAIN fs = 1..Len(fs) /\ DOMAIN ft = 1..Len(ft)
      /\ n \in Nat /\ m \in Nat /\ Len(fs) \in Nat /\ Len(ft) \in Nat
  <2>1. fs \in Seq(S) /\ ft \in Seq(S)
    BY FlattenMembers
  <2> HIDE DEF fs, ft
  <2> QED  BY <2>1
<1>5. /\ \A i \in 1..n : Len(s[i]) \in Nat /\ DOMAIN s[i] = 1..Len(s[i])
      /\ \A i \in 1..m : Len(t[i]) \in Nat /\ DOMAIN t[i] = 1..Len(t[i])
  OBVIOUS
<1>6. /\ \A i \in 1..n : p[i] \in 1..m
      /\ \A i, h \in 1..n : p[i] = p[h] => i = h
      /\ \A h \in 1..m : \E i \in 1..n : p[i] = h
  BY DEF Bijection, Injection, Surjection, IsInjective
<1>7. ASSUME NEW i \in 1..n
      PROVE  /\ \A j \in 1..Len(s[i]) : q[i][j] \in 1..Len(t[p[i]]) /\ s[i][j] = t[p[i]][q[i][j]]
             /\ \A j, l \in 1..Len(s[i]) : q[i][j] = q[i][l] => j = l
             /\ \A l \in 1..Len(t[p[i]]) : \E j \in 1..Len(s[i]) : q[i][j] = l
  <2>1. Rearranges(q[i], s[i], t[p[i]])
    BY DEF Rearranged
  <2> HIDE DEF q
  <2>2. p[i] \in 1..m
    BY <1>6
  <2>3. q[i] \in Bijection(1..Len(s[i]), 1..Len(t[p[i]]))
    BY <1>5, <2>1, <2>2 DEF Rearranges
  <2>4. \A j \in 1..Len(s[i]) : s[i][j] = t[p[i]][q[i][j]]
    BY <1>5, <2>1 DEF Rearranges
  <2> QED  BY <2>3, <2>4 DEF Bijection, Injection, Surjection, IsInjective
<1>8. /\ \A i \in 1..n : \A j \in 1..Len(s[i]) : fs[b[i] + j] = s[i][j]
      /\ \A h \in 1..m : \A l \in 1..Len(t[h]) :
           ft[c[h] + l] = t[h][l] /\ c[h] + l \in 1..Len(ft)
  <2>1. \A i \in 1..n : \A j \in 1..Len(s[i]) : fs[b[i] + j] = s[i][j]
    BY <1>1 DEF Places
  <2>2. ASSUME NEW h \in 1..m, NEW l \in 1..Len(t[h])
        PROVE  ft[c[h] + l] = t[h][l] /\ c[h] + l \in 1..Len(ft)
    <3>1. /\ c[h] \in Nat /\ c[h + 1] = c[h] + Len(t[h]) /\ c[h + 1] <= Len(ft)
          /\ ft[c[h] + l] = t[h][l]
      <4>1. h \in 1..(m + 1)
        BY <1>4
      <4> QED  BY <1>2, <4>1 DEF Places
    <3>2. Len(t[h]) \in Nat
      BY <1>5
    <3> DEFINE at == c[h]
               d  == Len(t[h])
               e  == Len(ft)
    <3>3. at \in Nat /\ d \in Nat /\ e \in Nat /\ at + d <= e /\ l \in 1..d
      BY <1>4, <3>1, <3>2
    <3> HIDE DEF at, d, e
    <3>4. at + l \in 1..e
      BY <3>3
    <3> QED  BY <3>1, <3>4, Zenon DEF at, e
  <2> QED  BY <2>1, <2>2
<1>9. \A i \in 1..n : \A j \in 1..Len(s[i]) : b[i] + j \in 1..Len(fs)
  <2> SUFFICES ASSUME NEW i \in 1..n, NEW j \in 1..Len(s[i]) PROVE b[i] + j \in 1..Len(fs)
    OBVIOUS
  <2>1. b[i] \in Nat /\ b[i + 1] = b[i] + Len(s[i]) /\ b[i + 1] <= Len(fs)
    <3>1. i \in 1..(n + 1)
      BY <1>4
    <3> QED  BY <1>1, <3>1 DEF Places
  <2>2. Len(s[i]) \in Nat
    BY <1>5
  <2> DEFINE at == b[i]
             l  == Len(s[i])
             e  == Len(fs)
  <2>3. at \in Nat /\ l \in Nat /\ e \in Nat /\ at + l <= e /\ j \in 1..l
    BY <1>4, <2>1, <2>2
  <2> HIDE DEF at, l, e
  <2>4. at + j \in 1..e
    BY <2>3
  <2> QED  BY <2>4 DEF at, e
<1>10. /\ \A k \in 1..Len(fs) : \E i \in 1..n : \E j \in 1..Len(s[i]) : k = b[i] + j
       /\ \A i, h \in 1..n : \A j \in 1..Len(s[i]), l \in 1..Len(s[h]) :
            b[i] + j = b[h] + l => i = h /\ j = l
       /\ \A k \in 1..Len(ft) : \E i \in 1..m : \E j \in 1..Len(t[i]) : k = c[i] + j
       /\ \A i, h \in 1..m : \A j \in 1..Len(t[i]), l \in 1..Len(t[h]) :
            c[i] + j = c[h] + l => i = h /\ j = l
  BY <1>3 DEF Cells
<1> HIDE DEF n, m, fs, ft, q
<1> DEFINE L      == Len(fs)
           row(k) == CHOOSE i \in 1..n : \E j \in 1..Len(s[i]) : k = b[i] + j
           col(k) == CHOOSE j \in 1..Len(s[row(k)]) : k = b[row(k)] + j
           to(k)  == c[p[row(k)]] + q[row(k)][col(k)]
           f      == [k \in 1..L |-> to(k)]
<1>11. ASSUME NEW k \in 1..L
       PROVE  row(k) \in 1..n /\ col(k) \in 1..Len(s[row(k)]) /\ k = b[row(k)] + col(k)
  <2>1. row(k) \in 1..n /\ \E j \in 1..Len(s[row(k)]) : k = b[row(k)] + j
    BY <1>10
  <2> HIDE DEF row
  <2> QED  BY <2>1
<1> HIDE DEF row, col
<1>12. ASSUME NEW k \in 1..L
       PROVE  /\ p[row(k)] \in 1..m /\ q[row(k)][col(k)] \in 1..Len(t[p[row(k)]])
              /\ to(k) \in 1..Len(ft) /\ fs[k] = ft[to(k)]
  <2>1. p[row(k)] \in 1..m
    BY <1>6, <1>11
  <2>2. /\ q[row(k)][col(k)] \in 1..Len(t[p[row(k)]])
        /\ s[row(k)][col(k)] = t[p[row(k)]][q[row(k)][col(k)]]
    BY <1>7, <1>11
  <2>3. fs[k] = s[row(k)][col(k)]
    BY <1>8, <1>11
  <2> QED  BY <1>8, <2>1, <2>2, <2>3
<1>13. ASSUME NEW k \in 1..L, NEW r \in 1..L, to(k) = to(r)
       PROVE  k = r
  <2>1. /\ p[row(k)] \in 1..m /\ q[row(k)][col(k)] \in 1..Len(t[p[row(k)]])
        /\ p[row(r)] \in 1..m /\ q[row(r)][col(r)] \in 1..Len(t[p[row(r)]])
    BY <1>12
  <2> DEFINE i == row(k)
             h == row(r)
             j == col(k)
             l == col(r)
  <2>2. p[i] = p[h] /\ q[i][j] = q[h][l]
    <3> DEFINE x == p[i]
               y == p[h]
               u == q[i][j]
               v == q[h][l]
    <3>1. /\ x \in 1..m /\ y \in 1..m /\ u \in 1..Len(t[x]) /\ v \in 1..Len(t[y])
          /\ c[x] + u = c[y] + v
      BY <1>13, <2>1
    <3> HIDE DEF x, y, u, v
    <3>2. \A j1 \in 1..Len(t[x]), l1 \in 1..Len(t[y]) : c[x] + j1 = c[y] + l1 => x = y /\ j1 = l1
      BY <1>10, <3>1, Zenon
    <3>3. x = y /\ u = v
      BY <3>1, <3>2
    <3> QED  BY <3>3 DEF x, y, u, v
  <2>3. i = h
    BY <1>6, <1>11, <2>2
  <2>4. j = l
    <3>1. i \in 1..n /\ j \in 1..Len(s[i]) /\ l \in 1..Len(s[i]) /\ q[i][j] = q[i][l]
      BY <1>11, <2>2, <2>3
    <3> HIDE DEF i, j, l
    <3> QED  BY <1>7, <3>1
  <2>5. k = b[row(k)] + col(k) /\ r = b[row(r)] + col(r)
    BY <1>11
  <2> QED  BY <2>3, <2>4, <2>5
<1>14. ASSUME NEW k \in 1..Len(ft)
       PROVE  \E r \in 1..L : to(r) = k
  <2>0. PICK h \in 1..m : \E l \in 1..Len(t[h]) : k = c[h] + l
    BY <1>10
  <2>1. PICK l \in 1..Len(t[h]) : k = c[h] + l
    BY <2>0
  <2>2. PICK i \in 1..n : p[i] = h
    BY <1>6
  <2>3. PICK j \in 1..Len(s[i]) : q[i][j] = l
    <3>1. \A d \in 1..Len(t[p[i]]) : \E j \in 1..Len(s[i]) : q[i][j] = d
      BY <1>7, Zenon
    <3>2. l \in 1..Len(t[p[i]])
      BY <2>2, Zenon
    <3> QED  BY <3>1, <3>2, Zenon
  <2> DEFINE r == b[i] + j
  <2>4. r \in 1..L
    BY <1>9
  <2>5. row(r) \in 1..n /\ col(r) \in 1..Len(s[row(r)]) /\ r = b[row(r)] + col(r)
    BY <1>11, <2>4
  <2>6. row(r) = i /\ col(r) = j
    BY SMTT(30), <1>10, <2>5
  <2>7. to(r) = k
    BY <2>1, <2>2, <2>3, <2>6
  <2> QED  BY <2>4, <2>7
<1> HIDE DEF to
<1>15. f \in Bijection(1..L, 1..Len(ft))
  <2>1. f \in [1..L -> 1..Len(ft)] /\ \A k \in 1..L : f[k] = to(k)
    BY <1>12
  <2> HIDE DEF f
  <2>2. \A k, r \in 1..L : f[k] = f[r] => k = r
    BY <1>13, <2>1
  <2>3. \A k \in 1..Len(ft) : \E r \in 1..L : f[r] = k
    BY <1>14, <2>1
  <2> QED  BY <2>1, <2>2, <2>3 DEF Bijection, Injection, Surjection, IsInjective
<1>16. \A k \in 1..L : fs[k] = ft[f[k]]
  BY <1>12
<1> HIDE DEF f
<1>17. Rearranges(f, fs, ft)
  BY <1>4, <1>15, <1>16 DEF Rearranges
<1> QED  BY <1>17 DEF Rearranged, fs, ft

\* Rearranged lists are the same bag.
LEMMA RearrangedBags ==
  ASSUME NEW S, NEW s \in Seq(S), NEW t \in Seq(S), Rearranged(s, t)
  PROVE  ToBag(s) = ToBag(t)
<1> DEFINE At(r, x) == {i \in DOMAIN r : r[i] = x}
<1>1. PICK f : f \in Bijection(DOMAIN s, DOMAIN t) /\ \A i \in DOMAIN s : s[i] = t[f[i]]
  BY DEF Rearranged, Rearranges
<1>2. /\ \A i \in DOMAIN s : f[i] \in DOMAIN t
      /\ \A i, h \in DOMAIN s : f[i] = f[h] => i = h
      /\ \A h \in DOMAIN t : \E i \in DOMAIN s : f[i] = h
  BY <1>1 DEF Bijection, Injection, Surjection, IsInjective
<1>3. Range(s) = Range(t)
  BY <1>1, <1>2 DEF Range
<1>4. ASSUME NEW x PROVE Cardinality(At(s, x)) = Cardinality(At(t, x))
  <2> DEFINE g == [i \in At(s, x) |-> f[i]]
  <2>1. g \in Bijection(At(s, x), At(t, x))
    <3>1. g \in [At(s, x) -> At(t, x)]
      BY <1>1, <1>2
    <3>2. \A i, h \in At(s, x) : g[i] = g[h] => i = h
      BY <1>2
    <3>3. \A h \in At(t, x) : \E i \in At(s, x) : g[i] = h
      BY <1>1, <1>2
    <3> HIDE DEF g, At
    <3> QED  BY <3>1, <3>2, <3>3 DEF Bijection, Injection, Surjection, IsInjective
  <2>2. IsFiniteSet(At(s, x))
    <3>1. At(s, x) \subseteq 1..Len(s) /\ Len(s) \in Nat
      OBVIOUS
    <3> HIDE DEF At
    <3>2. IsFiniteSet(1..Len(s))
      BY <3>1, FS_Interval
    <3> QED  BY <3>1, <3>2, FS_Subset
  <2> HIDE DEF g, At
  <2>3. ExistsBijection(At(s, x), At(t, x))
    BY <2>1 DEF ExistsBijection
  <2> QED  BY <2>2, <2>3, FS_Bijection
<1>5. \A r : ToBag(r) = [x \in Range(r) |-> Cardinality(At(r, x))]
  BY DEF ToBag
<1> HIDE DEF At
<1>6. [x \in Range(s) |-> Cardinality(At(s, x))] = [x \in Range(t) |-> Cardinality(At(t, x))]
  BY <1>3, <1>4
<1> QED  BY <1>5, <1>6

LEMMA FlattenPair ==
  ASSUME NEW S, NEW a \in Seq(S), NEW b \in Seq(S)
  PROVE  <<a, b>> \in Seq(Seq(S)) /\ FlattenSeq(<<a, b>>) = a \o b
<1>1. <<a>> \in Seq(Seq(S)) /\ <<a, b>> = Append(<<a>>, b) /\ <<a, b>> \in Seq(Seq(S))
  OBVIOUS
<1>2. FlattenSeq(<<a, b>>) = FlattenSeq(<<a>>) \o b
  BY <1>1, FlattenAppend
<1>3. EmptyBut(<<a>>, 1) /\ <<a>>[1] = a
  BY DEF EmptyBut
<1>4. FlattenSeq(<<a>>) = a
  BY <1>1, <1>3, FlattenSparse
<1> QED  BY <1>1, <1>2, <1>4

LEMMA ConcatRearranged ==
  ASSUME NEW S, NEW a \in Seq(S), NEW b \in Seq(S), NEW c \in Seq(S), NEW d \in Seq(S),
         Rearranged(a, c), Rearranged(b, d)
  PROVE  Rearranged(a \o b, c \o d)
<1> DEFINE p == [i \in 1..2 |-> i]
           s == <<a, b>>
           t == <<c, d>>
<1>1. Len(s) = 2 /\ Len(t) = 2 /\ s[1] = a /\ s[2] = b /\ t[1] = c /\ t[2] = d
  OBVIOUS
<1>2. s \in Seq(Seq(S)) /\ t \in Seq(Seq(S)) /\ FlattenSeq(s) = a \o b /\ FlattenSeq(t) = c \o d
  BY FlattenPair
<1> HIDE DEF s, t
<1>3. p \in Bijection(1..2, 1..2) /\ p[1] = 1 /\ p[2] = 2
  BY DEF Bijection, Injection, Surjection, IsInjective
<1> HIDE DEF p
<1>4. \A i \in 1..Len(s) : Rearranged(s[i], t[p[i]])
  <2>1. \A i \in 1..2 : i = 1 \/ i = 2
    OBVIOUS
  <2> QED  BY <1>1, <1>3, <2>1
<1>5. Rearranged(FlattenSeq(s), FlattenSeq(t))
  BY <1>1, <1>2, <1>3, <1>4, FlattenRearranged
<1> QED  BY <1>2, <1>5

----------------------------------------------------------------------------
(* Lists of whatever members                                               *)

IsList(s) == \E S : s \in Seq(S)

\* A list of n lists.
ListsIn(n, lists) ==
  n \in Nat /\ lists = [i \in 1..n |-> lists[i]] /\ \A i \in 1..n : IsList(lists[i])

LEMMA WiderList ==
  ASSUME NEW S, NEW s \in Seq(S), NEW T, \A i \in DOMAIN s : s[i] \in T
  PROVE  s \in Seq(T)
OBVIOUS

LEMMA ListDomain ==
  ASSUME NEW s, IsList(s)
  PROVE  Len(s) \in Nat /\ DOMAIN s = 1..Len(s) /\ s = [i \in 1..Len(s) |-> s[i]]
BY DEF IsList

\* Its members are of one set.
LEMMA ListsOfOneSet ==
  ASSUME NEW n, NEW lists, ListsIn(n, lists)
  PROVE  \E S : lists \in Seq(Seq(S)) /\ Len(lists) = n
<1> DEFINE S == UNION {{lists[i][j] : j \in DOMAIN lists[i]} : i \in 1..n}
<1>1. ASSUME NEW i \in 1..n PROVE lists[i] \in Seq(S)
  <2>1. PICK R : lists[i] \in Seq(R)
    BY DEF ListsIn, IsList
  <2>2. \A j \in DOMAIN lists[i] : lists[i][j] \in S
    OBVIOUS
  <2> HIDE DEF S
  <2> QED  BY <2>1, <2>2, WiderList
<1> HIDE DEF S
<1>2. lists \in Seq(Seq(S)) /\ Len(lists) = n
  BY <1>1 DEF ListsIn
<1> QED  BY <1>2

LEMMA FlattenIsList ==
  ASSUME NEW n, NEW lists, ListsIn(n, lists)
  PROVE  IsList(FlattenSeq(lists))
<1>1. PICK S : lists \in Seq(Seq(S))
  BY ListsOfOneSet
<1> QED  BY <1>1, FlattenMembers DEF IsList

\* Two lists, of one set.
LEMMA BothTyped ==
  ASSUME NEW a, NEW b, IsList(a), IsList(b)
  PROVE  \E S : a \in Seq(S) /\ b \in Seq(S)
<1>1. PICK A : a \in Seq(A)
  BY DEF IsList
<1>2. PICK B : b \in Seq(B)
  BY DEF IsList
<1> DEFINE S == A \cup B
<1>3. a \in Seq(S) /\ b \in Seq(S)
  BY <1>1, <1>2
<1> HIDE DEF S
<1> QED  BY <1>3

LEMMA ConcatIsList ==
  ASSUME NEW a, NEW b, IsList(a), IsList(b)
  PROVE  IsList(a \o b)
<1>1. PICK S : a \in Seq(S) /\ b \in Seq(S)
  BY BothTyped
<1> QED  BY <1>1, ConcatMembers DEF IsList, Concatenates

LEMMA BoundIsList ==
  ASSUME NEW n \in Nat, NEW s, s = [i \in 1..n |-> s[i]]
  PROVE  IsList(s) /\ Len(s) = n
<1> DEFINE S == {s[i] : i \in 1..n}
<1>1. s \in Seq(S) /\ Len(s) = n
  <2>1. \A i \in 1..n : s[i] \in S
    OBVIOUS
  <2> HIDE DEF S
  <2> QED  BY <2>1
<1> HIDE DEF S
<1> QED  BY <1>1 DEF IsList

\* The facts above, of lists.
LEMMA ListsRearranged ==
  ASSUME NEW n, NEW s, NEW t, ListsIn(n, s), ListsIn(n, t), NEW p \in Bijection(1..n, 1..n),
         \A i \in 1..n : Rearranged(s[i], t[p[i]])
  PROVE  Rearranged(FlattenSeq(s), FlattenSeq(t))
<1>1. PICK A : s \in Seq(Seq(A)) /\ Len(s) = n
  BY ListsOfOneSet
<1>2. PICK B : t \in Seq(Seq(B)) /\ Len(t) = n
  BY ListsOfOneSet
<1> DEFINE S == A \cup B
<1>3. s \in Seq(Seq(S)) /\ t \in Seq(Seq(S))
  <2>1. Seq(A) \subseteq Seq(S) /\ Seq(B) \subseteq Seq(S)
    OBVIOUS
  <2> HIDE DEF S
  <2> QED  BY <1>1, <1>2, <2>1
<1> HIDE DEF S
<1> QED  BY <1>1, <1>2, <1>3, FlattenRearranged

LEMMA PartsRearranged ==
  ASSUME NEW a, NEW b, NEW c, NEW d, IsList(a), IsList(b), IsList(c), IsList(d),
         Rearranged(a, c), Rearranged(b, d)
  PROVE  Rearranged(a \o b, c \o d) /\ IsList(a \o b) /\ IsList(c \o d)
<1>1. PICK A : a \in Seq(A) /\ b \in Seq(A)
  BY BothTyped
<1>2. PICK B : c \in Seq(B) /\ d \in Seq(B)
  BY BothTyped
<1> DEFINE S == A \cup B
<1>3. a \in Seq(S) /\ b \in Seq(S) /\ c \in Seq(S) /\ d \in Seq(S)
  BY <1>1, <1>2
<1> HIDE DEF S
<1> QED  BY <1>3, ConcatRearranged, ConcatIsList

LEMMA BagsOfLists ==
  ASSUME NEW s, NEW t, IsList(s), IsList(t), Rearranged(s, t)
  PROVE  ToBag(s) = ToBag(t)
<1>1. PICK S : s \in Seq(S) /\ t \in Seq(S)
  BY BothTyped
<1> QED  BY <1>1, RearrangedBags

LEMMA ShortLists ==
  ASSUME NEW x
  PROVE  IsList(<<>>) /\ IsList(<<x>>)
<1>1. <<>> \in Seq({x}) /\ <<x>> \in Seq({x})
  OBVIOUS
<1> QED  BY <1>1 DEF IsList

\* A finite set's members, listed.
LEMMA SetToList ==
  ASSUME NEW S, IsFiniteSet(S)
  PROVE  IsList(SetToSeq(S))
<1> DEFINE n == Cardinality(S)
<1>1. n \in Nat /\ ExistsBijection(1..n, S)
  BY FS_CardinalityType
<1> HIDE DEF n
<1>2. \E f \in [1..n -> S] : IsInjective(f)
  BY <1>1 DEF ExistsBijection, Bijection, Injection
<1>3. SetToSeq(S) \in [1..n -> S]
  BY <1>2 DEF SetToSeq, n
<1>4. SetToSeq(S) \in Seq(S)
  BY <1>1, <1>3
<1> QED  BY <1>4 DEF IsList

\* What there is a list of for each member of a list.
LEMMA EachIsList ==
  ASSUME NEW s, IsList(s), NEW lists, lists = [i \in DOMAIN s |-> lists[i]],
         \A i \in DOMAIN s : IsList(lists[i])
  PROVE  ListsIn(Len(s), lists) /\ IsList(FlattenSeq(lists))
<1>1. Len(s) \in Nat /\ DOMAIN s = 1..Len(s)
  BY ListDomain
<1>2. ListsIn(Len(s), lists)
  BY <1>1 DEF ListsIn
<1> QED  BY <1>2, FlattenIsList

LEMMA NoneFlattened ==
  ASSUME NEW s, IsList(s)
  PROVE  /\ FlattenSeq([i \in DOMAIN s |-> <<>>]) = <<>>
         /\ <<>> \o s = s /\ s \o <<>> = s
<1> DEFINE all == [i \in DOMAIN s |-> <<>>]
<1>1. PICK S : s \in Seq(S)
  BY DEF IsList
<1>2. all = [i \in DOMAIN s |-> all[i]] /\ \A i \in DOMAIN s : all[i] = <<>>
  OBVIOUS
<1>3. <<>> \in Seq({})
  OBVIOUS
<1> HIDE DEF all
<1>4. ListOf(Seq({}), s, all)
  BY <1>1, <1>2, <1>3, ListTyped
<1>5. FlattenSeq(all) = <<>>
  BY <1>2, <1>4, FlattenSparse DEF AllEmpty, ListOf
<1>6. <<>> \o s = s /\ s \o <<>> = s
  BY <1>1
<1> QED  BY <1>5, <1>6 DEF all

----------------------------------------------------------------------------
(* One and three lists of others                                           *)

\* all is x, then the lists one behind the other.
Spread(all, x, b, c, d) ==
  /\ Len(b) \in Nat /\ Len(c) \in Nat /\ Len(d) \in Nat
  /\ DOMAIN b = 1..Len(b) /\ DOMAIN c = 1..Len(c) /\ DOMAIN d = 1..Len(d)
  /\ all = [i \in 1..(1 + Len(b) + Len(c) + Len(d)) |-> all[i]]
  /\ all[1] = x
  /\ \A i \in 1..Len(b) : all[1 + i] = b[i]
  /\ \A i \in 1..Len(c) : all[1 + Len(b) + i] = c[i]
  /\ \A i \in 1..Len(d) : all[1 + Len(b) + Len(c) + i] = d[i]

LEMMA ConcatSpreads ==
  ASSUME NEW x, NEW b, NEW c, NEW d, IsList(b), IsList(c), IsList(d)
  PROVE  Spread(<<x>> \o b \o c \o d, x, b, c, d)
<1>1. PICK B : b \in Seq(B)
  BY DEF IsList
<1>2. PICK C : c \in Seq(C) /\ d \in Seq(C)
  BY BothTyped
<1> DEFINE S == B \cup C \cup {x}
           one == <<x>>
<1>3. b \in Seq(S) /\ c \in Seq(S) /\ d \in Seq(S) /\ one \in Seq(S)
  BY <1>1, <1>2
<1>4. Len(one) = 1 /\ one[1] = x
  OBVIOUS
<1> HIDE DEF S, one
<1> DEFINE two   == one \o b
           three == two \o c
           four  == three \o d
           k == Len(b)
           l == Len(c)
           m == Len(d)
<1>5. Concatenates(S, one, b)
  BY <1>3, ConcatMembers
<1>6. Concatenates(S, two, c)
  BY <1>3, <1>5, ConcatMembers DEF Concatenates
<1>7. Concatenates(S, three, d)
  BY <1>3, <1>6, ConcatMembers DEF Concatenates
<1>8. /\ k \in Nat /\ l \in Nat /\ m \in Nat
      /\ DOMAIN b = 1..k /\ DOMAIN c = 1..l /\ DOMAIN d = 1..m
      /\ Len(two) = 1 + k /\ two[1] = x /\ \A i \in 1..k : two[1 + i] = b[i]
  BY <1>4, <1>5, <1>6, <1>7 DEF Concatenates
<1> HIDE DEF k, l, m
<1>9. /\ Len(three) = 1 + k + l /\ \A i \in 1..(1 + k) : three[i] = two[i]
      /\ \A i \in 1..l : three[1 + k + i] = c[i]
  BY <1>6, <1>8 DEF Concatenates, l
<1>10. /\ Len(four) = 1 + k + l + m /\ \A i \in 1..(1 + k + l) : four[i] = three[i]
       /\ \A i \in 1..m : four[1 + k + l + i] = d[i]
       /\ DOMAIN four = 1..(1 + k + l + m)
       /\ four \in Seq(S)
  BY <1>7, <1>8, <1>9 DEF Concatenates, m
<1> HIDE DEF two, three, four
<1>11. four[1] = x
  BY <1>8, <1>9, <1>10
<1>12. ASSUME NEW i \in 1..k PROVE four[1 + i] = b[i]
  <2>1. 1 + i \in 1..(1 + k) /\ 1 + i \in 1..(1 + k + l)
    BY <1>8
  <2> QED  BY <1>8, <1>9, <1>10, <2>1
<1>13. ASSUME NEW i \in 1..l PROVE four[1 + k + i] = c[i]
  <2>1. 1 + k + i \in 1..(1 + k + l)
    BY <1>8
  <2> QED  BY <1>9, <1>10, <2>1
<1>14. four = [i \in 1..(1 + k + l + m) |-> four[i]]
  BY <1>10
<1>15. Spread(four, x, b, c, d)
  BY <1>8, <1>10, <1>11, <1>12, <1>13, <1>14 DEF Spread, k, l, m
<1> QED  BY <1>15 DEF four, three, two, one

LEMMA SpreadsAlike ==
  ASSUME NEW s, NEW t, NEW x, NEW b, NEW c, NEW d, Spread(s, x, b, c, d), Spread(t, x, b, c, d)
  PROVE  s = t
<1> DEFINE k == Len(b)
           l == Len(c)
           m == Len(d)
<1>1. /\ k \in Nat /\ l \in Nat /\ m \in Nat
      /\ s = [i \in 1..(1 + k + l + m) |-> s[i]] /\ t = [i \in 1..(1 + k + l + m) |-> t[i]]
      /\ s[1] = t[1]
      /\ \A i \in 1..k : s[1 + i] = t[1 + i]
      /\ \A i \in 1..l : s[1 + k + i] = t[1 + k + i]
      /\ \A i \in 1..m : s[1 + k + l + i] = t[1 + k + l + i]
  BY DEF Spread
<1> HIDE DEF k, l, m
<1>2. ASSUME NEW i \in 1..(1 + k + l + m) PROVE s[i] = t[i]
  <2>1. \/ i = 1
        \/ \E j \in 1..k : i = 1 + j
        \/ \E j \in 1..l : i = 1 + k + j
        \/ \E j \in 1..m : i = 1 + k + l + j
    <3> DEFINE u == i - 1
               v == i - 1 - k
               w == i - 1 - k - l
    <3>1. /\ i \in Int /\ k \in Int /\ l \in Int /\ m \in Int
          /\ 1 <= i /\ i <= 1 + k + l + m
      BY <1>1
    <3>2. /\ u \in Int /\ v \in Int /\ w \in Int
          /\ i = 1 + u /\ i = 1 + k + v /\ i = 1 + k + l + w
      BY <3>1
    <3>3. i = 1 \/ (1 <= u /\ u <= k) \/ (1 <= v /\ v <= l) \/ (1 <= w /\ w <= m)
      BY <3>1
    <3> HIDE DEF u, v, w
    <3> QED  BY <3>1, <3>2, <3>3
  <2>2. CASE i = 1
    BY <1>1, <2>2
  <2>3. CASE \E j \in 1..k : i = 1 + j
    BY <1>1, <2>3
  <2>4. CASE \E j \in 1..l : i = 1 + k + j
    BY <1>1, <2>4
  <2>5. CASE \E j \in 1..m : i = 1 + k + l + j
    BY <1>1, <2>5
  <2> QED  BY <2>1, <2>2, <2>3, <2>4, <2>5
<1> QED  BY <1>1, <1>2

LEMMA SpreadFlattened ==
  ASSUME NEW all, NEW x, IsList(x), NEW b, ListsIn(Len(b), b), NEW c, ListsIn(Len(c), c),
         NEW d, ListsIn(Len(d), d), Spread(all, x, b, c, d)
  PROVE  FlattenSeq(all) = x \o FlattenSeq(b) \o FlattenSeq(c) \o FlattenSeq(d)
<1>1. PICK X : x \in Seq(X)
  BY DEF IsList
<1>2. PICK B : b \in Seq(Seq(B))
  BY ListsOfOneSet
<1>3. PICK C : c \in Seq(Seq(C))
  BY ListsOfOneSet
<1>4. PICK D : d \in Seq(Seq(D))
  BY ListsOfOneSet
<1> DEFINE S == X \cup B \cup C \cup D
           one == <<x>>
<1>5. /\ Seq(X) \subseteq Seq(S) /\ Seq(B) \subseteq Seq(S)
      /\ Seq(C) \subseteq Seq(S) /\ Seq(D) \subseteq Seq(S)
  OBVIOUS
<1> HIDE DEF S
<1>6. b \in Seq(Seq(S)) /\ c \in Seq(Seq(S)) /\ d \in Seq(Seq(S)) /\ x \in Seq(S)
  BY <1>1, <1>2, <1>3, <1>4, <1>5
<1>7. one \in Seq(Seq(S)) /\ EmptyBut(one, 1) /\ one[1] = x
  BY <1>6 DEF EmptyBut
<1> HIDE DEF one
<1>8. FlattenSeq(one) = x
  BY <1>7, FlattenSparse
<1>9. one \o b \in Seq(Seq(S)) /\ FlattenSeq(one \o b) = x \o FlattenSeq(b)
  <2>1. Concatenates(Seq(S), one, b)
    BY <1>6, <1>7, ConcatMembers
  <2>2. FlattenSeq(one \o b) = FlattenSeq(one) \o FlattenSeq(b)
    BY <1>6, <1>7, FlattenConcat
  <2> QED  BY <1>8, <2>1, <2>2 DEF Concatenates
<1>10. one \o b \o c \in Seq(Seq(S))
       /\ FlattenSeq(one \o b \o c) = x \o FlattenSeq(b) \o FlattenSeq(c)
  <2>1. Concatenates(Seq(S), one \o b, c)
    BY <1>6, <1>9, ConcatMembers
  <2>2. FlattenSeq((one \o b) \o c) = FlattenSeq(one \o b) \o FlattenSeq(c)
    BY <1>6, <1>9, FlattenConcat
  <2> QED  BY <1>9, <2>1, <2>2 DEF Concatenates
<1>11. FlattenSeq(one \o b \o c \o d) = x \o FlattenSeq(b) \o FlattenSeq(c) \o FlattenSeq(d)
  BY <1>6, <1>10, FlattenConcat
<1>12. all = one \o b \o c \o d
  <2>1. IsList(b) /\ IsList(c) /\ IsList(d)
    BY <1>6 DEF IsList
  <2>2. Spread(one \o b \o c \o d, x, b, c, d)
    BY <2>1, ConcatSpreads DEF one
  <2> QED  BY <2>2, SpreadsAlike
<1> QED  BY <1>11, <1>12

\* Each member, as a list of its own.
LEMMA SinglesFlattened ==
  ASSUME NEW s, IsList(s)
  PROVE  FlattenSeq([i \in DOMAIN s |-> <<s[i]>>]) = s
<1> DEFINE Right(t) == FlattenSeq([i \in DOMAIN t |-> <<t[i]>>]) = t
<1>1. PICK S : s \in Seq(S)
  BY DEF IsList
<1> DEFINE T == {n \in Nat : \A t \in Seq(S) : Len(t) = n => Right(t)}
<1>2. 0 \in T
  <2> SUFFICES ASSUME NEW t \in Seq(S), Len(t) = 0 PROVE Right(t)
    OBVIOUS
  <2>1. t = <<>> /\ [i \in DOMAIN t |-> <<t[i]>>] = <<>>
    OBVIOUS
  <2> QED  BY <2>1, FlattenEmpty
<1>3. ASSUME NEW n \in Nat, n \in T PROVE n + 1 \in T
  <2> SUFFICES ASSUME NEW t \in Seq(S), Len(t) = n + 1 PROVE Right(t)
    OBVIOUS
  <2>1. PICK u \in Seq(S) : \E x \in S : Len(u) = n /\ t = Append(u, x)
    <3>1. EndsInMember(S, n, t)
      BY LastAppended
    <3> QED  BY <3>1, Zenon DEF EndsInMember
  <2>2. PICK x \in S : Len(u) = n /\ t = Append(u, x)
    BY <2>1
  <2> DEFINE all  == [i \in DOMAIN t |-> <<t[i]>>]
             most == [i \in DOMAIN u |-> <<u[i]>>]
             last == <<x>>
  <2>3. FlattenSeq(most) = u
    BY <1>3, <2>2
  <2>4. most \in Seq(Seq(S)) /\ Len(most) = n /\ last \in Seq(S)
    <3>1. \A i \in DOMAIN u : <<u[i]>> \in Seq(S)
      OBVIOUS
    <3>2. most = [i \in DOMAIN u |-> most[i]] /\ \A i \in DOMAIN u : most[i] \in Seq(S)
      BY <3>1
    <3> HIDE DEF most
    <3>3. ListOf(Seq(S), u, most)
      BY <3>2, ListTyped
    <3> QED  BY <2>2, <3>3 DEF ListOf
  <2>5. all = Append(most, last)
    <3>1. DOMAIN t = 1..(n + 1) /\ DOMAIN u = 1..n
      BY <2>2
    <3>2. \A i \in 1..n : t[i] = u[i]
      BY <2>2
    <3>3. t[n + 1] = x
      BY <2>2
    <3>4. Append(most, last) = [i \in 1..(n + 1) |-> IF i = n + 1 THEN last ELSE most[i]]
      BY <2>4
    <3>5. \A i \in 1..(n + 1) : all[i] = IF i = n + 1 THEN last ELSE most[i]
      BY <3>1, <3>2, <3>3
    <3> QED  BY <3>1, <3>4, <3>5
  <2>6. FlattenSeq(all) = FlattenSeq(most) \o last
    <3> HIDE DEF all, most, last
    <3> QED  BY <2>4, <2>5, FlattenAppend
  <2>7. u \o last = t
    BY <2>2
  <2> QED  BY <2>3, <2>6, <2>7
<1>4. Nat \subseteq T
  <2> HIDE DEF T
  <2> QED  BY <1>2, <1>3, NaturalSteps
<1>5. Len(s) \in T
  BY <1>1, <1>4
<1> QED  BY <1>1, <1>5

----------------------------------------------------------------------------
(* Sorting                                                                 *)

Earlier(n, ids, i) == {j \in 1..n : ids[j] < ids[i] \/ (ids[j] = ids[i] /\ j < i)}
Rank(n, ids, i)    == Cardinality(Earlier(n, ids, i))

\* p takes the places of a stable sort to those they are sorted from.
StableOrder(n, ids, p) ==
  /\ p \in Bijection(1..n, 1..n)
  /\ \A k, l \in 1..n :
       l < k <=> ids[p[l]] < ids[p[k]] \/ (ids[p[l]] = ids[p[k]] /\ p[l] < p[k])

LEMMA EarlierRanks ==
  ASSUME NEW n \in Nat, NEW ids \in [1..n -> Nat], NEW i \in 1..n
  PROVE  /\ Rank(n, ids, i) \in 0..n - 1
         /\ \A j \in Earlier(n, ids, i) : Rank(n, ids, j) < Rank(n, ids, i)
<1>1. /\ Earlier(n, ids, i) \subseteq (1..n) \ {i}
      /\ \A j \in 1..n : Earlier(n, ids, j) \subseteq 1..n
  BY DEF Earlier
<1>2. IsFiniteSet(1..n) /\ Cardinality(1..n) = n
  BY FS_Interval
<1>3. \A j \in 1..n : IsFiniteSet(Earlier(n, ids, j)) /\ Rank(n, ids, j) \in Nat
  BY <1>1, <1>2, FS_Subset, FS_CardinalityType DEF Rank
<1>4. Rank(n, ids, i) \in 0..n - 1
  <2>1. Earlier(n, ids, i) # 1..n
    BY <1>1
  <2>2. Cardinality(Earlier(n, ids, i)) <= n /\ Cardinality(Earlier(n, ids, i)) # n
    BY <1>1, <1>2, <1>3, <2>1, FS_Subset
  <2> QED  BY <1>3, <2>2 DEF Rank
<1>5. ASSUME NEW j \in Earlier(n, ids, i) PROVE Rank(n, ids, j) < Rank(n, ids, i)
  <2>1. j \in 1..n
    BY DEF Earlier
  <2>2. Earlier(n, ids, j) \subseteq Earlier(n, ids, i) /\ j \notin Earlier(n, ids, j)
    BY <2>1 DEF Earlier
  <2>3. /\ Cardinality(Earlier(n, ids, j)) <= Cardinality(Earlier(n, ids, i))
        /\ Cardinality(Earlier(n, ids, j)) # Cardinality(Earlier(n, ids, i))
    BY <1>3, <1>5, <2>2, FS_Subset
  <2> QED  BY <1>3, <2>1, <2>3 DEF Rank
<1> QED  BY <1>4, <1>5

LEMMA SortIsStable ==
  ASSUME NEW n \in Nat, NEW ids \in [1..n -> Nat]
  PROVE  \E p : /\ StableOrder(n, ids, p)
                /\ \A k \in 1..n : p[k] = CHOOSE i \in 1..n : Rank(n, ids, i) = k - 1
<1> DEFINE rank == [i \in 1..n |-> Rank(n, ids, i)]
           next == [i \in 1..n |-> rank[i] + 1]
           p    == [k \in 1..n |-> CHOOSE i \in 1..n : Rank(n, ids, i) = k - 1]
<1>1. \A i \in 1..n : rank[i] = Rank(n, ids, i)
  OBVIOUS
<1>2. \A i \in 1..n : /\ Rank(n, ids, i) \in 0..n - 1
                        /\ \A j \in Earlier(n, ids, i) : Rank(n, ids, j) < Rank(n, ids, i)
  BY EarlierRanks
<1> HIDE DEF rank
<1>3. /\ \A i \in 1..n : rank[i] \in 0..n - 1
      /\ \A i, j \in 1..n : j \in Earlier(n, ids, i) => rank[j] < rank[i]
  BY <1>1, <1>2
<1>4. \A i, j \in 1..n : i = j \/ i \in Earlier(n, ids, j) \/ j \in Earlier(n, ids, i)
  BY DEF Earlier
<1>5. ASSUME NEW i \in 1..n, NEW j \in 1..n, rank[i] = rank[j] PROVE i = j
  <2>1. ~ rank[i] < rank[j] /\ ~ rank[j] < rank[i]
    BY <1>3, <1>5
  <2> QED  BY <1>3, <1>4, <2>1
<1>6. /\ next \in [1..n -> 1..n]
      /\ \A i \in 1..n : next[i] = rank[i] + 1
  <2>1. \A i \in 1..n : rank[i] + 1 \in 1..n
    BY <1>3
  <2> QED  BY <2>1
<1> HIDE DEF next
<1>7. next \in Injection(1..n, 1..n)
  <2>1. ASSUME NEW i \in 1..n, NEW j \in 1..n, next[i] = next[j] PROVE i = j
    <3> DEFINE x == rank[i]
               y == rank[j]
    <3>1. x \in 0..n - 1 /\ y \in 0..n - 1 /\ x + 1 = y + 1
      BY <1>3, <1>6, <2>1
    <3> HIDE DEF x, y
    <3>2. x = y
      BY <3>1
    <3> QED  BY <1>5, <3>2 DEF x, y
  <2> QED  BY <1>6, <2>1 DEF Injection, IsInjective
<1>8. next \in Surjection(1..n, 1..n)
  <2>1. IsFiniteSet(1..n)
    BY FS_Interval
  <2> QED  BY <1>7, <2>1, FS_Injection
<1>9. ASSUME NEW k \in 1..n PROVE p[k] \in 1..n /\ rank[p[k]] = k - 1
  <2>1. PICK i \in 1..n : next[i] = k
    BY <1>8 DEF Surjection
  <2>2. rank[i] = k - 1
    <3> DEFINE x == rank[i]
    <3>1. x \in 0..n - 1 /\ k = x + 1
      BY <1>3, <1>6, <2>1
    <3> HIDE DEF x
    <3>2. x = k - 1
      BY <3>1
    <3> QED  BY <3>2 DEF x
  <2>3. Rank(n, ids, i) = k - 1
    BY <1>1, <2>2
  <2>4. p[k] \in 1..n /\ Rank(n, ids, p[k]) = k - 1
    BY <2>3
  <2> HIDE DEF p
  <2> QED  BY <1>1, <2>4
<1>10. \A k \in 1..n : p[k] = CHOOSE i \in 1..n : Rank(n, ids, i) = k - 1
  OBVIOUS
<1>11. p \in [1..n -> 1..n]
  BY <1>9
<1> HIDE DEF p
<1>12. \A k, l \in 1..n : p[k] = p[l] => k = l
  <2> SUFFICES ASSUME NEW k \in 1..n, NEW l \in 1..n, p[k] = p[l] PROVE k = l
    OBVIOUS
  <2>1. k - 1 = l - 1
    BY <1>9
  <2> QED  BY <2>1
<1>13. \A i \in 1..n : \E k \in 1..n : p[k] = i
  <2> SUFFICES ASSUME NEW i \in 1..n PROVE \E k \in 1..n : p[k] = i
    OBVIOUS
  <2> DEFINE k == next[i]
  <2>1. k \in 1..n /\ k = rank[i] + 1
    BY <1>6
  <2> HIDE DEF k
  <2>2. rank[p[k]] = k - 1 /\ p[k] \in 1..n
    BY <1>9, <2>1
  <2>3. rank[p[k]] = rank[i]
    BY <1>3, <2>1, <2>2
  <2>4. p[k] = i
    BY <1>5, <2>2, <2>3
  <2> QED  BY <2>1, <2>4
<1>14. p \in Bijection(1..n, 1..n)
  BY <1>11, <1>12, <1>13 DEF Bijection, Injection, Surjection, IsInjective
<1>15. ASSUME NEW k \in 1..n, NEW l \in 1..n PROVE l < k <=> p[l] \in Earlier(n, ids, p[k])
  <2> DEFINE i == p[k]
             j == p[l]
  <2>1. i \in 1..n /\ j \in 1..n /\ rank[i] = k - 1 /\ rank[j] = l - 1
    BY <1>9
  <2> HIDE DEF i, j
  <2>2. rank[j] < rank[i] <=> l < k
    BY <2>1
  <2>3. rank[j] < rank[i] <=> j \in Earlier(n, ids, i)
    <3>1. CASE j \in Earlier(n, ids, i)
      BY <1>3, <2>1, <3>1
    <3>2. CASE j \notin Earlier(n, ids, i)
      <4>1. i = j \/ rank[i] < rank[j]
        BY <1>3, <1>4, <2>1, <3>2
      <4> QED  BY <2>1, <3>2, <4>1
    <3> QED  BY <3>1, <3>2
  <2> QED  BY <2>2, <2>3 DEF i, j
<1>16. StableOrder(n, ids, p)
  <2>1. \A k \in 1..n : p[k] \in 1..n
    BY <1>9
  <2> QED  BY <1>14, <1>15, <2>1 DEF StableOrder, Earlier
<1> QED  BY <1>10, <1>16

=============================================================================
