-------------------------- MODULE WireFormat_proofs --------------------------
(***************************************************************************)
(* The reader and the walk frame a stream alike, whatever its bytes, and   *)
(* an OBU is read from its own bytes.  What is written is read back: a     *)
(* uleb128, a frame, every OBU whose payload is, and the stream of them,   *)
(* whole and cut.  A frame plan holds its stream exactly, packing keeps    *)
(* every sample, and what was planned, packed and framed is what a decoder *)
(* plays.                                                                  *)
(***************************************************************************)
EXTENDS WireFormat, SequenceLemmas

----------------------------------------------------------------------------
(* uleb128                                                                 *)

\* A uleb128 ends at the first byte without a continuation bit.
LEMMA FirstEnd ==
  ASSUME NEW bytes, NEW at, UlebEnds(bytes, at) # {}
  PROVE  /\ UlebLength(bytes, at) \in UlebEnds(bytes, at)
         /\ \A m \in UlebEnds(bytes, at) : UlebLength(bytes, at) <= m
         /\ UlebLength(bytes, at) \in 1 .. MaxLeb
<1>1. UlebEnds(bytes, at) \in SUBSET Nat /\ UlebEnds(bytes, at) \subseteq 1 .. MaxLeb
  BY WireAssumption DEF UlebEnds
<1>2. \E n \in UlebEnds(bytes, at) : \A m \in UlebEnds(bytes, at) : n <= m
  BY <1>1, LeastMember
<1> QED  BY <1>1, <1>2 DEF UlebLength

\* What is read lies inside the input and is a natural number.
LEMMA UlebInside ==
  ASSUME NEW bytes \in Seq(Byte), NEW at \in Nat
  PROVE  /\ ReadUleb(bytes, at) = [err |-> ReadUleb(bytes, at).err, val |-> ReadUleb(bytes, at).val,
                                   at |-> ReadUleb(bytes, at).at]
         /\ ReadUleb(bytes, at).at \in Nat
         /\ ReadUleb(bytes, at).err = Ok =>
              /\ ReadUleb(bytes, at).val \in Nat
              /\ ReadUleb(bytes, at).at > at
              /\ ReadUleb(bytes, at).at <= Len(bytes)
<1>1. CASE UlebEnds(bytes, at) = {}
  BY <1>1 DEF ReadUleb, NoUleb, Ok
<1>2. CASE UlebEnds(bytes, at) # {}
  <2> DEFINE n == UlebLength(bytes, at)
             v == UlebValue(SubSeq(bytes, at + 1, at + n))
  <2>1. n \in UlebEnds(bytes, at) /\ n \in 1 .. MaxLeb
    BY <1>2, FirstEnd
  <2>2. n \in Nat \ {0} /\ at + n <= Len(bytes)
    BY <2>1, WireAssumption DEF UlebEnds
  <2>3. ReadUleb(bytes, at) = UlebRead(v, at + n)
    BY <1>2 DEF ReadUleb, UlebOf
  <2> HIDE DEF n, v
  <2>4. UlebRead(v, at + n).err = Ok => v \in Nat
    BY WireAssumption DEF UlebRead, Ok
  <2> QED  BY <2>2, <2>3, <2>4 DEF UlebRead
<1> QED  BY <1>1, <1>2

\* own ends where whole does, and is its end.
Ending(whole, own, from) ==
  /\ Len(whole) = from + Len(own)
  /\ \A i \in 1 .. Len(own) : whole[from + i] = own[i]

\* A uleb128 does not depend on what lies before it.
LEMMA UlebInEnding ==
  ASSUME NEW whole \in Seq(Byte), NEW own \in Seq(Byte), NEW from \in Nat,
         Ending(whole, own, from), NEW at \in Nat
  PROVE  ReadUleb(whole, from + at) =
           [err |-> ReadUleb(own, at).err, val |-> ReadUleb(own, at).val,
            at |-> from + ReadUleb(own, at).at]
<1>1. UlebEnds(whole, from + at) = UlebEnds(own, at)
  <2>1. ASSUME NEW n \in 1 .. MaxLeb
        PROVE  (from + at + n <= Len(whole) /\ whole[from + at + n] < 128)
                 <=> (at + n <= Len(own) /\ own[at + n] < 128)
    <3>1. n \in Nat \ {0} /\ Len(own) \in Nat
      BY WireAssumption
    <3>2. at + n <= Len(own) => whole[from + (at + n)] = own[at + n]
      BY <3>1 DEF Ending
    <3>3. from + (at + n) = from + at + n
      BY <3>1
    <3> QED  BY <3>1, <3>2, <3>3 DEF Ending
  <2> QED  BY <2>1 DEF UlebEnds
<1>2. CASE UlebEnds(own, at) = {}
  <2>1. (from + at + MaxLeb <= Len(whole)) <=> (at + MaxLeb <= Len(own))
    BY WireAssumption DEF Ending
  <2> QED  BY <1>1, <1>2, <2>1 DEF ReadUleb, NoUleb
<1>3. CASE UlebEnds(own, at) # {}
  <2> DEFINE n == UlebLength(own, at)
  <2>1. n \in Nat \ {0} /\ at + n <= Len(own)
    BY <1>3, FirstEnd, WireAssumption DEF UlebEnds
  <2>2. UlebLength(whole, from + at) = n
    BY <1>1 DEF UlebLength
  <2> HIDE DEF n
  <2>3. SubSeq(whole, from + at + 1, from + at + n) = SubSeq(own, at + 1, at + n)
    <3>1. ASSUME NEW i \in 1 .. n
          PROVE  whole[from + at + i] = own[at + i]
      <4>1. at + i \in 1 .. Len(own) /\ from + (at + i) = from + at + i
        BY <2>1
      <4> QED  BY <4>1 DEF Ending
    <3> QED  BY <2>1, <3>1 DEF Ending
  <2>4. ReadUleb(own, at) = UlebRead(UlebValue(SubSeq(own, at + 1, at + n)), at + n)
    BY <1>3 DEF ReadUleb, UlebOf, n
  <2>5. ReadUleb(whole, from + at)
          = UlebRead(UlebValue(SubSeq(own, at + 1, at + n)), from + at + n)
    BY <1>1, <1>3, <2>2, <2>3 DEF ReadUleb, UlebOf
  <2> QED  BY <2>1, <2>4, <2>5 DEF UlebRead
<1> QED  BY <1>2, <1>3

\* Nor on what lies behind its last byte.
LEMMA UlebInBeginning ==
  ASSUME NEW whole \in Seq(Byte), NEW at \in Nat, NEW end \in 0 .. Len(whole),
         ReadUleb(whole, at).err = Ok, ReadUleb(whole, at).at <= end
  PROVE  ReadUleb(SubSeq(whole, 1, end), at) = ReadUleb(whole, at)
<1> DEFINE own == SubSeq(whole, 1, end)
           n   == UlebLength(whole, at)
<1>1. own \in Seq(Byte) /\ Len(own) = end /\ \A i \in 1 .. end : own[i] = whole[i]
  OBVIOUS
<1> HIDE DEF own
<1>2. UlebEnds(whole, at) # {}
  BY DEF ReadUleb, NoUleb, Ok
<1>3. n \in Nat \ {0} /\ n \in UlebEnds(whole, at)
  BY <1>2, FirstEnd, WireAssumption
<1>4. \A m \in UlebEnds(whole, at) : n <= m
  BY <1>2, FirstEnd
<1> HIDE DEF n
<1>5. ReadUleb(whole, at) = UlebRead(UlebValue(SubSeq(whole, at + 1, at + n)), at + n)
  BY <1>2 DEF ReadUleb, UlebOf, n
<1>6. at + n <= end
  BY <1>5 DEF UlebRead
<1>7. n \in UlebEnds(own, at) /\ UlebEnds(own, at) \subseteq UlebEnds(whole, at)
  <2>1. ASSUME NEW m \in 1 .. MaxLeb, at + m <= end
        PROVE  own[at + m] = whole[at + m]
    BY <1>1, <2>1, WireAssumption
  <2> QED  BY <1>1, <1>3, <1>6, <2>1, WireAssumption DEF UlebEnds
<1>8. UlebLength(own, at) = n
  <2>1. UlebLength(own, at) \in UlebEnds(own, at) /\ UlebLength(own, at) <= n
    BY <1>7, FirstEnd
  <2>2. n <= UlebLength(own, at)
    BY <1>4, <1>7, <2>1
  <2>3. UlebLength(own, at) \in Nat
    BY <2>1, WireAssumption DEF UlebEnds
  <2> QED  BY <1>3, <2>1, <2>2, <2>3
<1>9. SubSeq(own, at + 1, at + n) = SubSeq(whole, at + 1, at + n)
  BY <1>1, <1>3, <1>6
<1> QED  BY <1>5, <1>7, <1>8, <1>9 DEF ReadUleb, UlebOf, own

----------------------------------------------------------------------------
(* The fields after obu_size                                               *)

\* A cursor of the header reader, with numbers in it until a read fails.
Sound(window, c) ==
  /\ c = [err |-> c.err, at |-> c.at, vals |-> c.vals]
  /\ c.at \in Nat
  /\ c.err = Ok => c.at <= Len(window) /\ c.vals \in Seq(Nat) 

\* The same cursor, from bytes further on.
Shifted(c, from) == [err |-> c.err, at |-> from + c.at, vals |-> c.vals]

LEMMA NextUlebSound ==
  ASSUME NEW window \in Seq(Byte), NEW c, Sound(window, c)
  PROVE  /\ Sound(window, NextUleb(window, c))
         /\ NextUleb(window, c).err = Ok =>
              /\ NextUleb(window, c).at >= c.at
              /\ Len(NextUleb(window, c).vals) > 0
<1> DEFINE leb == ReadUleb(window, c.at)
<1>1. CASE c.err # Ok
  BY <1>1 DEF NextUleb, Sound
<1>2. CASE c.err = Ok
  <2>1. NextUleb(window, c) = [err |-> leb.err, at |-> leb.at, vals |-> Append(c.vals, leb.val)]
    BY <1>2 DEF NextUleb
  <2>2. c.at \in Nat /\ c.vals \in Seq(Nat)
    BY <1>2 DEF Sound
  <2>3. /\ leb.at \in Nat
        /\ leb.err = Ok => leb.val \in Nat /\ leb.at > c.at /\ leb.at <= Len(window)
    BY <2>2, UlebInside
  <2> HIDE DEF leb
  <2> QED  BY <2>1, <2>2, <2>3 DEF Sound
<1> QED  BY <1>1, <1>2

LEMMA NextUlebShifted ==
  ASSUME NEW whole \in Seq(Byte), NEW own \in Seq(Byte), NEW from \in Nat,
         Ending(whole, own, from), NEW c, Sound(own, c)
  PROVE  NextUleb(whole, Shifted(c, from)) = Shifted(NextUleb(own, c), from)
<1>1. CASE c.err # Ok
  BY <1>1 DEF NextUleb, Shifted
<1>2. CASE c.err = Ok
  <2> DEFINE leb == ReadUleb(own, c.at)
  <2>1. c.at \in Nat
    BY DEF Sound
  <2>2. ReadUleb(whole, from + c.at) = [err |-> leb.err, val |-> leb.val, at |-> from + leb.at]
    BY <2>1, UlebInEnding
  <2> HIDE DEF leb
  <2>3. NextUleb(own, c) = [err |-> leb.err, at |-> leb.at, vals |-> Append(c.vals, leb.val)]
    BY <1>2 DEF NextUleb, leb
  <2>4. NextUleb(whole, Shifted(c, from))
          = [err |-> leb.err, at |-> from + leb.at, vals |-> Append(c.vals, leb.val)]
    <3> DEFINE shifted == Shifted(c, from)
    <3>1. shifted.err = Ok /\ shifted.at = from + c.at /\ shifted.vals = c.vals
      BY <1>2 DEF Shifted
    <3> HIDE DEF shifted
    <3> DEFINE read == ReadUleb(whole, from + c.at)
    <3>2. NextUleb(whole, shifted)
            = [err |-> read.err, at |-> read.at, vals |-> Append(c.vals, read.val)]
      BY <3>1 DEF NextUleb
    <3>3. read.err = leb.err /\ read.at = from + leb.at /\ read.val = leb.val
      BY <2>2
    <3> HIDE DEF read
    <3> QED  BY <3>2, <3>3 DEF shifted
  <2> QED  BY <2>3, <2>4 DEF Shifted
<1> QED  BY <1>1, <1>2

\* The last value is the size TakeSized takes; the bytes come after it.
LEMMA TakeSizedSound ==
  ASSUME NEW window \in Seq(Byte), NEW c, Sound(window, c), c.err = Ok => Len(c.vals) > 0
  PROVE  /\ TakeSized(window, c).at \in Nat
         /\ TakeSized(window, c).err = Ok =>
              TakeSized(window, c).at >= c.at /\ TakeSized(window, c).at <= Len(window)
<1>1. CASE c.err # Ok
  BY <1>1 DEF TakeSized, Sound
<1>2. CASE c.err = Ok
  <2> DEFINE end == c.at + c.vals[Len(c.vals)]
  <2>1. c.at \in Nat /\ end \in Nat /\ end >= c.at
    BY <1>2 DEF Sound
  <2> HIDE DEF end
  <2>2. CASE end > Len(window)
    <3>1. TakeSized(window, c) = [c EXCEPT !.err = "UnexpectedEndOfInput"]
      BY <1>2, <2>2 DEF TakeSized, end
    <3> QED  BY <2>1, <3>1 DEF Sound, Ok
  <2>3. CASE ~ (end > Len(window))
    <3>1. TakeSized(window, c)
            = [c EXCEPT !.at = end, !.vals = Append(@, SubSeq(window, c.at + 1, end))]
      BY <1>2, <2>3 DEF TakeSized, end
    <3>2. TakeSized(window, c).at = end
      BY <3>1 DEF Sound
    <3> QED  BY <2>1, <2>3, <3>2
  <2> QED  BY <2>2, <2>3
<1> QED  BY <1>1, <1>2

LEMMA TakeSizedShifted ==
  ASSUME NEW whole \in Seq(Byte), NEW own \in Seq(Byte), NEW from \in Nat,
         Ending(whole, own, from), NEW c, Sound(own, c), c.err = Ok => Len(c.vals) > 0
  PROVE  TakeSized(whole, Shifted(c, from)) = Shifted(TakeSized(own, c), from)
<1>1. CASE c.err # Ok
  BY <1>1 DEF TakeSized, Shifted
<1>2. CASE c.err = Ok
  <2> DEFINE end == c.at + c.vals[Len(c.vals)]
             shifted == Shifted(c, from)
  <2>1. c.at \in Nat /\ end \in Nat /\ end >= c.at
    BY <1>2 DEF Sound
  <2>2. shifted.err = Ok /\ shifted.at = from + c.at /\ shifted.vals = c.vals
    BY <1>2 DEF Shifted
  <2>3. shifted.at + shifted.vals[Len(shifted.vals)] = from + end
    BY <1>2, <2>1, <2>2 DEF Sound
  <2>4. (from + end > Len(whole)) <=> (end > Len(own))
    BY <2>1 DEF Ending
  <2>5. CASE end > Len(own)
    <3>1. TakeSized(own, c) = [c EXCEPT !.err = "UnexpectedEndOfInput"]
      BY <1>2, <2>5 DEF TakeSized
    <3>2. TakeSized(whole, shifted) = [shifted EXCEPT !.err = "UnexpectedEndOfInput"]
      BY <2>2, <2>3, <2>4, <2>5 DEF TakeSized
    <3> QED  BY <3>1, <3>2 DEF Shifted, Sound
  <2>6. CASE ~ (end > Len(own))
    <3>1. SubSeq(whole, from + c.at + 1, from + end) = SubSeq(own, c.at + 1, end)
      <4> DEFINE at == c.at
      <4> DEFINE n == end - at
      <4>1. at \in Nat /\ n \in Nat /\ end = at + n /\ from + end = from + at + n
            /\ at + n <= Len(own)
        BY <2>1, <2>6
      <4> HIDE DEF at, end, n
      <4>2. ASSUME NEW i \in 1 .. n
            PROVE  whole[from + at + i] = own[at + i]
        <5>1. at + i \in 1 .. Len(own) /\ from + (at + i) = from + at + i
          BY <4>1
        <5> QED  BY <5>1 DEF Ending
      <4>3. SubSeq(whole, from + at + 1, from + at + n) = SubSeq(own, at + 1, at + n)
        BY <4>1, <4>2 DEF Ending
      <4> QED  BY <4>1, <4>3 DEF at
    <3>2. TakeSized(own, c)
            = [err |-> c.err, at |-> end, vals |-> Append(c.vals, SubSeq(own, c.at + 1, end))]
      BY <1>2, <2>6 DEF TakeSized, Sound
    <3>3. TakeSized(whole, shifted)
            = [err |-> c.err, at |-> from + end,
               vals |-> Append(c.vals, SubSeq(whole, from + c.at + 1, from + end))]
      <4>1. TakeSized(whole, shifted)
              = [shifted EXCEPT !.at = from + end,
                                !.vals = Append(@, SubSeq(whole, shifted.at + 1, from + end))]
        BY <2>2, <2>3, <2>4, <2>6 DEF TakeSized
      <4>2. shifted = [err |-> c.err, at |-> from + c.at, vals |-> c.vals]
        BY DEF Shifted
      <4> HIDE DEF shifted, end
      <4> QED  BY <4>1, <4>2
    <3> HIDE DEF end
    <3>4. Shifted(TakeSized(own, c), from)
            = [err |-> c.err, at |-> from + end, vals |-> Append(c.vals, SubSeq(own, c.at + 1, end))]
      BY <3>2 DEF Shifted
    <3> QED  BY <3>1, <3>3, <3>4
  <2> QED  BY <2>5, <2>6
<1> QED  BY <1>1, <1>2

LEMMA FieldsSound ==
  ASSUME NEW window \in Seq(Byte), NEW at \in 0 .. Len(window),
         NEW trimmed \in BOOLEAN, NEW extended \in BOOLEAN
  PROVE  /\ ReadFieldsAfterObuSize(window, at, trimmed, extended).at \in Nat
         /\ ReadFieldsAfterObuSize(window, at, trimmed, extended).err = Ok =>
              ReadFieldsAfterObuSize(window, at, trimmed, extended).at \in at .. Len(window)
<1> DEFINE start  == [err |-> Ok, at |-> at, vals |-> <<>>]
           first  == NextUleb(window, start)
           second == NextUleb(window, first)
           read   == IF trimmed THEN second ELSE start
           size   == NextUleb(window, read)
<1>1. Sound(window, start) /\ start.at = at
  BY DEF Sound
<1> HIDE DEF start
<1>2. Sound(window, first) /\ (first.err = Ok => first.at >= at)
  BY <1>1, NextUlebSound
<1> HIDE DEF first
<1>3. Sound(window, second) /\ (second.err = Ok => second.at >= first.at /\ first.err = Ok)
  BY <1>2, NextUlebSound DEF NextUleb
<1> HIDE DEF second
<1>4. Sound(window, read) /\ (read.err = Ok => read.at >= at)
  BY <1>1, <1>2, <1>3 DEF Sound
<1>5. read.at \in Nat /\ (read.err = Ok => read.at \in at .. Len(window))
  BY <1>4 DEF Sound
<1> HIDE DEF read
<1>6. Sound(window, size)
      /\ (size.err = Ok => size.at >= read.at /\ Len(size.vals) > 0 /\ read.err = Ok)
  BY <1>4, NextUlebSound DEF NextUleb
<1> HIDE DEF size
<1>7. /\ TakeSized(window, size).at \in Nat
      /\ TakeSized(window, size).err = Ok =>
           TakeSized(window, size).at >= size.at /\ TakeSized(window, size).at <= Len(window)
           /\ size.err = Ok
  <2>1. TakeSized(window, size).err = Ok => size.err = Ok
    BY DEF TakeSized
  <2> QED  BY <1>6, <2>1, TakeSizedSound
<1>8. CASE extended
  <2>1. ReadFieldsAfterObuSize(window, at, trimmed, extended) = TakeSized(window, size)
    BY <1>8 DEF ReadFieldsAfterObuSize, ReadTrim, ReadExtension, start, first, second, read, size
  <2>2. size.at \in Nat
    BY <1>6 DEF Sound
  <2> QED  BY <1>5, <1>6, <1>7, <2>1, <2>2
<1>9. CASE ~ extended
  <2>1. ReadFieldsAfterObuSize(window, at, trimmed, extended) = read
    BY <1>9 DEF ReadFieldsAfterObuSize, ReadTrim, start, first, second, read
  <2> QED  BY <1>5, <2>1
<1> QED  BY <1>8, <1>9

LEMMA FieldsShifted ==
  ASSUME NEW whole \in Seq(Byte), NEW own \in Seq(Byte), NEW from \in Nat,
         Ending(whole, own, from), NEW at \in 0 .. Len(own),
         NEW trimmed \in BOOLEAN, NEW extended \in BOOLEAN
  PROVE  ReadFieldsAfterObuSize(whole, from + at, trimmed, extended)
           = Shifted(ReadFieldsAfterObuSize(own, at, trimmed, extended), from)
<1> DEFINE start  == [err |-> Ok, at |-> at, vals |-> <<>>]
           first  == NextUleb(own, start)
           second == NextUleb(own, first)
           read   == IF trimmed THEN second ELSE start
           size   == NextUleb(own, read)
           there  == Shifted(start, from)
<1>1. Sound(own, start)
  BY DEF Sound
<1>2. there = [err |-> Ok, at |-> from + at, vals |-> <<>>]
  BY DEF Shifted
<1>3. Sound(own, first) /\ NextUleb(whole, there) = Shifted(first, from)
  BY <1>1, NextUlebSound, NextUlebShifted
<1>4. Sound(own, second) /\ NextUleb(whole, Shifted(first, from)) = Shifted(second, from)
  BY <1>3, NextUlebSound, NextUlebShifted
<1>5. Sound(own, read)
  BY <1>1, <1>4
<1>6. Sound(own, size) /\ (size.err = Ok => Len(size.vals) > 0)
      /\ NextUleb(whole, Shifted(read, from)) = Shifted(size, from)
  BY <1>5, NextUlebSound, NextUlebShifted
<1>7. TakeSized(whole, Shifted(size, from)) = Shifted(TakeSized(own, size), from)
  BY <1>6, TakeSizedShifted
<1>8. (IF trimmed THEN ReadTrim(whole, there) ELSE there) = Shifted(read, from)
  BY <1>3, <1>4 DEF ReadTrim
<1>9. ReadFieldsAfterObuSize(own, at, trimmed, extended)
        = IF extended THEN TakeSized(own, size) ELSE read
  BY DEF ReadFieldsAfterObuSize, ReadTrim, ReadExtension
<1>10. ReadFieldsAfterObuSize(whole, from + at, trimmed, extended)
         = IF extended THEN TakeSized(whole, NextUleb(whole, Shifted(read, from)))
           ELSE Shifted(read, from)
  BY <1>2, <1>8 DEF ReadFieldsAfterObuSize, ReadExtension
<1> HIDE DEF read, size
<1> QED  BY <1>6, <1>7, <1>9, <1>10

----------------------------------------------------------------------------
(* Frames                                                                  *)

Size(bytes, at) == ReadUleb(bytes, at + 1)
End(bytes, at) == Size(bytes, at).at + Size(bytes, at).val
Fields(bytes, at, end) ==
  ReadFieldsAfterObuSize(SubSeq(bytes, 1, end), Size(bytes, at).at,
                         Trimmed(bytes[at + 1]), Extended(bytes[at + 1]))

\* An obu_size that is read and not too large, and where it says the OBU ends.
Sized(bytes, at) ==
  /\ Size(bytes, at).err = Ok
  /\ ~ (Size(bytes, at).val > SizeCeiling(Size(bytes, at).at - at - 1))

LEMMA SizeInside ==
  ASSUME NEW bytes \in Seq(Byte), NEW at \in 0 .. Len(bytes) - 1, Sized(bytes, at)
  PROVE  /\ Size(bytes, at).at \in Nat /\ Size(bytes, at).val \in Nat
         /\ Size(bytes, at).at > at + 1 /\ Size(bytes, at).at <= Len(bytes)
<1>1. at + 1 \in Nat
  OBVIOUS
<1> QED  BY <1>1, UlebInside DEF Sized, Size

\* The fields after obu_size are read from inside the OBU and the input.
LEMMA FieldsInside ==
  ASSUME NEW bytes \in Seq(Byte), NEW at \in 0 .. Len(bytes) - 1, Sized(bytes, at),
         NEW end \in 0 .. Len(bytes), Size(bytes, at).at <= end
  PROVE  /\ Fields(bytes, at, end).at \in Nat
         /\ Fields(bytes, at, end).err = Ok => Fields(bytes, at, end).at \in Size(bytes, at).at .. end
<1>1. SubSeq(bytes, 1, end) \in Seq(Byte) /\ Len(SubSeq(bytes, 1, end)) = end
  OBVIOUS
<1>2. Size(bytes, at).at \in 0 .. Len(SubSeq(bytes, 1, end))
  BY <1>1, SizeInside
<1>3. Trimmed(bytes[at + 1]) \in BOOLEAN /\ Extended(bytes[at + 1]) \in BOOLEAN
  BY DEF Trimmed, Extended
<1> QED  BY <1>1, <1>2, <1>3, FieldsSound DEF Fields

\* The header of an OBU whose obu_size is read.
LEMMA HeaderRead ==
  ASSUME NEW bytes \in Seq(Byte), NEW at \in 0 .. Len(bytes) - 1, Sized(bytes, at)
  PROVE  LET end == End(bytes, at)
         IN  ReadObuHeader(bytes, at) =
               HeaderParts(bytes[at + 1], Size(bytes, at), end <= Len(bytes),
                           Fields(bytes, at, IF end <= Len(bytes) THEN end ELSE Len(bytes)))
<1>1. ~ (at >= Len(bytes))
  OBVIOUS
<1> QED  BY <1>1 DEF ReadObuHeader, HeaderBehindSize, Sized, Size, End, Fields

LEMMA NotSized ==
  ASSUME NEW bytes \in Seq(Byte), NEW at \in 0 .. Len(bytes) - 1, ~ Sized(bytes, at)
  PROVE  /\ ReadFrame(bytes, at) = Fails(IF Size(bytes, at).err # Ok THEN Size(bytes, at).err
                                         ELSE "ObuTooLarge")
         /\ WalkStep(bytes, at) =
              Fails(IF Size(bytes, at).err = "UnexpectedEndOfInput" THEN "TruncatedObu"
                    ELSE IF Size(bytes, at).err # Ok THEN Size(bytes, at).err
                    ELSE "ObuTooLarge")
<1>1. ~ (at >= Len(bytes))
  OBVIOUS
<1>2. ReadObuHeader(bytes, at) = Fails(IF Size(bytes, at).err # Ok THEN Size(bytes, at).err
                                       ELSE "ObuTooLarge")
  BY <1>1 DEF ReadObuHeader, HeaderBehindSize, Sized, Size
<1>3. WalkStep(bytes, at) =
        Fails(IF Size(bytes, at).err = "UnexpectedEndOfInput" THEN "TruncatedObu"
              ELSE IF Size(bytes, at).err # Ok THEN Size(bytes, at).err
              ELSE "ObuTooLarge")
  BY DEF WalkStep, WalkBehindSize, Sized, Size, Ok
<1>4. ReadObuHeader(bytes, at).err # Ok
  BY <1>2 DEF Fails, Ok
<1> QED  BY <1>2, <1>3, <1>4 DEF ReadFrame, FrameBehindHeader

\* The fields after obu_size never take more than it counts, in an input that
\* is cut short too: the payload has a length that is not negative, and the
\* check for it never fires (read_obu_with_header).
THEOREM FieldsCounted ==
  ASSUME NEW bytes \in Seq(Byte), NEW at \in 0 .. Len(bytes) - 1,
         ReadObuHeader(bytes, at).err = Ok
  PROVE  LET h == ReadObuHeader(bytes, at)
         IN  h.at \in h.after .. h.after + h.obu_size
<1> DEFINE end   == End(bytes, at)
           limit == IF end <= Len(bytes) THEN end ELSE Len(bytes)
           size  == Size(bytes, at)
           read  == Fields(bytes, at, limit)
<1>1. Sized(bytes, at)
  <2>1. CASE ~ Sized(bytes, at)
    <3>1. ~ (at >= Len(bytes)) /\ ReadObuHeader(bytes, at).err # Ok
      BY <2>1 DEF ReadObuHeader, HeaderBehindSize, Sized, Size, Fails, Ok
    <3> QED  BY <3>1
  <2> QED  BY <2>1
<1>2. size.at \in Nat /\ size.val \in Nat /\ size.at <= Len(bytes)
  BY <1>1, SizeInside
<1>3. limit \in 0 .. Len(bytes) /\ size.at <= limit /\ limit <= size.at + size.val
  BY <1>2 DEF End
<1>4. read.at \in Nat /\ (read.err = Ok => read.at \in size.at .. limit)
  BY <1>1, <1>3, FieldsInside
<1>5. ReadObuHeader(bytes, at) = HeaderParts(bytes[at + 1], size, end <= Len(bytes), read)
  BY <1>1, HeaderRead
<1> HIDE DEF read, size, limit, end
<1>6. read.err = Ok
  BY <1>5 DEF HeaderParts, Fails, Ok
<1>7. /\ ReadObuHeader(bytes, at).after = size.at
      /\ ReadObuHeader(bytes, at).at = read.at
      /\ ReadObuHeader(bytes, at).obu_size = size.val
  BY <1>5, <1>6 DEF HeaderParts
<1> QED  BY <1>2, <1>3, <1>4, <1>6, <1>7

\* What the frame of an OBU with a readable obu_size is, whole or not.
LEMMA SizedFrame ==
  ASSUME NEW bytes \in Seq(Byte), NEW at \in 0 .. Len(bytes) - 1, Sized(bytes, at)
  PROVE  LET end   == End(bytes, at)
             whole == end <= Len(bytes)
             read  == Fields(bytes, at, IF whole THEN end ELSE Len(bytes))
         IN  ReadFrame(bytes, at) =
               IF read.err # Ok
                 THEN Fails(IF whole /\ read.err = "UnexpectedEndOfInput" THEN "TruncatedObu"
                            ELSE read.err)
               ELSE IF ~ whole THEN Fails("UnexpectedEndOfInput")
               ELSE [err     |-> Ok, header |-> HeaderOf(bytes[at + 1], read.vals), next |-> end,
                     payload |-> SubSeq(bytes, read.at + 1, end)]
<1> DEFINE end   == End(bytes, at)
           whole == end <= Len(bytes)
           limit == IF whole THEN end ELSE Len(bytes)
           size  == Size(bytes, at)
           read  == Fields(bytes, at, limit)
           h     == ReadObuHeader(bytes, at)
<1>1. size.at \in Nat /\ size.val \in Nat /\ size.at <= Len(bytes) /\ end = size.at + size.val
  BY SizeInside DEF End
<1>2. limit \in 0 .. Len(bytes) /\ size.at <= limit /\ limit <= end
  BY <1>1
<1>3. read.at \in Nat /\ (read.err = Ok => read.at \in size.at .. limit)
  BY <1>2, FieldsInside
<1>4. h = HeaderParts(bytes[at + 1], size, whole, read)
  BY HeaderRead
<1>5. whole \in BOOLEAN
  OBVIOUS
<1>6. (~ whole) <=> (end > Len(bytes))
  BY <1>1
<1> HIDE DEF read, size, limit, end, whole, h
<1>7. CASE read.err # Ok
  <2>1. h = Fails(IF whole /\ read.err = "UnexpectedEndOfInput" THEN "TruncatedObu"
                  ELSE read.err)
    BY <1>4, <1>7 DEF HeaderParts
  <2>2. h.err # Ok
    BY <1>7, <2>1 DEF Fails, Ok
  <2>3. ReadFrame(bytes, at) = h
    BY <2>2 DEF ReadFrame, FrameBehindHeader, h
  <2> QED  BY <1>7, <2>1, <2>3 DEF read, limit, whole, end
<1>8. CASE read.err = Ok
  <2>1. h = [err |-> Ok, obu_size |-> size.val, after |-> size.at, at |-> read.at,
             header |-> HeaderOf(bytes[at + 1], read.vals)]
    BY <1>4, <1>8 DEF HeaderParts
  <2>2. /\ h.err = Ok /\ h.at = read.at /\ h.header = HeaderOf(bytes[at + 1], read.vals)
        /\ ~ (h.obu_size - (h.at - h.after) < 0)
        /\ h.at + (h.obu_size - (h.at - h.after)) = end
    BY <1>1, <1>2, <1>3, <1>8, <2>1
  <2> HIDE DEF h
  <2>3. FrameBehindHeader(bytes, h) =
          IF end > Len(bytes) THEN Fails("UnexpectedEndOfInput")
          ELSE [err |-> Ok, header |-> h.header, next |-> end,
                payload |-> SubSeq(bytes, h.at + 1, end)]
    BY <2>2 DEF FrameBehindHeader
  <2>4. ReadFrame(bytes, at) =
          IF ~ whole THEN Fails("UnexpectedEndOfInput")
          ELSE [err |-> Ok, header |-> HeaderOf(bytes[at + 1], read.vals), next |-> end,
                payload |-> SubSeq(bytes, read.at + 1, end)]
    BY <1>6, <2>2, <2>3 DEF ReadFrame, h
  <2> QED  BY <1>8, <2>4 DEF read, limit, whole, end
<1> QED  BY <1>7, <1>8

LEMMA SizedWalk ==
  ASSUME NEW bytes \in Seq(Byte), NEW at \in 0 .. Len(bytes) - 1, Sized(bytes, at)
  PROVE  LET end == End(bytes, at)
         IN  WalkStep(bytes, at) = IF end <= Len(bytes) THEN [err |-> Ok, next |-> end]
                                   ELSE Fails("TruncatedObu")
<1>1. End(bytes, at) \in Nat
  BY SizeInside DEF End
<1> QED  BY <1>1 DEF WalkStep, WalkBehindSize, Sized, Size, End, Ok

\* Whatever the bytes and wherever in them, an OBU that is framed ends where
\* the walk says, and input that runs out is reported by the walk
\* (read_obu_with_header and find_obu_boundaries).
THEOREM FrameIsWalked ==
  ASSUME NEW bytes \in Seq(Byte), NEW at \in 0 .. Len(bytes) - 1
  PROVE  FrameOnWalk(bytes, at)
<1>1. CASE ~ Sized(bytes, at)
  BY <1>1, NotSized DEF FrameOnWalk, Fails, Ok
<1>2. CASE Sized(bytes, at)
  <2> DEFINE end  == End(bytes, at)
             read == Fields(bytes, at, IF end <= Len(bytes) THEN end ELSE Len(bytes))
  <2>1. CASE end <= Len(bytes)
    <3>1. WalkStep(bytes, at) = [err |-> Ok, next |-> end]
      BY <1>2, <2>1, SizedWalk
    <3>2. ReadFrame(bytes, at).err = Ok => ReadFrame(bytes, at).next = end
      BY <1>2, <2>1, SizedFrame DEF Fails, Ok
    <3>3. ReadFrame(bytes, at).err # "UnexpectedEndOfInput"
      BY <1>2, <2>1, SizedFrame DEF Fails, Ok
    <3> QED  BY <3>1, <3>2, <3>3 DEF FrameOnWalk
  <2>2. CASE ~ (end <= Len(bytes))
    <3>1. WalkStep(bytes, at) = Fails("TruncatedObu")
      BY <1>2, <2>2, SizedWalk
    <3>2. ReadFrame(bytes, at).err # Ok
      BY <1>2, <2>2, SizedFrame DEF Fails, Ok
    <3> QED  BY <3>1, <3>2 DEF FrameOnWalk, Fails
  <2> QED  BY <2>1, <2>2
<1> QED  BY <1>1, <1>2

\* As long as the stream holds bytes, reader and walk agree on it.
THEOREM StreamIsWalked == [](stream \in Seq(Byte)) => []FramesOnWalk
<1>1. stream \in Seq(Byte) => FramesOnWalk
  BY FrameIsWalked DEF FramesOnWalk
<1> QED  BY <1>1, PTL

----------------------------------------------------------------------------
(* An OBU by itself                                                        *)

OwnBytes(own, bytes, at) == own = SubSeq(bytes, at + 1, WalkStep(bytes, at).next)

\* Up to where it starts, the frame of an OBU that the walk finds whole is the
\* one its own bytes have.
LEMMA FrameOfOwnBytes ==
  ASSUME NEW bytes \in Seq(Byte), NEW at \in 0 .. Len(bytes) - 1,
         WalkStep(bytes, at).err = Ok,
         NEW own, OwnBytes(own, bytes, at)
  PROVE  /\ ReadFrame(bytes, at).err = ReadFrame(own, 0).err
         /\ ReadFrame(bytes, at).err = Ok =>
              /\ ReadFrame(bytes, at).header = ReadFrame(own, 0).header
              /\ ReadFrame(bytes, at).payload = ReadFrame(own, 0).payload
<1> DEFINE end  == End(bytes, at)
           size == Size(bytes, at)
           upto == SubSeq(bytes, 1, end)
           n    == end - at
<1>1. Sized(bytes, at)
  BY NotSized DEF Fails, Ok
<1>2. /\ size.at \in Nat /\ size.val \in Nat /\ size.at > at + 1
      /\ end = size.at + size.val
  BY <1>1, SizeInside DEF End
<1>3. end <= Len(bytes) /\ WalkStep(bytes, at).next = end
  BY <1>1, SizedWalk DEF Fails, Ok
<1>4. end \in Nat /\ n \in Nat /\ n > 1 /\ end = at + n /\ size.at <= end
  BY <1>2
<1>5. /\ own \in Seq(Byte) /\ Len(own) = n
      /\ \A i \in 1 .. n : own[i] = bytes[at + i]
  <2>1. own = SubSeq(bytes, at + 1, end)
    BY <1>3 DEF OwnBytes
  <2> HIDE DEF end, n
  <2>2. own = SubSeq(bytes, at + 1, at + n) /\ at + n <= Len(bytes)
    BY <1>3, <1>4, <2>1
  <2> QED  BY <1>4, <2>2
<1>6. /\ upto \in Seq(Byte) /\ Len(upto) = end
      /\ \A i \in 1 .. end : upto[i] = bytes[i]
  BY <1>3, <1>4
<1> HIDE DEF upto, n, end
<1>7. Ending(upto, own, at)
  <2>1. ASSUME NEW i \in 1 .. n
        PROVE  upto[at + i] = own[i]
    <3>1. at + i \in 1 .. end
      BY <1>4
    <3> QED  BY <1>5, <1>6, <3>1
  <2> QED  BY <1>4, <1>5, <1>6, <2>1 DEF Ending
<1>8. /\ Size(own, 0).err = Ok /\ Size(own, 0).val = size.val
      /\ size.at = at + Size(own, 0).at /\ Size(own, 0).at \in Nat
  <2>1. ReadUleb(upto, at + 1) = size
    <3>1. at + 1 \in Nat /\ end \in 0 .. Len(bytes)
      BY <1>3, <1>4
    <3> QED  BY <1>1, <1>4, <3>1, UlebInBeginning DEF Sized, Size, upto
  <2>2. ReadUleb(upto, at + 1) = [err |-> ReadUleb(own, 1).err, val |-> ReadUleb(own, 1).val,
                                 at |-> at + ReadUleb(own, 1).at]
    BY <1>5, <1>6, <1>7, UlebInEnding
  <2>3. ReadUleb(own, 1).at \in Nat
    BY <1>5, UlebInside
  <2>4. size.err = Ok
    BY <1>1 DEF Sized
  <2>5. Size(own, 0) = ReadUleb(own, 1)
    BY DEF Size
  <2> HIDE DEF size
  <2> QED  BY <2>1, <2>2, <2>3, <2>4, <2>5
<1>9. Sized(own, 0) /\ End(own, 0) = n
  <2>1. Size(own, 0).at - 0 - 1 = size.at - at - 1
    BY <1>2, <1>8
  <2>2. Sized(own, 0)
    BY <1>1, <1>8, <2>1 DEF Sized
  <2>3. End(own, 0) = Size(own, 0).at + size.val
    BY <1>8 DEF End
  <2> HIDE DEF size
  <2> QED  BY <1>2, <1>4, <1>8, <2>2, <2>3
<1> DEFINE read  == Fields(bytes, at, end)
           again == Fields(own, 0, n)
<1>10. bytes[at + 1] = own[0 + 1]
  BY <1>4, <1>5
<1>11. /\ read.err = again.err /\ read.vals = again.vals /\ read.at = at + again.at
       /\ again.at \in Nat /\ (again.err = Ok => again.at <= n)
  <2> DEFINE first    == Size(own, 0).at
             trimmed  == Trimmed(own[0 + 1])
             extended == Extended(own[0 + 1])
  <2>1. first \in 0 .. Len(own) /\ trimmed \in BOOLEAN /\ extended \in BOOLEAN
    BY <1>2, <1>4, <1>5, <1>8 DEF Trimmed, Extended
  <2>2. SubSeq(own, 1, n) = own
    BY <1>4, <1>5
  <2>3. again = ReadFieldsAfterObuSize(own, first, trimmed, extended)
    BY <2>2 DEF Fields
  <2>4. read = ReadFieldsAfterObuSize(upto, at + first, trimmed, extended)
    BY <1>8, <1>10 DEF Fields, upto
  <2> HIDE DEF first, trimmed, extended, read, again
  <2>5. read = Shifted(again, at)
    BY <1>5, <1>6, <1>7, <2>1, <2>3, <2>4, FieldsShifted
  <2>6. again.at \in Nat /\ (again.err = Ok => again.at <= n)
    BY <1>5, <2>1, <2>3, FieldsSound
  <2> QED  BY <2>5, <2>6 DEF Shifted
<1>12. again.err = Ok => SubSeq(bytes, read.at + 1, end) = SubSeq(own, again.at + 1, n)
  <2> SUFFICES ASSUME again.err = Ok
               PROVE  SubSeq(bytes, read.at + 1, end) = SubSeq(own, again.at + 1, n)
    OBVIOUS
  <2> DEFINE skip == again.at
             past == at + skip
             left == n - skip
  <2>1. /\ skip \in Nat /\ past \in Nat /\ left \in Nat /\ past = at + skip
        /\ n = skip + left /\ read.at = past /\ end = past + left
        /\ Len(own) = skip + left /\ past + left <= Len(bytes)
    BY <1>3, <1>4, <1>5, <1>11
  <2>2. own \in Seq(Byte)
    BY <1>5
  <2> HIDE DEF read, again, skip, past, left
  <2>3. ASSUME NEW i \in 1 .. left
        PROVE  bytes[past + i] = own[skip + i]
    <3>1. skip + i \in 1 .. n /\ at + (skip + i) = past + i
      BY <2>1
    <3> QED  BY <1>5, <3>1
  <2>4. SubSeq(bytes, past + 1, past + left) = SubSeq(own, skip + 1, skip + left)
    BY <2>1, <2>2, <2>3
  <2> QED  BY <2>1, <2>4 DEF skip
<1>13. ReadFrame(bytes, at) =
         IF read.err # Ok
           THEN Fails(IF read.err = "UnexpectedEndOfInput" THEN "TruncatedObu" ELSE read.err)
         ELSE [err     |-> Ok, header |-> HeaderOf(bytes[at + 1], read.vals), next |-> end,
               payload |-> SubSeq(bytes, read.at + 1, end)]
  BY <1>1, <1>3, SizedFrame DEF end
<1>14. ReadFrame(own, 0) =
         IF again.err # Ok
           THEN Fails(IF again.err = "UnexpectedEndOfInput" THEN "TruncatedObu" ELSE again.err)
         ELSE [err     |-> Ok, header |-> HeaderOf(own[0 + 1], again.vals), next |-> n,
               payload |-> SubSeq(own, again.at + 1, n)]
  <2>1. 0 \in 0 .. Len(own) - 1 /\ n <= Len(own)
    BY <1>4, <1>5
  <2> QED  BY <1>5, <1>9, <2>1, SizedFrame
<1> HIDE DEF read, again
<1>15. CASE again.err # Ok
  BY <1>11, <1>13, <1>14, <1>15
<1>16. CASE again.err = Ok
  <2> DEFINE header == HeaderOf(own[0 + 1], again.vals)
             left   == SubSeq(own, again.at + 1, n)
  <2>1. ReadFrame(own, 0) = [err |-> Ok, header |-> header, next |-> n, payload |-> left]
    BY <1>14, <1>16
  <2>2. ReadFrame(bytes, at) = [err |-> Ok, header |-> header, next |-> end, payload |-> left]
    BY <1>10, <1>11, <1>12, <1>13, <1>16
  <2> HIDE DEF header, left
  <2> QED  BY <2>1, <2>2
<1> QED  BY <1>15, <1>16

\* Whatever the bytes, an OBU that the walk finds whole is read from its own
\* bytes: by itself it is the OBU, or the error, that it is in the stream
\* (next_obu and dump_annotated).
THEOREM OwnBytesSuffice ==
  ASSUME NEW bytes \in Seq(Byte), NEW at \in 0 .. Len(bytes) - 1,
         WalkStep(bytes, at).err = Ok,
         NEW own, OwnBytes(own, bytes, at), NEW known
  PROVE  SameObu(ReadObu(bytes, at, known), ReadObu(own, 0, known))
<1> DEFINE there == ReadFrame(bytes, at)
           alone == ReadFrame(own, 0)
<1>1. there.err = alone.err
  BY FrameOfOwnBytes
<1>2. there.err = Ok => there.header = alone.header /\ there.payload = alone.payload
  BY FrameOfOwnBytes
<1> HIDE DEF there, alone
<1>3. CASE there.err # Ok
  BY <1>1, <1>3 DEF SameObu, ReadObu, ObuInFrame, Fails, there, alone
<1>4. CASE there.err = Ok
  <2> DEFINE read == ReadPayload(Cursor(alone.payload), alone.header, known)
             left == Read(read[2], <<Rest>>)
  <2>1. ReadObu(bytes, at, known) = ObuOf(read[1], there, left)
    BY <1>2, <1>4 DEF ReadObu, ObuInFrame, ObuOfPayload, there
  <2>2. ReadObu(own, 0, known) = ObuOf(read[1], alone, left)
    BY <1>1, <1>4 DEF ReadObu, ObuInFrame, ObuOfPayload, alone
  <2> HIDE DEF read, left
  <2>3. CASE left.err # Ok
    BY <2>1, <2>2, <2>3 DEF ObuOf, SameObu, Fails
  <2>4. CASE left.err = Ok
    <3>1. there.header = alone.header
      BY <1>2, <1>4
    <3> QED  BY <2>1, <2>2, <2>4, <3>1 DEF ObuOf, SameObu
  <2> QED  BY <2>3, <2>4
<1> QED  BY <1>3, <1>4

----------------------------------------------------------------------------
(* The walk                                                                *)

WalkFrom(bytes, f, at) ==
  LET one == WalkStep(bytes, at)
  IN  IF at = Len(bytes) THEN [err |-> Ok, at |-> <<at>>]
      ELSE IF one.err # Ok THEN [err |-> one.err, at |-> <<at>>]
      ELSE [f[one.next] EXCEPT !.at = <<at>> \o @]

WalkTable(bytes, k, f) == f = [at \in k .. Len(bytes) |-> WalkFrom(bytes, f, at)]

\* The walk moves on, and stays inside the stream.
LEMMA WalkMoves ==
  ASSUME NEW bytes \in Seq(Byte), NEW at \in 0 .. Len(bytes) - 1, WalkStep(bytes, at).err = Ok
  PROVE  WalkStep(bytes, at).next \in at + 1 .. Len(bytes)
<1>1. Sized(bytes, at)
  <2>1. CASE ~ Sized(bytes, at)
    <3>1. WalkStep(bytes, at).err # Ok
      BY <2>1, NotSized DEF Fails, Ok
    <3> QED  BY <3>1
  <2> QED  BY <2>1
<1> DEFINE end == End(bytes, at)
<1>2. end \in Nat /\ end > at + 1
  BY <1>1, SizeInside DEF End
<1>3. WalkStep(bytes, at) = IF end <= Len(bytes) THEN [err |-> Ok, next |-> end]
                            ELSE Fails("TruncatedObu")
  BY <1>1, SizedWalk
<1> HIDE DEF end
<1>4. end <= Len(bytes) /\ WalkStep(bytes, at).next = end
  BY <1>3 DEF Fails, Ok
<1> QED  BY <1>2, <1>4

\* The recursion of the walk has a solution: extend that of one position later.
LEMMA WalkTableExists ==
  ASSUME NEW bytes \in Seq(Byte)
  PROVE  \E f : WalkTable(bytes, 0, f)
<1> DEFINE L == Len(bytes)
           S == {k \in Nat : k <= L + 1 => \E f : WalkTable(bytes, (L + 1) - k, f)}
<1>0. L \in Nat
  OBVIOUS
<1>1. 0 \in S
  <2> DEFINE f == [m \in L + 1 .. L |-> 0]
  <2>1. (L + 1) - 0 = L + 1 /\ L + 1 .. L = {}
    OBVIOUS
  <2>2. WalkTable(bytes, L + 1, f)
    BY <2>1 DEF WalkTable
  <2> HIDE DEF f
  <2> QED  BY <2>1, <2>2
<1>2. ASSUME NEW k \in Nat, k \in S PROVE k + 1 \in S
  <2> SUFFICES ASSUME k + 1 <= L + 1
               PROVE  \E f : WalkTable(bytes, (L + 1) - (k + 1), f)
    OBVIOUS
  <2> DEFINE from == (L + 1) - (k + 1)
  <2>1. from \in 0 .. L /\ (L + 1) - k = from + 1
    OBVIOUS
  <2>2. PICK f : WalkTable(bytes, from + 1, f)
    BY <1>2, <2>1
  <2> HIDE DEF from, S
  <2> DEFINE g == [m \in from .. L |-> WalkFrom(bytes, f, m)]
  <2>3. \A m \in from + 1 .. L : f[m] = WalkFrom(bytes, f, m)
    BY <2>2 DEF WalkTable
  <2>4. \A m \in from + 1 .. L : g[m] = f[m]
    BY <2>1, <2>3
  <2> HIDE DEF g
  <2>5. ASSUME NEW m \in from .. L
        PROVE  WalkFrom(bytes, g, m) = WalkFrom(bytes, f, m)
    <3>1. CASE m = L \/ WalkStep(bytes, m).err # Ok
      BY <3>1 DEF WalkFrom
    <3>2. CASE m # L /\ WalkStep(bytes, m).err = Ok
      <4>1. m \in 0 .. L - 1
        BY <2>1, <3>2
      <4> HIDE DEF L
      <4>2. WalkStep(bytes, m).next \in m + 1 .. L
        BY <3>2, <4>1, WalkMoves DEF L
      <4>3. WalkStep(bytes, m).next \in from + 1 .. L
        BY <1>0, <2>1, <4>1, <4>2
      <4>4. g[WalkStep(bytes, m).next] = f[WalkStep(bytes, m).next]
        BY <2>4, <4>3
      <4> QED  BY <4>4 DEF WalkFrom
    <3> QED  BY <3>1, <3>2
  <2>6. g = [m \in from .. L |-> WalkFrom(bytes, g, m)]
    BY <2>5 DEF g
  <2> QED  BY <2>6 DEF WalkTable, from
<1> HIDE DEF S
<1>3. L + 1 \in S
  <2> HIDE DEF L
  <2> QED  BY <1>0, <1>1, <1>2, NaturalSteps
<1>4. (L + 1) - (L + 1) = 0
  OBVIOUS
<1> QED  BY <1>3, <1>4 DEF S

\* Every boundary but the last is a whole OBU, which ends at the next one.
Boundaries(bytes, from, list) ==
  /\ list \in Seq(Nat) /\ list # <<>> /\ list[1] = from
  /\ \A i \in 1 .. Len(list) - 1 :
       /\ list[i] \in 0 .. Len(bytes) - 1
       /\ WalkStep(bytes, list[i]).err = Ok
       /\ list[i + 1] = WalkStep(bytes, list[i]).next

\* Behind the last one the walk ends: at the end of the input, or at an error.
Stops(bytes, list, err) ==
  LET last == list[Len(list)]
  IN  \/ last = Len(bytes) /\ err = Ok
      \/ /\ last \in 0 .. Len(bytes) - 1 /\ WalkStep(bytes, last).err # Ok
         /\ err = WalkStep(bytes, last).err

LEMMA BoundariesGrow ==
  ASSUME NEW bytes \in Seq(Byte), NEW at \in 0 .. Len(bytes) - 1, WalkStep(bytes, at).err = Ok,
         NEW list, Boundaries(bytes, WalkStep(bytes, at).next, list),
         NEW err, Stops(bytes, list, err)
  PROVE  Boundaries(bytes, at, <<at>> \o list) /\ Stops(bytes, <<at>> \o list, err)
<1>1. <<at>> \in Seq(Nat) /\ Len(<<at>>) = 1 /\ <<at>>[1] = at
  OBVIOUS
<1>2. Concatenates(Nat, <<at>>, list)
  BY <1>1, ConcatMembers DEF Boundaries
<1> DEFINE more == <<at>> \o list
<1> HIDE DEF more
<1>3. /\ more \in Seq(Nat) /\ Len(list) \in Nat /\ Len(more) = 1 + Len(list)
      /\ more[1] = at /\ \A k \in 1 .. Len(list) : more[1 + k] = list[k]
  BY <1>1, <1>2 DEF Concatenates, more
<1>4. list # <<>> /\ list \in Seq(Nat) /\ list[1] = WalkStep(bytes, at).next
  BY DEF Boundaries
<1>5. Len(list) >= 1 /\ more # <<>>
  BY <1>3, <1>4
<1>6. ASSUME NEW i \in 1 .. Len(more) - 1
      PROVE  /\ more[i] \in 0 .. Len(bytes) - 1
             /\ WalkStep(bytes, more[i]).err = Ok
             /\ more[i + 1] = WalkStep(bytes, more[i]).next
  <2>1. CASE i = 1
    <3>1. 1 \in 1 .. Len(list)
      BY <1>5
    <3>2. more[1 + 1] = list[1]
      BY <1>3, <3>1
    <3> QED  BY <1>3, <1>4, <2>1, <3>2
  <2>2. CASE i # 1
    <3> DEFINE j == i - 1
    <3>1. j \in 1 .. Len(list) - 1 /\ j \in 1 .. Len(list) /\ j + 1 \in 1 .. Len(list)
          /\ i = 1 + j /\ i + 1 = 1 + (j + 1)
      BY <1>3, <2>2
    <3> HIDE DEF j
    <3>2. more[i] = list[j] /\ more[i + 1] = list[j + 1]
      BY <1>3, <3>1
    <3> QED  BY <3>1, <3>2 DEF Boundaries
  <2> QED  BY <2>1, <2>2
<1>7. Boundaries(bytes, at, more)
  BY <1>3, <1>5, <1>6 DEF Boundaries
<1>8. more[Len(more)] = list[Len(list)]
  BY <1>3, <1>5
<1>9. Stops(bytes, more, err)
  BY <1>8 DEF Stops
<1> QED  BY <1>7, <1>9 DEF more

LEMMA WalkFinds ==
  ASSUME NEW bytes \in Seq(Byte)
  PROVE  /\ Boundaries(bytes, 0, FindObuBoundaries(bytes).at)
         /\ Stops(bytes, FindObuBoundaries(bytes).at, FindObuBoundaries(bytes).err)
<1> DEFINE L == Len(bytes)
           f == CHOOSE f : WalkTable(bytes, 0, f)
<1>1. WalkTable(bytes, 0, f)
  BY WalkTableExists
<1>2. FindObuBoundaries(bytes) = f[0]
  BY DEF FindObuBoundaries, WalkTable, WalkFrom
<1> HIDE DEF f
<1>3. L \in Nat /\ \A m \in 0 .. L : f[m] = WalkFrom(bytes, f, m)
  BY <1>1 DEF WalkTable
<1> DEFINE Right(m) == /\ f[m] = [err |-> f[m].err, at |-> f[m].at]
                       /\ Boundaries(bytes, m, f[m].at) /\ Stops(bytes, f[m].at, f[m].err)
           S == {k \in Nat : \A m \in 0 .. L : m + k >= L => Right(m)}
<1>4. ASSUME NEW m \in 0 .. L, m = L \/ WalkStep(bytes, m).err # Ok PROVE Right(m)
  <2>1. f[m] = [err |-> f[m].err, at |-> <<m>>]
    <3>1. f[m] = WalkFrom(bytes, f, m)
      BY <1>3
    <3> QED  BY <1>4, <3>1 DEF WalkFrom
  <2>2. <<m>> \in Seq(Nat) /\ <<m>> # <<>> /\ <<m>>[1] = m /\ 1 .. Len(<<m>>) - 1 = {}
    OBVIOUS
  <2>3. Boundaries(bytes, m, <<m>>)
    BY <2>2 DEF Boundaries
  <2>4. f[m].at = <<m>>
    BY <2>1
  <2>5. f[m].err = (IF m = L THEN Ok ELSE WalkStep(bytes, m).err)
    <3>1. f[m] = WalkFrom(bytes, f, m)
      BY <1>3
    <3> QED  BY <1>4, <3>1 DEF WalkFrom
  <2>6. <<m>>[Len(<<m>>)] = m
    OBVIOUS
  <2>7. m # L => m \in 0 .. L - 1
    BY <1>3
  <2>8. Stops(bytes, <<m>>, f[m].err)
    BY <1>4, <2>5, <2>6, <2>7 DEF Stops
  <2> QED  BY <2>1, <2>3, <2>4, <2>8
<1>5. 0 \in S
  <2>1. ASSUME NEW m \in 0 .. L, m + 0 >= L PROVE m = L
    BY <1>3, <2>1
  <2> HIDE DEF Right, L
  <2> QED  BY <1>4, <2>1
<1>6. ASSUME NEW k \in Nat, k \in S PROVE k + 1 \in S
  <2>1. ASSUME NEW m \in 0 .. L, m + (k + 1) >= L, m # L, WalkStep(bytes, m).err = Ok
        PROVE  Right(m)
    <3> DEFINE next == WalkStep(bytes, m).next
    <3>1. m \in 0 .. L - 1
      BY <1>3, <2>1
    <3>2. next \in m + 1 .. L
      BY <2>1, <3>1, WalkMoves
    <3>3. f[m] = [f[next] EXCEPT !.at = <<m>> \o @]
      BY <1>3, <2>1 DEF WalkFrom
    <3> HIDE DEF next
    <3>4. next \in 0 .. L /\ next + k >= L
      <4> HIDE DEF L
      <4> QED  BY <1>3, <2>1, <3>2
    <3>5. Right(next)
      BY <1>6, <3>4
    <3>6. f[m] = [err |-> f[next].err, at |-> <<m>> \o f[next].at]
      BY <3>3, <3>5
    <3>7. Boundaries(bytes, m, <<m>> \o f[next].at)
          /\ Stops(bytes, <<m>> \o f[next].at, f[next].err)
      BY <2>1, <3>1, <3>5, BoundariesGrow DEF next
    <3>8. f[m].at = <<m>> \o f[next].at /\ f[m].err = f[next].err
      BY <3>6
    <3> QED  BY <3>6, <3>7, <3>8
  <2> HIDE DEF Right, L
  <2>2. \A m \in 0 .. L : m + (k + 1) >= L => Right(m)
    BY <1>4, <2>1
  <2> QED  BY <2>2
<1> HIDE DEF S
<1>7. L \in S
  BY <1>3, <1>5, <1>6, NaturalSteps
<1>8. Right(0)
  <2>1. 0 \in 0 .. L /\ 0 + L >= L
    BY <1>3
  <2> HIDE DEF Right
  <2> QED  BY <1>7, <2>1 DEF S
<1> QED  BY <1>2, <1>8

\* As long as the stream holds bytes, every OBU the walk finds in it is read
\* from its own bytes: by itself it is the OBU, or the error, that it is in the
\* stream (find_obu_boundaries, next_obu and dump_annotated).
THEOREM StreamFallsApart == [](stream \in Seq(Byte)) => []OwnBytesOnly
<1>1. stream \in Seq(Byte) => OwnBytesOnly
  <2> SUFFICES ASSUME stream \in Seq(Byte) PROVE OwnBytesOnly
    OBVIOUS
  <2> DEFINE list   == FindObuBoundaries(stream).at
             Own(i) == SubSeq(stream, list[i] + 1, list[i + 1])
  <2>1. Boundaries(stream, 0, list)
    BY WalkFinds
  <2> HIDE DEF list
  <2>2. ASSUME NEW i \in 1 .. Len(list) - 1, NEW known
        PROVE  SameObu(ReadObu(stream, list[i], known), ReadObu(Own(i), 0, known))
    <3>1. /\ list[i] \in 0 .. Len(stream) - 1 /\ WalkStep(stream, list[i]).err = Ok
          /\ list[i + 1] = WalkStep(stream, list[i]).next
      BY <2>1 DEF Boundaries
    <3>2. OwnBytes(Own(i), stream, list[i])
      BY <3>1 DEF OwnBytes
    <3> HIDE DEF Own
    <3> QED  BY <3>1, <3>2, OwnBytesSuffice
  <2> QED  BY <2>2, Zenon DEF OwnBytesOnly, list
<1> QED  BY <1>1, PTL

----------------------------------------------------------------------------
(* uleb128, written and read back                                          *)

\* What holds of the crate, where they are 8 and 2^32: five groups are enough
\* for every value.
CrateLimits == MaxLeb >= 5 /\ ValueLimit <= 128 ^ 5

LEMMA Powers ==
  ASSUME NEW k \in 0 .. 4
  PROVE  128 ^ k \in Nat \ {0} /\ 128 ^ (k + 1) \in Nat \ {0} /\ 128 ^ (k + 1) = 128 * 128 ^ k
<1>1. k = 0 \/ k = 1 \/ k = 2 \/ k = 3 \/ k = 4
  BY SMT
<1>2. CASE k = 0
  BY <1>2, SMT
<1>3. CASE k = 1
  BY <1>3, SMT
<1>4. CASE k = 2
  BY <1>4, SMT
<1>5. CASE k = 3
  BY <1>5, SMT
<1>6. CASE k = 4
  BY <1>6, SMT
<1> QED  BY <1>1, <1>2, <1>3, <1>4, <1>5, <1>6

ValueTable(groups, k, f) ==
  f = [i \in k .. Len(groups) + 1 |->
         IF i > Len(groups) THEN 0 ELSE (groups[i] % 128) + 128 * f[i + 1]]

\* The recursion over the groups has a solution: extend that of one group less.
LEMMA ValueTableExists ==
  ASSUME NEW groups, Len(groups) \in Nat
  PROVE  \E f : ValueTable(groups, 1, f)
<1> DEFINE n == Len(groups)
           S == {k \in Nat : k <= n + 1 => \E f : ValueTable(groups, (n + 2) - k, f)}
<1>1. 0 \in S
  <2> DEFINE f == [m \in n + 2 .. n + 1 |-> 0]
  <2>1. (n + 2) - 0 = n + 2 /\ n + 2 .. n + 1 = {}
    OBVIOUS
  <2>2. ValueTable(groups, n + 2, f)
    BY <2>1 DEF ValueTable
  <2> HIDE DEF f
  <2> QED  BY <2>1, <2>2
<1>2. ASSUME NEW k \in Nat, k \in S PROVE k + 1 \in S
  <2> SUFFICES ASSUME k + 1 <= n + 1
               PROVE  \E f : ValueTable(groups, (n + 2) - (k + 1), f)
    OBVIOUS
  <2> DEFINE from == (n + 2) - (k + 1)
  <2>1. from \in 1 .. n + 1 /\ (n + 2) - k = from + 1
    OBVIOUS
  <2>2. PICK f : ValueTable(groups, from + 1, f)
    BY <1>2, <2>1
  <2> HIDE DEF from, S
  <2> DEFINE Step(h, i) == IF i > n THEN 0 ELSE (groups[i] % 128) + 128 * h[i + 1]
             g == [i \in from .. n + 1 |-> Step(f, i)]
  <2>3. \A i \in from + 1 .. n + 1 : f[i] = Step(f, i)
    BY <2>2 DEF ValueTable
  <2>4. \A i \in from + 1 .. n + 1 : g[i] = f[i]
    <3> HIDE DEF Step
    <3>1. \A i \in from + 1 .. n + 1 : i \in from .. n + 1
      BY <2>1
    <3> QED  BY <2>3, <3>1
  <2> HIDE DEF g
  <2>5. ASSUME NEW i \in from .. n + 1 PROVE Step(g, i) = Step(f, i)
    <3>1. CASE i > n
      BY <3>1
    <3>2. CASE ~ (i > n)
      <4>1. i + 1 \in from + 1 .. n + 1
        BY <2>1, <3>2
      <4> QED  BY <2>4, <4>1
    <3> QED  BY <3>1, <3>2
  <2>6. g = [i \in from .. n + 1 |-> Step(g, i)]
    <3> HIDE DEF Step
    <3> QED  BY <2>5 DEF g
  <2> QED  BY <2>6 DEF ValueTable, from
<1> HIDE DEF S
<1>3. n + 1 \in Nat /\ (n + 2) - (n + 1) = 1
  OBVIOUS
<1>4. n + 1 \in S
  <2> HIDE DEF n
  <2> QED  BY <1>1, <1>2, <1>3, NaturalSteps
<1> QED  BY <1>3, <1>4 DEF S

\* What UlebFixed leaves when it has room for the value.
Groups(v, size, groups) ==
  /\ groups \in Seq(Byte) /\ Len(groups) = size
  /\ \A i \in 1 .. size : /\ groups[i] % 128 = (v \div 128 ^ (i - 1)) % 128
                          /\ groups[i] < 128 <=> i = size

LEMMA FixedGroups ==
  ASSUME NEW v \in Nat, NEW size \in 1 .. 5
  PROVE  Groups(v, size, UlebFixed(v, size))
<1> DEFINE Group(i) == ((v \div 128 ^ (i - 1)) % 128) + (IF i = size THEN 0 ELSE 128)
<1>1. UlebFixed(v, size) = [i \in 1 .. size |-> Group(i)]
  BY DEF UlebFixed
<1>2. ASSUME NEW i \in 1 .. size
      PROVE  /\ Group(i) \in Byte /\ Group(i) % 128 = (v \div 128 ^ (i - 1)) % 128
             /\ Group(i) < 128 <=> i = size
  <2> DEFINE p == 128 ^ (i - 1)
             d == (v \div p) % 128
  <2>1. p \in Nat \ {0}
    <3>1. i - 1 \in 0 .. 4
      OBVIOUS
    <3> DEFINE k == i - 1
    <3> HIDE DEF k
    <3>2. 128 ^ k \in Nat \ {0}
      BY <3>1, Powers DEF k
    <3> QED  BY <3>2 DEF k
  <2> HIDE DEF p
  <2>2. d \in 0 .. 127
    <3>1. v \div p \in Nat
      BY <2>1
    <3> QED  BY <3>1
  <2> HIDE DEF d
  <2>3. /\ (d + (IF i = size THEN 0 ELSE 128)) \in Byte
        /\ (d + (IF i = size THEN 0 ELSE 128)) % 128 = d
        /\ (d + (IF i = size THEN 0 ELSE 128)) < 128 <=> i = size
    <3>1. d \in Nat /\ d < 128
      BY <2>2
    <3>2. CASE i = size
      BY <3>1, <3>2 DEF Byte
    <3>3. CASE i # size
      BY <3>1, <3>3 DEF Byte
    <3> QED  BY <3>2, <3>3
  <2> QED  BY <2>3 DEF d, p
<1> HIDE DEF Group
<1>3. UlebFixed(v, size) \in Seq(Byte) /\ Len(UlebFixed(v, size)) = size
  <2>1. size \in Nat /\ \A i \in 1 .. size : Group(i) \in Byte
    BY <1>2
  <2> QED  BY <1>1, <2>1
<1>4. \A i \in 1 .. size : UlebFixed(v, size)[i] = Group(i)
  BY <1>1
<1> QED  BY <1>2, <1>3, <1>4, Zenon DEF Groups

\* The groups carry the value.
LEMMA GroupsCarry ==
  ASSUME NEW v \in Nat, NEW size \in 1 .. 5, v < 128 ^ size, NEW groups, Groups(v, size, groups)
  PROVE  UlebValue(groups) = v
<1> DEFINE f == CHOOSE f : ValueTable(groups, 1, f)
<1>1. ValueTable(groups, 1, f)
  <2>1. Len(groups) \in Nat
    BY DEF Groups
  <2> QED  BY <2>1, ValueTableExists
<1>2. UlebValue(groups) = f[1]
  BY DEF UlebValue, ValueTable
<1> HIDE DEF f
<1>3. \A i \in 1 .. size + 1 :
        f[i] = IF i > size THEN 0 ELSE (groups[i] % 128) + 128 * f[i + 1]
  BY <1>1 DEF ValueTable, Groups
<1> DEFINE P(i) == 128 ^ (i - 1)
<1>4. /\ \A i \in 1 .. size + 1 : P(i) \in Nat \ {0}
      /\ \A i \in 1 .. size : P(i + 1) = 128 * P(i)
      /\ P(1) = 1 /\ v < P(size + 1)
  <2>1. ASSUME NEW i \in 1 .. size
        PROVE  P(i) \in Nat \ {0} /\ P(i + 1) \in Nat \ {0} /\ P(i + 1) = 128 * P(i)
    <3> DEFINE k == i - 1
    <3>1. k \in 0 .. 4 /\ (i + 1) - 1 = k + 1
      OBVIOUS
    <3>2. 128 ^ k \in Nat \ {0} /\ 128 ^ (k + 1) \in Nat \ {0} /\ 128 ^ (k + 1) = 128 * 128 ^ k
      <4> HIDE DEF k
      <4> QED  BY <3>1, Powers
    <3> QED  BY <3>1, <3>2
  <2>2. P(1) = 1
    BY SMT
  <2>3. (size + 1) - 1 = size
    OBVIOUS
  <2>4. \A i \in 1 .. size + 1 : i \in 1 .. size \/ (size \in 1 .. size /\ i = size + 1)
    OBVIOUS
  <2>5. v < P(size + 1)
    BY <2>3
  <2> HIDE DEF P
  <2> QED  BY <2>1, <2>2, <2>4, <2>5
<1>5. \A i \in 1 .. size : groups[i] % 128 = (v \div P(i)) % 128
  BY DEF Groups
<1> HIDE DEF P
<1> DEFINE S == {k \in Nat : k <= size => f[(size + 1) - k] = v \div P((size + 1) - k)}
<1>6. 0 \in S
  <2>1. f[size + 1] = 0
    BY <1>3
  <2>2. v \div P(size + 1) = 0
    <3> DEFINE p == P(size + 1)
    <3>1. p \in Nat \ {0} /\ v < p
      BY <1>4
    <3> HIDE DEF p
    <3>2. v \div p = 0
      BY <3>1
    <3> QED  BY <3>2 DEF p
  <2>3. (size + 1) - 0 = size + 1
    OBVIOUS
  <2> QED  BY <2>1, <2>2, <2>3
<1>7. ASSUME NEW k \in Nat, k \in S PROVE k + 1 \in S
  <2> SUFFICES ASSUME k + 1 <= size
               PROVE  f[(size + 1) - (k + 1)] = v \div P((size + 1) - (k + 1))
    OBVIOUS
  <2> DEFINE i == (size + 1) - (k + 1)
  <2>1. i \in 1 .. size /\ (size + 1) - k = i + 1 /\ i \in 1 .. size + 1 /\ ~ (i > size)
    OBVIOUS
  <2>2. f[i + 1] = v \div P(i + 1)
    BY <1>7, <2>1
  <2> HIDE DEF i, S
  <2>3. f[i] = ((v \div P(i)) % 128) + 128 * f[i + 1]
    BY <1>3, <1>5, <2>1
  <2> DEFINE p == P(i)
  <2>4. p \in Nat \ {0} /\ P(i + 1) = 128 * p
    BY <1>4, <2>1
  <2> HIDE DEF p
  <2>5. v \div (128 * p) = (v \div p) \div 128
    BY <2>4, SMT
  <2>6. v \div p \in Nat
    BY <2>4
  <2> DEFINE q == v \div p
  <2> HIDE DEF q
  <2>7. q = (q % 128) + 128 * (q \div 128)
    BY <2>6, SMT DEF q
  <2>8. f[i] = (q % 128) + 128 * (q \div 128)
    BY <2>2, <2>3, <2>4, <2>5 DEF p, q
  <2> QED  BY <2>7, <2>8 DEF q, p, i
<1>8. size \in S
  <2> HIDE DEF S
  <2>1. size \in Nat
    OBVIOUS
  <2> QED  BY <1>6, <1>7, <2>1, NaturalSteps
<1>9. f[1] = v \div P(1)
  <2>1. (size + 1) - size = 1 /\ size <= size
    OBVIOUS
  <2> QED  BY <1>8, <2>1
<1> QED  BY <1>2, <1>4, <1>9

\* A piece lies in the bytes behind a position.
Holds(bytes, at, piece) ==
  /\ at + Len(piece) <= Len(bytes)
  /\ \A i \in 1 .. Len(piece) : bytes[at + i] = piece[i]

\* Wherever a value is written, in as many groups as hold it or with padding
\* behind them, it is the value that is read there, and as many bytes are taken
\* (write_uleb128_fixed and read_uleb128).
UlebIsRead(bytes, at, v, size) == ReadUleb(bytes, at) = [err |-> Ok, val |-> v, at |-> at + size]

THEOREM UlebReadsBack ==
  ASSUME CrateLimits, NEW v \in Nat, v < ValueLimit, NEW size \in 1 .. 5, v < 128 ^ size,
         NEW bytes \in Seq(Byte), NEW at \in Nat, Holds(bytes, at, UlebFixed(v, size))
  PROVE  UlebIsRead(bytes, at, v, size)
<1> DEFINE groups == UlebFixed(v, size)
<1>1. Groups(v, size, groups) /\ UlebValue(groups) = v
  BY FixedGroups, GroupsCarry
<1> HIDE DEF groups
<1>2. /\ groups \in Seq(Byte) /\ Len(groups) = size /\ size \in Nat
      /\ \A i \in 1 .. size : groups[i] < 128 <=> i = size
      /\ at + size <= Len(bytes)
      /\ \A i \in 1 .. size : bytes[at + i] = groups[i]
  BY <1>1 DEF Groups, Holds, groups
<1>3. \A i \in 1 .. size : i \in 1 .. MaxLeb /\ at + i <= Len(bytes)
  BY <1>2, WireAssumption DEF CrateLimits
<1>4. size \in UlebEnds(bytes, at)
  BY <1>2, <1>3 DEF UlebEnds
<1>5. UlebLength(bytes, at) = size
  <2> DEFINE l == UlebLength(bytes, at)
  <2>1. l \in UlebEnds(bytes, at) /\ l <= size
    BY <1>4, FirstEnd
  <2>2. l \in 1 .. size /\ bytes[at + l] < 128
    BY <2>1, WireAssumption DEF UlebEnds
  <2> HIDE DEF l
  <2>3. l = size
    BY <1>2, <2>2
  <2> QED  BY <2>3 DEF l
<1>6. SubSeq(bytes, at + 1, at + size) = groups
  <2> DEFINE from == at + 1
             to   == at + size
  <2>1. /\ from \in Int /\ to \in Int /\ from <= to /\ to - from + 1 = size
        /\ \A i \in 1 .. size : from + i - 1 = at + i
        /\ \A i \in from .. to : i \in 1 .. Len(bytes)
    BY <1>2
  <2> HIDE DEF from, to
  <2>2. \A i \in from .. to : bytes[i] \in Byte
    BY <2>1
  <2>3. /\ SubSeq(bytes, from, to) \in Seq(Byte)
        /\ Len(SubSeq(bytes, from, to)) = size
        /\ \A i \in 1 .. size : SubSeq(bytes, from, to)[i] = bytes[at + i]
    BY <2>1, <2>2, SubSeqProperties
  <2>4. SubSeq(bytes, from, to) = groups
    BY <1>2, <2>3, SeqEqual
  <2> QED  BY <2>4 DEF from, to
<1>7. ReadUleb(bytes, at) = UlebRead(v, at + size)
  BY <1>1, <1>4, <1>5, <1>6 DEF ReadUleb, UlebOf
<1>8. v \in 0 .. ValueLimit - 1
  BY WireAssumption
<1> QED  BY <1>7, <1>8 DEF UlebRead, UlebIsRead

\* The shortest spelling has room for the value.
LEMMA MinimalRoom ==
  ASSUME CrateLimits, NEW v \in Nat, v < ValueLimit
  PROVE  MinimalLen(v) \in 1 .. 5 /\ v < 128 ^ MinimalLen(v)
<1> DEFINE S == {n \in 1 .. MaxLeb : v < 128 ^ n}
<1>1. 5 \in S
  <2>1. 128 ^ 5 \in Nat
    BY SMT
  <2>2. 5 \in 1 .. MaxLeb
    BY WireAssumption DEF CrateLimits
  <2>3. v < 128 ^ 5
    <3> DEFINE p == 128 ^ 5
    <3> HIDE DEF p
    <3>1. p \in Nat /\ ValueLimit <= p
      BY <2>1 DEF CrateLimits, p
    <3>2. v < p
      BY <3>1, WireAssumption
    <3> QED  BY <3>2 DEF p
  <2> QED  BY <2>2, <2>3
<1>2. S \in SUBSET Nat
  BY WireAssumption
<1>3. \A n \in S : n \in 1 .. MaxLeb /\ v < 128 ^ n
  OBVIOUS
<1> HIDE DEF S
<1>4. Min(S) \in S /\ \A n \in S : Min(S) <= n
  <2>1. \E n \in S : \A m \in S : n <= m
    BY <1>1, <1>2, LeastMember
  <2> QED  BY <2>1 DEF Min
<1>5. MinimalLen(v) = Min(S)
  BY DEF MinimalLen, S
<1> DEFINE m == Min(S)
<1> HIDE DEF m
<1>6. m \in 1 .. 5 /\ v < 128 ^ m
  <2>1. m \in S /\ m <= 5
    BY <1>1, <1>4 DEF m
  <2> QED  BY <1>3, <2>1, WireAssumption
<1> QED  BY <1>5, <1>6 DEF m

----------------------------------------------------------------------------
(* Chains of writes                                                        *)

\* The writers w and last are the ends of a run of the steps.
RunOf(w, steps, n, f) ==
  f[0] = w /\ \A i \in 1 .. n : f[i] = WriteStep(f[i - 1], steps[i])

Leads(w, steps, last) == \E f : RunOf(w, steps, Len(steps), f) /\ last = f[Len(steps)]

WriteTable(w, steps, n, f) ==
  f = [i \in 0 .. n |-> IF i = 0 THEN w ELSE WriteStep(f[i - 1], steps[i])]

LEMMA WriteTableExists ==
  ASSUME NEW w, NEW steps, NEW m \in Nat
  PROVE  \E f : WriteTable(w, steps, m, f)
<1> DEFINE S == {k \in Nat : \E f : WriteTable(w, steps, k, f)}
           Next1(h, i) == IF i = 0 THEN w ELSE WriteStep(h[i - 1], steps[i])
<1>1. 0 \in S
  <2> DEFINE f == [i \in 0 .. 0 |-> w]
  <2>1. f = [i \in 0 .. 0 |-> IF i = 0 THEN w ELSE WriteStep(f[i - 1], steps[i])]
    <3>1. \A i \in 0 .. 0 : i = 0
      OBVIOUS
    <3> HIDE DEF f
    <3>2. [i \in 0 .. 0 |-> w]
            = [i \in 0 .. 0 |-> IF i = 0 THEN w ELSE WriteStep(f[i - 1], steps[i])]
      BY <3>1
    <3> QED  BY <3>2 DEF f
  <2> HIDE DEF f
  <2> QED  BY <2>1 DEF WriteTable
<1>2. ASSUME NEW k \in Nat, k \in S PROVE k + 1 \in S
  <2>1. PICK f : WriteTable(w, steps, k, f)
    BY <1>2
  <2> DEFINE g == [i \in 0 .. (k + 1) |-> Next1(f, i)]
  <2>2. \A i \in 0 .. k : f[i] = Next1(f, i)
    BY <2>1 DEF WriteTable
  <2>3. \A i \in 0 .. k : g[i] = f[i]
    <3> HIDE DEF Next1
    <3>1. \A i \in 0 .. k : i \in 0 .. (k + 1)
      OBVIOUS
    <3> QED  BY <2>2, <3>1
  <2>4. \A i \in 0 .. (k + 1) : Next1(g, i) = Next1(f, i)
    <3> HIDE DEF g
    <3>1. \A i \in 0 .. (k + 1) : i # 0 => i - 1 \in 0 .. k
      OBVIOUS
    <3> QED  BY <2>3, <3>1
  <2>5. g = [i \in 0 .. (k + 1) |-> Next1(g, i)]
    <3> HIDE DEF Next1
    <3> QED  BY <2>4
  <2>6. WriteTable(w, steps, k + 1, g)
    BY <2>5 DEF WriteTable
  <2> QED  BY <2>6
<1> HIDE DEF S
<1>3. Nat \subseteq S
  BY <1>1, <1>2, NaturalSteps
<1> QED  BY <1>3 DEF S

WriterStart == [bytes |-> <<>>, part |-> 0, bits |-> 0, err |-> Ok]

\* The writer is the end of a run from its start.
LEMMA WrittenRuns ==
  ASSUME NEW steps, Len(steps) \in Nat
  PROVE  \E last : Leads(WriterStart, steps, last) /\ Written(steps) = Finished(last)
<1> DEFINE n == Len(steps)
           f == CHOOSE f : WriteTable(WriterStart, steps, n, f)
<1>1. WriteTable(WriterStart, steps, n, f)
  BY WriteTableExists
<1>2. Written(steps) = Finished(f[n])
  BY DEF Written, WriteTable, WriterStart
<1> HIDE DEF f, n
<1>3. RunOf(WriterStart, steps, n, f)
  <2>1. n \in Nat
    BY DEF n
  <2>2. 0 \in 0 .. n /\ \A i \in 1 .. n : i \in 0 .. n /\ i # 0
    BY <2>1
  <2> QED  BY <1>1, <2>2 DEF WriteTable, RunOf
<1> QED  BY <1>2, <1>3 DEF Leads, n

\* A run of two chains is a run of the one and then of the other.
LEMMA RunFallsApart ==
  ASSUME NEW V, NEW s \in Seq(V), NEW t \in Seq(V), NEW w, NEW last, Leads(w, s \o t, last)
  PROVE  \E mid : Leads(w, s, mid) /\ Leads(mid, t, last)
<1> DEFINE n == Len(s)
           m == Len(t)
           c == s \o t
<1>1. /\ n \in Nat /\ m \in Nat /\ Len(c) = n + m
      /\ \A i \in 1 .. n : c[i] = s[i]
      /\ \A i \in 1 .. m : c[n + i] = t[i]
  <2>1. Concatenates(V, s, t)
    BY ConcatMembers
  <2> QED  BY <2>1, Zenon DEF Concatenates
<1>2. PICK f : RunOf(w, c, Len(c), f) /\ last = f[Len(c)]
  BY DEF Leads
<1> HIDE DEF c
<1>3. /\ f[0] = w /\ last = f[n + m]
      /\ \A i \in 1 .. n + m : f[i] = WriteStep(f[i - 1], c[i])
  BY <1>1, <1>2 DEF RunOf
<1>4. Leads(w, s, f[n])
  <2>1. \A i \in 1 .. n : i \in 1 .. n + m
    BY <1>1
  <2>2. RunOf(w, s, n, f)
    BY <1>1, <1>3, <2>1 DEF RunOf
  <2> QED  BY <2>2 DEF Leads
<1>5. Leads(f[n], t, last)
  <2> DEFINE g == [i \in 0 .. m |-> f[n + i]]
  <2>1. g[0] = f[n] /\ g[m] = f[n + m]
    BY <1>1
  <2>2. ASSUME NEW i \in 1 .. m PROVE g[i] = WriteStep(g[i - 1], t[i])
    <3>1. n + i \in 1 .. n + m /\ i \in 0 .. m /\ i - 1 \in 0 .. m /\ n + (i - 1) = (n + i) - 1
      BY <1>1
    <3> HIDE DEF n, m
    <3>2. g[i] = f[n + i] /\ g[i - 1] = f[(n + i) - 1]
      BY <3>1
    <3> QED  BY <1>1, <1>3, <3>1, <3>2, Zenon
  <2> HIDE DEF g
  <2>3. RunOf(f[n], t, m, g)
    BY <2>1, <2>2 DEF RunOf
  <2> QED  BY <1>3, <2>1, <2>3 DEF Leads
<1> QED  BY <1>4, <1>5

\* One step.
LEMMA RunOfOne ==
  ASSUME NEW w, NEW step, NEW last, Leads(w, <<step>>, last)
  PROVE  last = WriteStep(w, step)
<1>1. PICK f : RunOf(w, <<step>>, 1, f) /\ last = f[1]
  BY DEF Leads
<1>2. 1 \in 1 .. 1 /\ 1 - 1 = 0 /\ <<step>>[1] = step
  OBVIOUS
<1> QED  BY <1>1, <1>2 DEF RunOf

LEMMA RunOfNone ==
  ASSUME NEW w, NEW last, Leads(w, <<>>, last)
  PROVE  last = w
<1>1. Len(<<>>) = 0
  OBVIOUS
<1>2. PICK f : RunOf(w, <<>>, 0, f) /\ last = f[0]
  BY <1>1 DEF Leads
<1> QED  BY <1>2 DEF RunOf

\* The first error ends the run.
LEMMA ErrorStays ==
  ASSUME NEW w, NEW steps, Len(steps) \in Nat, NEW last, Leads(w, steps, last), last.err = Ok
  PROVE  w.err = Ok
<1> DEFINE n == Len(steps)
<1>1. PICK f : RunOf(w, steps, n, f) /\ last = f[n]
  BY DEF Leads
<1>2. SUFFICES ASSUME w.err # Ok PROVE FALSE
  OBVIOUS
<1> DEFINE S == {k \in Nat : k <= n => f[k] = w}
<1> HIDE DEF n
<1>3. 0 \in S
  BY <1>1 DEF RunOf
<1>4. ASSUME NEW k \in Nat, k \in S PROVE k + 1 \in S
  <2> SUFFICES ASSUME k + 1 <= n PROVE f[k + 1] = w
    OBVIOUS
  <2>1. f[k] = w /\ k + 1 \in 1 .. n /\ (k + 1) - 1 = k
    <3>1. n \in Nat
      BY DEF n
    <3> QED  BY <1>4, <3>1
  <2>2. f[k + 1] = WriteStep(f[k], steps[k + 1])
    BY <1>1, <2>1 DEF RunOf
  <2> QED  BY <1>2, <2>1, <2>2 DEF WriteStep
<1> HIDE DEF S
<1>5. n \in S
  <2>1. n \in Nat
    BY DEF n
  <2> QED  BY <1>3, <1>4, <2>1, NaturalSteps
<1>6. f[n] = w
  <2>1. n \in Nat
    BY DEF n
  <2> QED  BY <1>5, <2>1 DEF S
<1> QED  BY <1>1, <1>2, <1>6

----------------------------------------------------------------------------
(* What is written on a byte boundary                                      *)

\* A writer on a byte boundary behind these bytes.
Aligned(bytes) == [bytes |-> bytes, part |-> 0, bits |-> 0, err |-> Ok]

\* The steps leave a piece behind any bytes.
Writes(steps, piece) ==
  \A bytes \in Seq(Byte) : \A last :
    Leads(Aligned(bytes), steps, last) => last = Aligned(bytes \o piece)

Kinds == {"refuse", "bits", "signed", "uleb", "span", "text"}

\* What the writers of a frame and of a payload refuse it with.
ErrorKinds ==
  {"ReservedAliasesDefinedValue", "TrimmingFlagNotAllowed", "RedundantCopyNotAllowed", "ObuTooLarge",
   "SubstreamIdMismatch", "NotAnAudioFrame", "AdditionalProfileBelowPrimary"}

\* A step of such a writer.
Steps == [kind : Kinds, n : Nat, v : Nat \cup ErrorKinds \cup Seq(Byte)]

LEMMA NothingWrites == Writes(<<>>, <<>>)
<1>1. ASSUME NEW bytes \in Seq(Byte) PROVE bytes \o <<>> = bytes
  BY ConcatEmptySeq
<1> QED  BY <1>1, RunOfNone, Zenon DEF Writes

LEMMA SpanWrites ==
  ASSUME NEW piece \in Seq(Byte)
  PROVE  Writes(PutSpan(piece), piece)
<1> DEFINE step == [kind |-> "span", n |-> 0, v |-> piece]
<1>1. PutSpan(piece) = <<step>>
  BY DEF PutSpan
<1>2. ASSUME NEW bytes \in Seq(Byte) PROVE WriteStep(Aligned(bytes), step) = Aligned(bytes \o piece)
  BY DEF WriteStep, WriteBytes, Aligned
<1> HIDE DEF step
<1> QED  BY <1>1, <1>2, RunOfOne, Zenon DEF Writes

LEMMA UlebWrites ==
  ASSUME NEW v \in Nat, UlebMinimal(v) \in Seq(Byte)
  PROVE  Writes(PutUleb(v), UlebMinimal(v))
<1> DEFINE step == [kind |-> "uleb", n |-> 0, v |-> v]
<1>1. PutUleb(v) = <<step>>
  BY DEF PutUleb
<1>2. ASSUME NEW bytes \in Seq(Byte)
      PROVE  WriteStep(Aligned(bytes), step) = Aligned(bytes \o UlebMinimal(v))
  BY DEF WriteStep, WriteBytes, Aligned
<1> HIDE DEF step
<1> QED  BY <1>1, <1>2, RunOfOne, Zenon DEF Writes

LEMMA BothWrite ==
  ASSUME NEW s \in Seq(Steps), NEW t \in Seq(Steps), NEW a \in Seq(Byte), NEW b \in Seq(Byte),
         Writes(s, a), Writes(t, b)
  PROVE  Writes(s \o t, a \o b)
<1> SUFFICES ASSUME NEW bytes \in Seq(Byte), NEW last, Leads(Aligned(bytes), s \o t, last)
             PROVE  last = Aligned(bytes \o (a \o b))
  BY DEF Writes
<1>1. PICK mid : Leads(Aligned(bytes), s, mid) /\ Leads(mid, t, last)
  BY RunFallsApart
<1>2. mid = Aligned(bytes \o a) /\ bytes \o a \in Seq(Byte)
  BY <1>1 DEF Writes
<1>3. last = Aligned((bytes \o a) \o b)
  BY <1>1, <1>2 DEF Writes
<1>4. (bytes \o a) \o b = bytes \o (a \o b)
  BY ConcatAssociative
<1> QED  BY <1>3, <1>4

LEMMA WrittenWrites ==
  ASSUME NEW steps \in Seq(Steps), NEW piece \in Seq(Byte), Writes(steps, piece)
  PROVE  Written(steps) = [err |-> Ok, bytes |-> piece]
<1>1. PICK last : Leads(WriterStart, steps, last) /\ Written(steps) = Finished(last)
  BY WrittenRuns
<1>2. WriterStart = Aligned(<<>>) /\ <<>> \in Seq(Byte)
  BY DEF WriterStart, Aligned
<1>3. last = Aligned(<<>> \o piece)
  BY <1>1, <1>2 DEF Writes
<1>4. <<>> \o piece = piece
  BY ConcatEmptySeq
<1> QED  BY <1>1, <1>3, <1>4 DEF Finished, Aligned

\* A condition a chain has passed did not hold.
LEMMA Passed ==
  ASSUME NEW condition, NEW kind, kind # Ok, NEW w, NEW last, last.err = Ok,
         Leads(w, Refuse(condition, kind), last),
         NEW bytes, NEW part, NEW bits, w = [bytes |-> bytes, part |-> part, bits |-> bits, err |-> Ok]
  PROVE  last = w /\ ~ condition
<1>1. CASE condition
  <2> DEFINE step == [kind |-> "refuse", n |-> 0, v |-> kind]
  <2>1. Refuse(condition, kind) = <<step>>
    BY <1>1 DEF Refuse
  <2>2. WriteStep(w, step).err = kind
    BY DEF WriteStep, Refused
  <2> HIDE DEF step
  <2>3. last = WriteStep(w, step)
    BY <2>1, RunOfOne
  <2> QED  BY <2>2, <2>3
<1>2. CASE ~ condition
  <2>1. Refuse(condition, kind) = <<>>
    BY <1>2 DEF Refuse
  <2> QED  BY <1>2, <2>1, RunOfNone
<1> QED  BY <1>1, <1>2

\* A writer with pending bits.
Partial(bytes, part, bits) == [bytes |-> bytes, part |-> part, bits |-> bits, err |-> Ok]

WholeBytes(full, all, bits) == [i \in 1 .. full |-> (all \div 2 ^ (bits - 8 * i)) % 256]

\* What a write of n bits leaves, power being 2 ^ n.
BitsLeave(bytes, part, bits, v, n, power, last) ==
  /\ ~ (v >= power)
  /\ last = Partial(bytes \o WholeBytes((bits + n) \div 8, part * power + v, bits + n),
                    (part * power + v) % 2 ^ ((bits + n) % 8), (bits + n) % 8)

LEMMA BitsFit ==
  ASSUME NEW bytes, NEW part, NEW bits, NEW v, NEW n, NEW power, power = 2 ^ n, ~ (v >= power),
         NEW last, Leads(Partial(bytes, part, bits), Put(v, n), last)
  PROVE  BitsLeave(bytes, part, bits, v, n, power, last)
<1> DEFINE step == [kind |-> "bits", n |-> n, v |-> v]
           w == Partial(bytes, part, bits)
<1>1. Put(v, n) = <<step>>
  BY DEF Put
<1>2. WriteStep(w, step) = WriteUnsigned(w, v, n)
  BY DEF WriteStep, Partial
<1> HIDE DEF step
<1>3. last = WriteUnsigned(w, v, n)
  BY <1>1, <1>2, RunOfOne
<1>4. ~ (v >= power)
  OBVIOUS
<1>5. WriteUnsigned(w, v, n)
        = [w EXCEPT !.bytes = @ \o WholeBytes((bits + n) \div 8, part * power + v, bits + n),
                    !.part = (part * power + v) % 2 ^ ((bits + n) % 8), !.bits = (bits + n) % 8]
  BY <1>4, Zenon DEF WriteUnsigned, WholeBytes, Partial
<1> DEFINE whole == WholeBytes((bits + n) \div 8, part * power + v, bits + n)
           left  == (bits + n) % 8
           rest  == (part * power + v) % 2 ^ ((bits + n) % 8)
<1> HIDE DEF whole, left, rest
<1>6. last = [w EXCEPT !.bytes = @ \o whole, !.part = rest, !.bits = left]
  BY <1>3, <1>5 DEF whole, left, rest
<1>7. last = Partial(bytes \o whole, rest, left)
  BY <1>6 DEF Partial
<1> QED  BY <1>4, <1>7 DEF whole, left, rest, BitsLeave

LEMMA BitsWritten ==
  ASSUME NEW bytes, NEW part, NEW bits, NEW v, NEW n, NEW power, power = 2 ^ n,
         NEW last, last.err = Ok, Leads(Partial(bytes, part, bits), Put(v, n), last)
  PROVE  BitsLeave(bytes, part, bits, v, n, power, last)
<1> DEFINE step == [kind |-> "bits", n |-> n, v |-> v]
           w == Partial(bytes, part, bits)
<1>1. Put(v, n) = <<step>>
  BY DEF Put
<1>2. WriteStep(w, step) = WriteUnsigned(w, v, n)
  BY DEF WriteStep, Partial
<1> HIDE DEF step
<1>3. last = WriteUnsigned(w, v, n)
  BY <1>1, <1>2, RunOfOne
<1>4. ~ (v >= power)
  <2>1. CASE v >= power
    <3>1. last.err = "ValueExceedsWidth"
      BY <1>3, <2>1 DEF WriteUnsigned, Refused, Partial
    <3> QED  BY <3>1 DEF Ok
  <2> QED  BY <2>1
<1> HIDE DEF w
<1> QED  BY <1>4, BitsFit DEF w

LEMMA NoWholeBytes ==
  ASSUME NEW all, NEW bits, NEW bytes \in Seq(Byte)
  PROVE  bytes \o WholeBytes(0, all, bits) = bytes
<1> DEFINE e(i) == (all \div 2 ^ (bits - 8 * i)) % 256
<1>1. WholeBytes(0, all, bits) = [i \in 1 .. 0 |-> e(i)]
  BY DEF WholeBytes
<1> HIDE DEF e
<1>2. [i \in 1 .. 0 |-> e(i)] = <<>>
  OBVIOUS
<1> QED  BY <1>1, <1>2, ConcatEmptySeq

\* The type and the flags of byte 0 are written as one byte.
LEMMA FiveBits ==
  ASSUME NEW bytes \in Seq(Byte), NEW v \in Nat, NEW last, last.err = Ok,
         Leads(Aligned(bytes), Put(v, 5), last)
  PROVE  v \in 0 .. 31 /\ last = Partial(bytes, v, 5)
<1>1. 32 = 2 ^ 5
  BY SMT
<1>2. Aligned(bytes) = Partial(bytes, 0, 0)
  BY DEF Aligned, Partial
<1>3. /\ ~ (v >= 32)
      /\ last = Partial(bytes \o WholeBytes((0 + 5) \div 8, 0 * 32 + v, 0 + 5),
                        (0 * 32 + v) % 2 ^ ((0 + 5) % 8), (0 + 5) % 8)
  <2>1. BitsLeave(bytes, 0, 0, v, 5, 32, last)
    BY <1>1, <1>2, BitsWritten
  <2> QED  BY <2>1 DEF BitsLeave
<1>4. /\ v \in 0 .. 31 /\ 0 * 32 + v = v /\ (0 + 5) \div 8 = 0 /\ (0 + 5) % 8 = 5 /\ v % 32 = v
  BY <1>3, SMT
<1>5. last = Partial(bytes \o WholeBytes(0, v, 0 + 5), v % 32, 5)
  BY <1>1, <1>3, <1>4
<1> QED  BY <1>4, <1>5, NoWholeBytes

LEMMA SixthBit ==
  ASSUME NEW bytes \in Seq(Byte), NEW part \in 0 .. 31, NEW v \in 0 .. 1,
         NEW last, last.err = Ok, Leads(Partial(bytes, part, 5), Put(v, 1), last)
  PROVE  last = Partial(bytes, 2 * part + v, 6)
<1>1. 2 = 2 ^ 1 /\ 64 = 2 ^ 6
  BY SMT
<1>2. last = Partial(bytes \o WholeBytes((5 + 1) \div 8, part * 2 + v, 5 + 1),
                     (part * 2 + v) % 2 ^ ((5 + 1) % 8), (5 + 1) % 8)
  <2>1. BitsLeave(bytes, part, 5, v, 1, 2, last)
    BY <1>1, BitsWritten
  <2> QED  BY <2>1 DEF BitsLeave
<1>3. /\ part * 2 + v = 2 * part + v /\ 5 + 1 = 6 /\ 6 \div 8 = 0 /\ 6 % 8 = 6
      /\ (2 * part + v) % 64 = 2 * part + v
  BY SMT
<1>4. last = Partial(bytes \o WholeBytes(0, 2 * part + v, 6), (2 * part + v) % 64, 6)
  BY <1>1, <1>2, <1>3
<1> QED  BY <1>3, <1>4, NoWholeBytes

LEMMA SeventhBit ==
  ASSUME NEW bytes \in Seq(Byte), NEW part \in 0 .. 63, NEW v \in 0 .. 1,
         NEW last, last.err = Ok, Leads(Partial(bytes, part, 6), Put(v, 1), last)
  PROVE  last = Partial(bytes, 2 * part + v, 7)
<1>1. 2 = 2 ^ 1 /\ 128 = 2 ^ 7
  BY SMT
<1>2. last = Partial(bytes \o WholeBytes((6 + 1) \div 8, part * 2 + v, 6 + 1),
                     (part * 2 + v) % 2 ^ ((6 + 1) % 8), (6 + 1) % 8)
  <2>1. BitsLeave(bytes, part, 6, v, 1, 2, last)
    BY <1>1, BitsWritten
  <2> QED  BY <2>1 DEF BitsLeave
<1>3. /\ part * 2 + v = 2 * part + v /\ 6 + 1 = 7 /\ 7 \div 8 = 0 /\ 7 % 8 = 7
      /\ (2 * part + v) % 128 = 2 * part + v
  BY SMT
<1>4. last = Partial(bytes \o WholeBytes(0, 2 * part + v, 7), (2 * part + v) % 128, 7)
  BY <1>1, <1>2, <1>3
<1> QED  BY <1>3, <1>4, NoWholeBytes

LEMMA LastBit ==
  ASSUME NEW bytes \in Seq(Byte), NEW part \in 0 .. 127, NEW v \in 0 .. 1,
         NEW last, last.err = Ok, Leads(Partial(bytes, part, 7), Put(v, 1), last)
  PROVE  last = Aligned(bytes \o <<2 * part + v>>)
<1>1. 2 = 2 ^ 1 /\ 2 ^ 0 = 1
  BY SMT
<1>2. last = Partial(bytes \o WholeBytes((7 + 1) \div 8, part * 2 + v, 7 + 1),
                     (part * 2 + v) % 2 ^ ((7 + 1) % 8), (7 + 1) % 8)
  <2>1. BitsLeave(bytes, part, 7, v, 1, 2, last)
    BY <1>1, BitsWritten
  <2> QED  BY <2>1 DEF BitsLeave
<1> DEFINE all == 2 * part + v
<1>3. /\ part * 2 + v = all /\ 7 + 1 = 8 /\ 8 \div 8 = 1 /\ 8 % 8 = 0 /\ all % 1 = 0
      /\ (all \div 1) % 256 = all /\ 8 - 8 * 1 = 0
  BY SMT
<1> HIDE DEF all
<1>4. last = Partial(bytes \o WholeBytes(1, all, 8), 0, 0)
  BY <1>1, <1>2, <1>3
<1>5. WholeBytes(1, all, 8) = <<all>>
  <2> DEFINE e(i) == (all \div 2 ^ (8 - 8 * i)) % 256
  <2>1. WholeBytes(1, all, 8) = [i \in 1 .. 1 |-> e(i)]
    BY DEF WholeBytes
  <2>2. e(1) = all
    BY <1>1, <1>3
  <2> HIDE DEF e
  <2>3. \A i \in 1 .. 1 : i = 1
    OBVIOUS
  <2> QED  BY <2>1, <2>2, <2>3
<1> QED  BY <1>4, <1>5 DEF Partial, Aligned, all

----------------------------------------------------------------------------
(* The fields after obu_size                                               *)

\* The values of a u32 as a uleb128 carries them.
Values == 0 .. ValueLimit - 1

\* A reserved obu_type may alias a defined one, which the writer refuses.
ObuTypes == {type \in [raw : Nat, reserved : BOOLEAN] : type.raw \notin DefinedTypes => type.reserved}

Trims == {None} \cup {Some(<<at_end, at_start>>) : at_end \in Values, at_start \in Values}

HeaderExtensions == {None} \cup {Some(bytes) : bytes \in {b \in Seq(Byte) : Len(b) \in Values}}

\* The headers of the model.
Headers ==
  [obu_type : ObuTypes, redundant : BOOLEAN,
   type_specific : {ReservedBit} \cup {Trimming(trim) : trim \in Trims}, extension : HeaderExtensions]

TrimBytes(trim) ==
  IF trim = None THEN <<>> ELSE UlebMinimal(trim[1][1]) \o UlebMinimal(trim[1][2])

ExtensionBytes(extension) ==
  IF extension = None THEN <<>> ELSE UlebMinimal(Len(extension[1])) \o extension[1]

FieldBytes(header) == TrimBytes(header.type_specific.trim) \o ExtensionBytes(header.extension)

\* The shortest spelling of a value and that it carries the value.
Spelled(v) ==
  /\ MinimalLen(v) \in 1 .. 5 /\ v \in Nat /\ v < ValueLimit /\ v < 128 ^ MinimalLen(v)
  /\ UlebMinimal(v) \in Seq(Byte) /\ Len(UlebMinimal(v)) = MinimalLen(v)
  /\ UlebMinimal(v) = UlebFixed(v, MinimalLen(v))

LEMMA ValueSpelled ==
  ASSUME CrateLimits, NEW v \in Values
  PROVE  Spelled(v)
<1>1. v \in Nat /\ v < ValueLimit
  BY WireAssumption DEF Values
<1>2. MinimalLen(v) \in 1 .. 5 /\ v < 128 ^ MinimalLen(v)
  BY <1>1, MinimalRoom
<1>3. Groups(v, MinimalLen(v), UlebFixed(v, MinimalLen(v)))
  <2> DEFINE n == MinimalLen(v)
  <2> HIDE DEF n
  <2>1. n \in 1 .. 5
    BY <1>2 DEF n
  <2>2. Groups(v, n, UlebFixed(v, n))
    BY <1>1, <2>1, FixedGroups
  <2> QED  BY <2>2 DEF n
<1> QED  BY <1>1, <1>2, <1>3 DEF Spelled, UlebMinimal, Groups

LEMMA FlattenOne ==
  ASSUME NEW S, NEW s \in Seq(S)
  PROVE  FlattenSeq(<<s>>) = s
<1>1. <<>> \in Seq(Seq(S)) /\ Append(<<>>, s) = <<s>>
  OBVIOUS
<1>2. FlattenSeq(Append(<<>>, s)) = FlattenSeq(<<>>) \o s
  BY <1>1, FlattenAppend
<1> QED  BY <1>1, <1>2, FlattenEmpty, ConcatEmptySeq

\* What one option is written as.
Wrote(steps, piece) == steps \in Seq(Steps) /\ piece \in Seq(Byte) /\ Writes(steps, piece)

LEMMA NothingWrote == Wrote(<<>>, <<>>)
BY NothingWrites DEF Wrote

LEMMA SpanWrote ==
  ASSUME NEW piece \in Seq(Byte)
  PROVE  Wrote(PutSpan(piece), piece)
<1>1. PutSpan(piece) \in Seq(Steps)
  BY DEF PutSpan, Steps, Kinds
<1> QED  BY <1>1, SpanWrites DEF Wrote

LEMMA UlebWrote ==
  ASSUME CrateLimits, NEW v \in Values
  PROVE  Wrote(PutUleb(v), UlebMinimal(v))
<1>1. v \in Nat /\ UlebMinimal(v) \in Seq(Byte)
  BY ValueSpelled DEF Spelled
<1>2. PutUleb(v) \in Seq(Steps)
  BY <1>1 DEF PutUleb, Steps, Kinds
<1> QED  BY <1>1, <1>2, UlebWrites DEF Wrote

LEMMA BothWrote ==
  ASSUME NEW s, NEW t, NEW a, NEW b, Wrote(s, a), Wrote(t, b)
  PROVE  Wrote(s \o t, a \o b)
<1>1. /\ s \in Seq(Steps) /\ t \in Seq(Steps) /\ a \in Seq(Byte) /\ b \in Seq(Byte)
      /\ Writes(s, a) /\ Writes(t, b)
  BY DEF Wrote
<1>2. Writes(s \o t, a \o b)
  BY <1>1, BothWrite
<1>3. s \o t \in Seq(Steps) /\ a \o b \in Seq(Byte)
  BY <1>1, ConcatProperties
<1> QED  BY <1>2, <1>3 DEF Wrote

LEMMA TrimWrote ==
  ASSUME CrateLimits, NEW trim \in Trims
  PROVE  Wrote(PutEach(trim, PutTrim), TrimBytes(trim))
<1>1. CASE trim = None
  <2>1. PutEach(trim, PutTrim) = FlattenSeq(<<>>)
    BY <1>1 DEF PutEach, None
  <2> QED  BY <1>1, <2>1, FlattenEmpty, NothingWrote DEF TrimBytes
<1>2. CASE trim # None
  <2>1. PICK a \in Values, b \in Values : trim = Some(<<a, b>>)
    BY <1>2 DEF Trims
  <2>2. /\ trim[1][1] = a /\ trim[1][2] = b /\ trim = <<<<a, b>>>>
    BY <2>1 DEF Some
  <2>3. Wrote(PutUleb(a) \o PutUleb(b), UlebMinimal(a) \o UlebMinimal(b))
    BY UlebWrote, BothWrote
  <2>4. PutEach(trim, PutTrim) = PutUleb(a) \o PutUleb(b)
    <3> DEFINE s == PutUleb(a) \o PutUleb(b)
               e == [i \in DOMAIN trim |-> PutTrim(trim[i])]
    <3>1. PutTrim(trim[1]) = s
      BY <2>2 DEF PutTrim
    <3>2. s \in Seq(Steps)
      BY <2>3 DEF Wrote
    <3> HIDE DEF s
    <3>3. DOMAIN trim = {1}
      BY <2>2
    <3>4. e = <<s>>
      BY <3>1, <3>3
    <3>5. PutEach(trim, PutTrim) = FlattenSeq(e)
      BY DEF PutEach
    <3> HIDE DEF e
    <3>6. FlattenSeq(e) = s
      BY <3>2, <3>4, FlattenOne
    <3> QED  BY <3>5, <3>6 DEF s
  <2> QED  BY <1>2, <2>2, <2>3, <2>4 DEF TrimBytes
<1> QED  BY <1>1, <1>2

PutOne(bytes) == PutUleb(Len(bytes)) \o PutSpan(bytes)

LEMMA ExtensionWrote ==
  ASSUME CrateLimits, NEW extension \in HeaderExtensions
  PROVE  Wrote(PutEach(extension, PutOne), ExtensionBytes(extension))
<1>1. CASE extension = None
  <2>1. PutEach(extension, PutOne) = FlattenSeq(<<>>)
    BY <1>1 DEF PutEach, None
  <2> QED  BY <1>1, <2>1, FlattenEmpty, NothingWrote DEF ExtensionBytes
<1>2. CASE extension # None
  <2>1. PICK bytes \in Seq(Byte) : extension = Some(bytes) /\ Len(bytes) \in Values
    BY <1>2 DEF HeaderExtensions
  <2>2. /\ extension[1] = bytes /\ extension = <<bytes>>
    BY <2>1 DEF Some
  <2>3. Wrote(PutOne(bytes), UlebMinimal(Len(bytes)) \o bytes)
    BY <2>1, UlebWrote, SpanWrote, BothWrote DEF PutOne
  <2>4. PutEach(extension, PutOne) = PutOne(bytes)
    <3> DEFINE s == PutOne(bytes)
               e == [i \in DOMAIN extension |-> PutOne(extension[i])]
    <3>1. PutOne(extension[1]) = s
      BY <2>2
    <3>2. s \in Seq(Steps)
      BY <2>3 DEF Wrote
    <3>3. DOMAIN extension = {1}
      BY <2>2
    <3> HIDE DEF s
    <3>4. e = <<s>>
      BY <3>1, <3>3
    <3>5. PutEach(extension, PutOne) = FlattenSeq(e)
      BY DEF PutEach
    <3> HIDE DEF e
    <3>6. FlattenSeq(e) = s
      BY <3>2, <3>4, FlattenOne
    <3> QED  BY <3>5, <3>6 DEF s
  <2> QED  BY <1>2, <2>2, <2>3, <2>4 DEF ExtensionBytes
<1> QED  BY <1>1, <1>2

LEMMA OptionsTyped ==
  ASSUME NEW header \in Headers
  PROVE  header.type_specific.trim \in Trims /\ header.extension \in HeaderExtensions
BY DEF Headers, ReservedBit, Trimming, Trims

LEMMA FieldsWrote ==
  ASSUME CrateLimits, NEW header \in Headers
  PROVE  Wrote(PutFieldsAfterObuSize(header), FieldBytes(header))
<1>1. header.type_specific.trim \in Trims /\ header.extension \in HeaderExtensions
  BY OptionsTyped
<1>2. PutFieldsAfterObuSize(header)
        = PutEach(header.type_specific.trim, PutTrim) \o PutEach(header.extension, PutOne)
  BY DEF PutFieldsAfterObuSize, PutEach, PutOne
<1>3. /\ Wrote(PutEach(header.type_specific.trim, PutTrim), TrimBytes(header.type_specific.trim))
      /\ Wrote(PutEach(header.extension, PutOne), ExtensionBytes(header.extension))
  BY <1>1, TrimWrote, ExtensionWrote
<1> QED  BY <1>2, <1>3, BothWrote DEF FieldBytes

----------------------------------------------------------------------------
(* A frame, written and read back                                          *)

FirstByte(header) ==
  2 * (2 * (2 * header.obu_type.raw + Flag(header.redundant))
       + Flag(header.type_specific.trim # None)) + Flag(header.extension # None)

SizeOf(header, payload) == Len(FieldBytes(header)) + Len(payload)

SizeGroups(header, payload, padding) == MinimalLen(SizeOf(header, payload)) + padding

\* An accepted header, an OBU within the limit, and the bytes of its frame.
FrameIs(header, payload, padding, bytes) ==
  LET groups == SizeGroups(header, payload, padding)
  IN  /\ header.obu_type.raw \in 0 .. 31
      /\ ~ Aliases(DefinedTypes, header.obu_type)
      /\ ~ (header.type_specific.trim # None /\ header.obu_type.raw \notin AudioFrameTypes)
      /\ ~ (SizeOf(header, payload) > SizeCeiling(groups))
      /\ bytes = <<FirstByte(header)>> \o UlebFixed(SizeOf(header, payload), groups)
                   \o FieldBytes(header) \o payload

LEMMA Peeled ==
  ASSUME NEW s \in Seq(Steps), NEW t \in Seq(Steps), NEW w, NEW last, Leads(w, s \o t, last),
         last.err = Ok
  PROVE  \E mid : Leads(w, s, mid) /\ Leads(mid, t, last) /\ mid.err = Ok
<1>1. PICK mid : Leads(w, s, mid) /\ Leads(mid, t, last)
  BY RunFallsApart
<1>2. mid.err = Ok
  BY <1>1, ErrorStays
<1> QED  BY <1>1, <1>2

\* A refusal a chain has passed.
LEMMA RefusalPassed ==
  ASSUME NEW condition, NEW kind \in ErrorKinds, kind # Ok,
         NEW w, w = Aligned(<<>>), NEW last, last.err = Ok, Leads(w, Refuse(condition, kind), last)
  PROVE  last = w /\ ~ condition
<1>1. w = [bytes |-> <<>>, part |-> 0, bits |-> 0, err |-> Ok]
  BY DEF Aligned
<1> QED  BY <1>1, Passed

LEMMA RefusalSteps ==
  ASSUME NEW condition, NEW kind \in ErrorKinds
  PROVE  Refuse(condition, kind) \in Seq(Steps)
<1>1. CASE condition
  <2>1. Refuse(condition, kind) = <<[kind |-> "refuse", n |-> 0, v |-> kind]>>
    BY <1>1 DEF Refuse
  <2>2. [kind |-> "refuse", n |-> 0, v |-> kind] \in Steps
    BY DEF Steps, Kinds
  <2> QED  BY <2>1, <2>2
<1>2. CASE ~ condition
  <2>1. Refuse(condition, kind) = <<>>
    BY <1>2, Zenon DEF Refuse
  <2> QED  BY <2>1
<1> QED  BY <1>1, <1>2, Zenon

\* The refusals of a header.
LEMMA HeaderKinds ==
  /\ "ReservedAliasesDefinedValue" \in ErrorKinds /\ "ReservedAliasesDefinedValue" # Ok
  /\ "TrimmingFlagNotAllowed" \in ErrorKinds /\ "TrimmingFlagNotAllowed" # Ok
  /\ "RedundantCopyNotAllowed" \in ErrorKinds /\ "RedundantCopyNotAllowed" # Ok
  /\ "ObuTooLarge" \in ErrorKinds /\ "ObuTooLarge" # Ok
BY DEF Ok, ErrorKinds

LEMMA HeaderPassed ==
  ASSUME NEW header, NEW w, w = Aligned(<<>>), NEW last, last.err = Ok,
         Leads(w, HeaderRefusal(header), last)
  PROVE  /\ last = w
         /\ ~ Aliases(DefinedTypes, header.obu_type)
         /\ ~ (header.type_specific.trim # None /\ header.obu_type.raw \notin AudioFrameTypes)
<1> DEFINE c1 == Aliases(DefinedTypes, header.obu_type)
           c2 == header.type_specific.trim # None /\ header.obu_type.raw \notin AudioFrameTypes
           c3 == header.redundant /\ header.obu_type.raw \in NeverRedundant
           k1 == "ReservedAliasesDefinedValue"
           k2 == "TrimmingFlagNotAllowed"
           k3 == "RedundantCopyNotAllowed"
           r1 == Refuse(c1, k1)
           r2 == Refuse(c2, k2)
           r3 == Refuse(c3, k3)
<1>1. HeaderRefusal(header) = r1 \o r2 \o r3
  BY DEF HeaderRefusal
<1>k. /\ k1 \in ErrorKinds /\ k1 # Ok /\ k2 \in ErrorKinds /\ k2 # Ok
      /\ k3 \in ErrorKinds /\ k3 # Ok
  BY DEF ErrorKinds, Ok
<1> HIDE DEF c1, c2, c3, k1, k2, k3
<1>2. r1 \in Seq(Steps) /\ r2 \in Seq(Steps) /\ r3 \in Seq(Steps)
  BY <1>k, RefusalSteps, Zenon
<1>3. r1 \o r2 \in Seq(Steps)
  BY <1>2, ConcatProperties
<1> HIDE DEF r1, r2, r3
<1> DEFINE r12 == r1 \o r2
<1>a. Leads(w, r12 \o r3, last) /\ r12 \in Seq(Steps)
  BY <1>1, <1>3
<1>4. PICK b : Leads(w, r12, b) /\ Leads(b, r3, last) /\ b.err = Ok
  <2> HIDE DEF r12
  <2> QED  BY <1>2, <1>3, <1>a, Peeled
<1>5. PICK a : Leads(w, r1, a) /\ Leads(a, r2, b) /\ a.err = Ok
  BY <1>2, <1>4, Peeled
<1>6. a = w /\ ~ c1
  BY <1>5, <1>k, RefusalPassed, Zenon DEF r1
<1>7. b = w /\ ~ c2
  BY <1>4, <1>5, <1>6, <1>k, RefusalPassed, Zenon DEF r2
<1>8. last = w
  BY <1>4, <1>7, <1>k, RefusalPassed, Zenon DEF r3
<1> QED  BY <1>6, <1>7, <1>8, Zenon DEF c1, c2

LEMMA RefusalChain ==
  ASSUME NEW header
  PROVE  HeaderRefusal(header) \in Seq(Steps)
<1> DEFINE r1 == Refuse(Aliases(DefinedTypes, header.obu_type), "ReservedAliasesDefinedValue")
           r2 == Refuse(header.type_specific.trim # None /\ header.obu_type.raw \notin AudioFrameTypes,
                        "TrimmingFlagNotAllowed")
           r3 == Refuse(header.redundant /\ header.obu_type.raw \in NeverRedundant,
                        "RedundantCopyNotAllowed")
<1>1. HeaderRefusal(header) = r1 \o r2 \o r3
  BY DEF HeaderRefusal
<1>2. r1 \in Seq(Steps) /\ r2 \in Seq(Steps) /\ r3 \in Seq(Steps)
  BY RefusalSteps, HeaderKinds, Zenon
<1> HIDE DEF r1, r2, r3
<1> QED  BY <1>1, <1>2, ConcatProperties

LEMMA FlagOfBits ==
  ASSUME NEW condition
  PROVE  /\ Flag(condition) \in 0 .. 1
         /\ condition => Flag(condition) = 1
         /\ ~ condition => Flag(condition) = 0
<1>1. condition => Flag(condition) = 1
  BY Zenon DEF Flag
<1>2. ~ condition => Flag(condition) = 0
  BY Zenon DEF Flag
<1>3. Flag(condition) = 0 \/ Flag(condition) = 1
  BY <1>1, <1>2, Zenon
<1>4. 0 \in 0 .. 1 /\ 1 \in 0 .. 1
  OBVIOUS
<1> QED  BY <1>1, <1>2, <1>3, <1>4, Zenon

LEMMA PutSteps ==
  ASSUME NEW v \in Nat, NEW n \in Nat
  PROVE  Put(v, n) \in Seq(Steps)
BY DEF Put, Steps, Kinds

\* Byte 0 behind the refusals.
LEMMA FirstByteWritten ==
  ASSUME NEW header \in Headers, NEW w, w = Aligned(<<>>), NEW last, last.err = Ok,
         NEW a, a.err = Ok, NEW b, b.err = Ok, NEW c, c.err = Ok,
         Leads(w, Put(header.obu_type.raw, 5), a), Leads(a, Put(Flag(header.redundant), 1), b),
         Leads(b, Put(Flag(header.type_specific.trim # None), 1), c),
         Leads(c, Put(Flag(header.extension # None), 1), last)
  PROVE  /\ header.obu_type.raw \in 0 .. 31 /\ FirstByte(header) \in Byte
         /\ last = Aligned(<<FirstByte(header)>>)
<1> DEFINE raw == header.obu_type.raw
           r   == Flag(header.redundant)
           t   == Flag(header.type_specific.trim # None)
           e   == Flag(header.extension # None)
<1>1. raw \in Nat /\ r \in 0 .. 1 /\ t \in 0 .. 1 /\ e \in 0 .. 1 /\ <<>> \in Seq(Byte)
  <2>1. raw \in Nat /\ <<>> \in Seq(Byte)
    BY DEF Headers, ObuTypes
  <2>2. r \in 0 .. 1 /\ t \in 0 .. 1 /\ e \in 0 .. 1
    BY FlagOfBits, Zenon
  <2> QED  BY <2>1, <2>2
<1>2. FirstByte(header) = 2 * (2 * (2 * raw + r) + t) + e
  BY DEF FirstByte
<1> HIDE DEF raw, r, t, e
<1>3. raw \in 0 .. 31 /\ a = Partial(<<>>, raw, 5)
  BY <1>1, FiveBits DEF raw
<1>4. b = Partial(<<>>, 2 * raw + r, 6)
  <2>2. Leads(Partial(<<>>, raw, 5), Put(r, 1), b)
    BY <1>3 DEF r
  <2> QED  BY <1>1, <1>3, <2>2, SixthBit
<1> DEFINE p == 2 * raw + r
           q == 2 * p + t
<1>5. p \in 0 .. 63
  <2>1. raw \in 0 .. 31
    BY <1>3
  <2> QED  BY <1>1, <2>1
<1> HIDE DEF p
<1>6. c = Partial(<<>>, 2 * p + t, 7)
  <2>2. Leads(Partial(<<>>, p, 6), Put(t, 1), c)
    BY <1>4, <1>5 DEF t, p
  <2> QED  BY <1>1, <1>5, <2>2, SeventhBit
<1>7. q \in 0 .. 127
  BY <1>1, <1>5
<1> HIDE DEF q
<1>8. last = Aligned(<<>> \o <<2 * q + e>>)
  <2>1. Leads(Partial(<<>>, q, 7), Put(e, 1), last)
    BY <1>6, <1>7 DEF e, q
  <2> QED  BY <1>1, <1>7, <2>1, LastBit
<1>9. 2 * q + e \in Byte
  BY <1>1, <1>7 DEF Byte
<1>10. <<>> \o <<2 * q + e>> = <<2 * q + e>>
  BY <1>9, ConcatEmptySeq
<1> QED  BY <1>2, <1>3, <1>8, <1>9, <1>10 DEF p, q, raw

\* What may be framed: obu_size is a u32 and takes five groups at most.
Framable(header, payload, padding) ==
  /\ header \in Headers /\ payload \in Seq(Byte) /\ padding \in Nat
  /\ SizeOf(header, payload) \in Values /\ SizeGroups(header, payload, padding) \in 1 .. 5

LEMMA FrameWritten ==
  ASSUME CrateLimits, NEW header, NEW payload, NEW padding, Framable(header, payload, padding),
         Written(PutObu(header, payload, padding)).err = Ok
  PROVE  FrameIs(header, payload, padding, Written(PutObu(header, payload, padding)).bytes)
<1> DEFINE size   == SizeOf(header, payload)
           groups == SizeGroups(header, payload, padding)
           uleb   == UlebFixed(size, groups)
           fields == FieldBytes(header)
           after  == PutFieldsAfterObuSize(header)
           large  == size > SizeCeiling(groups)
           s1 == HeaderRefusal(header)
           s2 == Refuse(large, "ObuTooLarge")
           s3 == Put(header.obu_type.raw, 5)
           s4 == Put(Flag(header.redundant), 1)
           s5 == Put(Flag(header.type_specific.trim # None), 1)
           s6 == Put(Flag(header.extension # None), 1)
           s7 == PutSpan(uleb)
           s9 == PutSpan(payload)
           t2 == s1 \o s2
           t3 == t2 \o s3
           t4 == t3 \o s4
           t5 == t4 \o s5
           t6 == t5 \o s6
           t7 == t6 \o s7
           t8 == t7 \o after
           t9 == t8 \o s9
<1>1. header \in Headers /\ payload \in Seq(Byte) /\ size \in Nat /\ groups \in 1 .. 5
  BY WireAssumption DEF Framable, Values
<1>2. Wrote(after, fields)
  BY <1>1, FieldsWrote
<1>3. PutObu(header, payload, padding) = t9
  <2>1. Written(after) = [err |-> Ok, bytes |-> fields]
    BY <1>2, WrittenWrites DEF Wrote
  <2>2. Len(Written(after).bytes) + Len(payload) = size
    BY <2>1 DEF SizeOf
  <2> HIDE DEF after
  <2> QED  BY <2>2 DEF PutObu, SizeGroups, after
<1>4. uleb \in Seq(Byte)
  <2> HIDE DEF size, groups
  <2>1. Groups(size, groups, UlebFixed(size, groups))
    BY <1>1, FixedGroups
  <2> QED  BY <2>1 DEF Groups
<1>5. /\ s1 \in Seq(Steps) /\ s2 \in Seq(Steps) /\ s3 \in Seq(Steps) /\ s4 \in Seq(Steps)
      /\ s5 \in Seq(Steps) /\ s6 \in Seq(Steps) /\ s7 \in Seq(Steps) /\ after \in Seq(Steps)
      /\ s9 \in Seq(Steps)
  <2>1. s1 \in Seq(Steps)
    BY RefusalChain
  <2>2. s2 \in Seq(Steps)
    <3> DEFINE k == "ObuTooLarge"
    <3>1. k \in ErrorKinds
      BY DEF ErrorKinds
    <3> HIDE DEF k, large
    <3>2. Refuse(large, k) \in Seq(Steps)
      BY <3>1, RefusalSteps, Zenon
    <3> QED  BY <3>2 DEF k
  <2>3. s3 \in Seq(Steps)
    <3>1. header.obu_type.raw \in Nat
      BY <1>1 DEF Headers, ObuTypes
    <3> QED  BY <3>1, PutSteps
  <2>4. \A condition : Put(Flag(condition), 1) \in Seq(Steps)
    <3>1. ASSUME NEW v \in 0 .. 1 PROVE Put(v, 1) \in Seq(Steps)
      <4>1. v \in Nat /\ 1 \in Nat
        OBVIOUS
      <4> QED  BY <4>1, PutSteps
    <3> QED  BY <3>1, FlagOfBits, Zenon
  <2>5. s4 \in Seq(Steps) /\ s5 \in Seq(Steps) /\ s6 \in Seq(Steps)
    BY <2>4, Zenon
  <2>6. s7 \in Seq(Steps) /\ s9 \in Seq(Steps)
    <3> HIDE DEF uleb
    <3> QED  BY <1>1, <1>4, SpanWrote, Zenon DEF Wrote
  <2>7. after \in Seq(Steps)
    BY <1>2 DEF Wrote
  <2> QED  BY <2>1, <2>2, <2>3, <2>5, <2>6, <2>7, Zenon
<1> HIDE DEF s1, s2, s3, s4, s5, s6, s7, s9, after, uleb, fields, large
<1>6. /\ t2 \in Seq(Steps) /\ t3 \in Seq(Steps) /\ t4 \in Seq(Steps) /\ t5 \in Seq(Steps)
      /\ t6 \in Seq(Steps) /\ t7 \in Seq(Steps) /\ t8 \in Seq(Steps) /\ t9 \in Seq(Steps)
  BY <1>5
<1>7. PICK last : /\ Leads(WriterStart, t9, last) /\ Written(t9) = Finished(last)
                  /\ last.err = Ok
  <2> HIDE DEF t9
  <2>1. PICK last : Leads(WriterStart, t9, last) /\ Written(t9) = Finished(last)
    <3>1. Len(t9) \in Nat
      BY <1>6
    <3> QED  BY <3>1, WrittenRuns
  <2>2. last.err = Ok
    BY <1>3, <2>1 DEF Finished, Ok
  <2> QED  BY <2>1, <2>2
<1>8. WriterStart = Aligned(<<>>)
  BY DEF WriterStart, Aligned
<1>9. PICK w8 : Leads(WriterStart, t8, w8) /\ Leads(w8, s9, last) /\ w8.err = Ok
  <2> HIDE DEF t8
  <2> QED  BY <1>5, <1>6, <1>7, Peeled
<1>10. PICK w7 : Leads(WriterStart, t7, w7) /\ Leads(w7, after, w8) /\ w7.err = Ok
  <2> HIDE DEF t7
  <2> QED  BY <1>5, <1>6, <1>9, Peeled
<1>11. PICK w6 : Leads(WriterStart, t6, w6) /\ Leads(w6, s7, w7) /\ w6.err = Ok
  <2> HIDE DEF t6
  <2> QED  BY <1>5, <1>6, <1>10, Peeled
<1>12. PICK w5 : Leads(WriterStart, t5, w5) /\ Leads(w5, s6, w6) /\ w5.err = Ok
  <2> HIDE DEF t5
  <2> QED  BY <1>5, <1>6, <1>11, Peeled
<1>13. PICK w4 : Leads(WriterStart, t4, w4) /\ Leads(w4, s5, w5) /\ w4.err = Ok
  <2> HIDE DEF t4
  <2> QED  BY <1>5, <1>6, <1>12, Peeled
<1>14. PICK w3 : Leads(WriterStart, t3, w3) /\ Leads(w3, s4, w4) /\ w3.err = Ok
  <2> HIDE DEF t3
  <2> QED  BY <1>5, <1>6, <1>13, Peeled
<1>15. PICK w2 : Leads(WriterStart, t2, w2) /\ Leads(w2, s3, w3) /\ w2.err = Ok
  <2> HIDE DEF t2
  <2> QED  BY <1>5, <1>6, <1>14, Peeled
<1>16. PICK w1 : Leads(WriterStart, s1, w1) /\ Leads(w1, s2, w2) /\ w1.err = Ok
  BY <1>5, <1>6, <1>15, Peeled
<1>17. /\ w1 = WriterStart /\ ~ Aliases(DefinedTypes, header.obu_type)
       /\ ~ (header.type_specific.trim # None /\ header.obu_type.raw \notin AudioFrameTypes)
  <2>1. Leads(WriterStart, HeaderRefusal(header), w1)
    BY <1>16 DEF s1
  <2> QED  BY <1>8, <1>16, <2>1, HeaderPassed, Zenon
<1>18. w2 = Aligned(<<>>) /\ ~ large
  <2> DEFINE k == "ObuTooLarge"
  <2>1. k \in ErrorKinds /\ k # Ok
    BY DEF ErrorKinds, Ok
  <2>2. Leads(w1, Refuse(large, k), w2) /\ w1 = Aligned(<<>>) /\ w2.err = Ok
    BY <1>8, <1>15, <1>16, <1>17, Zenon DEF s2
  <2> HIDE DEF k
  <2>3. w2 = w1 /\ ~ large
    BY <2>1, <2>2, RefusalPassed, Zenon
  <2> QED  BY <2>2, <2>3, Zenon
<1> DEFINE byte == FirstByte(header)
<1>19. header.obu_type.raw \in 0 .. 31 /\ byte \in Byte /\ w6 = Aligned(<<byte>>)
  BY <1>1, <1>11, <1>12, <1>13, <1>14, <1>15, <1>18, FirstByteWritten, Zenon DEF s3, s4, s5, s6
<1> HIDE DEF byte
<1>20. w7 = Aligned(<<byte>> \o uleb) /\ <<byte>> \o uleb \in Seq(Byte)
  <2>1. Writes(s7, uleb) /\ <<byte>> \in Seq(Byte)
    BY <1>4, <1>19, SpanWrites DEF s7
  <2>2. <<byte>> \o uleb \in Seq(Byte)
    BY <1>4, <2>1, ConcatProperties
  <2> QED  BY <1>11, <1>19, <2>1, <2>2 DEF Writes
<1>21. w8 = Aligned(<<byte>> \o uleb \o fields) /\ <<byte>> \o uleb \o fields \in Seq(Byte)
  <2>1. Writes(after, fields) /\ fields \in Seq(Byte)
    BY <1>2 DEF Wrote
  <2>2. <<byte>> \o uleb \o fields \in Seq(Byte)
    BY <1>20, <2>1, ConcatProperties
  <2> QED  BY <1>10, <1>20, <2>1, <2>2 DEF Writes
<1>22. last = Aligned(<<byte>> \o uleb \o fields \o payload)
  <2>1. Writes(s9, payload)
    BY <1>1, SpanWrites DEF s9
  <2> QED  BY <1>9, <1>21, <2>1 DEF Writes
<1>23. Written(PutObu(header, payload, padding)).bytes = <<byte>> \o uleb \o fields \o payload
  BY <1>3, <1>7, <1>22 DEF Finished, Aligned
<1> QED  BY <1>17, <1>18, <1>19, <1>23, Zenon DEF FrameIs, byte, uleb, fields, large

\* The pieces of a piece lie one behind the other.
LEMMA HoldsParts ==
  ASSUME NEW bytes, Len(bytes) \in Nat, NEW at \in Nat, NEW a \in Seq(Byte), NEW b \in Seq(Byte),
         Holds(bytes, at, a \o b)
  PROVE  Holds(bytes, at, a) /\ Holds(bytes, at + Len(a), b)
<1> DEFINE n == Len(a)
           m == Len(b)
           c == a \o b
<1>1. /\ n \in Nat /\ m \in Nat /\ Len(c) = n + m
      /\ \A i \in 1 .. n : c[i] = a[i]
      /\ \A i \in 1 .. m : c[n + i] = b[i]
  <2>1. Concatenates(Byte, a, b)
    BY ConcatMembers
  <2> QED  BY <2>1, Zenon DEF Concatenates
<1>2. Holds(bytes, at, c)
  OBVIOUS
<1> HIDE DEF c
<1>3. at + (n + m) <= Len(bytes) /\ \A i \in 1 .. n + m : bytes[at + i] = c[i]
  BY <1>1, <1>2 DEF Holds
<1> HIDE DEF n, m
<1>4. Holds(bytes, at, a)
  <2>1. \A i \in 1 .. n : i \in 1 .. n + m
    BY <1>1
  <2> QED  BY <1>1, <1>3, <2>1 DEF Holds, n
<1>5. Holds(bytes, at + n, b)
  <2>1. ASSUME NEW i \in 1 .. m PROVE bytes[(at + n) + i] = b[i]
    <3>1. n + i \in 1 .. n + m /\ at + (n + i) = (at + n) + i
      BY <1>1
    <3> QED  BY <1>1, <1>3, <3>1
  <2>2. (at + n) + m <= Len(bytes)
    BY <1>1, <1>3
  <2> QED  BY <2>1, <2>2 DEF Holds, m
<1> QED  BY <1>4, <1>5 DEF n

LEMMA HeldIsCut ==
  ASSUME NEW bytes \in Seq(Byte), NEW at \in Nat, NEW piece \in Seq(Byte), Holds(bytes, at, piece)
  PROVE  SubSeq(bytes, at + 1, at + Len(piece)) = piece
<1> DEFINE from == at + 1
           to   == at + Len(piece)
           n    == Len(piece)
<1>1. /\ n \in Nat /\ at + n <= Len(bytes) /\ to = at + n
      /\ \A i \in 1 .. n : bytes[at + i] = piece[i]
  BY DEF Holds
<1>2. CASE n = 0
  <2>1. piece = <<>> /\ from > to
    BY <1>2
  <2>2. from \in Int /\ to \in Int
    BY <1>1
  <2> QED  BY <2>1, <2>2
<1>3. CASE n # 0
  <2>1. /\ from \in Int /\ to \in Int /\ from <= to /\ to - from + 1 = n
        /\ \A i \in 1 .. n : from + i - 1 = at + i
        /\ \A i \in from .. to : i \in 1 .. Len(bytes)
    BY <1>1, <1>3
  <2> HIDE DEF from, to
  <2>2. \A i \in from .. to : bytes[i] \in Byte
    BY <2>1
  <2>3. /\ SubSeq(bytes, from, to) \in Seq(Byte)
        /\ Len(SubSeq(bytes, from, to)) = n
        /\ \A i \in 1 .. n : SubSeq(bytes, from, to)[i] = bytes[at + i]
    BY <2>1, <2>2, SubSeqProperties
  <2>4. SubSeq(bytes, from, to) = piece
    BY <1>1, <2>3, SeqEqual
  <2> QED  BY <2>4 DEF from, to
<1> QED  BY <1>2, <1>3

\* A piece is still there when the input is cut behind it.
LEMMA HoldsBefore ==
  ASSUME NEW bytes \in Seq(Byte), NEW at \in Nat, NEW piece \in Seq(Byte), Holds(bytes, at, piece),
         NEW limit \in Nat, limit <= Len(bytes), at + Len(piece) <= limit
  PROVE  SubSeq(bytes, 1, limit) \in Seq(Byte) /\ Holds(SubSeq(bytes, 1, limit), at, piece)
<1> DEFINE n == Len(piece)
           window == SubSeq(bytes, 1, limit)
<1>1. n \in Nat /\ at + n <= limit /\ \A i \in 1 .. n : bytes[at + i] = piece[i]
  BY DEF Holds
<1>2. /\ window \in Seq(Byte) /\ Len(window) = limit
      /\ \A i \in 1 .. limit : window[i] = bytes[i]
  OBVIOUS
<1> HIDE DEF window
<1>3. \A i \in 1 .. n : at + i \in 1 .. limit
  BY <1>1
<1> QED  BY <1>1, <1>2, <1>3 DEF Holds, window

----------------------------------------------------------------------------

CursorAt(at, vals) == [err |-> Ok, at |-> at, vals |-> vals]

Vals == Seq(Nat \cup Seq(Byte))

LEMMA ValueRead ==
  ASSUME CrateLimits, NEW v \in Values, NEW window \in Seq(Byte), NEW at \in Nat, NEW vals \in Vals,
         Holds(window, at, UlebMinimal(v))
  PROVE  NextUleb(window, CursorAt(at, vals))
           = CursorAt(at + Len(UlebMinimal(v)), Append(vals, v))
<1> DEFINE n == MinimalLen(v)
<1>1. n \in 1 .. 5 /\ v \in Nat /\ v < ValueLimit /\ v < 128 ^ n /\ UlebMinimal(v) = UlebFixed(v, n)
      /\ Len(UlebMinimal(v)) = n
  BY ValueSpelled DEF Spelled
<1> HIDE DEF n
<1>2. UlebIsRead(window, at, v, n)
  BY <1>1, UlebReadsBack
<1> QED  BY <1>1, <1>2 DEF UlebIsRead, NextUleb, CursorAt

LEMMA PairAppended ==
  ASSUME NEW u, NEW v
  PROVE  Append(<<u>>, v) = <<u, v>>
<1> DEFINE W == {u, v}
<1>1. u \in W /\ v \in W
  OBVIOUS
<1> HIDE DEF W
<1>2. <<u>> \in Seq(W) /\ Len(<<u>>) = 1 /\ <<u>>[1] = u
  BY <1>1
<1>3. /\ Append(<<u>>, v) \in Seq(W) /\ Len(Append(<<u>>, v)) = 2
      /\ Append(<<u>>, v)[1] = u /\ Append(<<u>>, v)[2] = v
  BY <1>1, <1>2
<1>4. <<u, v>> \in Seq(W) /\ Len(<<u, v>>) = 2 /\ <<u, v>>[1] = u /\ <<u, v>>[2] = v
  BY <1>1
<1>5. \A i \in 1 .. 2 : i = 1 \/ i = 2
  OBVIOUS
<1> DEFINE s == Append(<<u>>, v)
           t == <<u, v>>
<1>6. s \in Seq(W) /\ t \in Seq(W) /\ Len(s) = Len(t) /\ \A i \in 1 .. Len(s) : s[i] = t[i]
  BY <1>3, <1>4, <1>5
<1> HIDE DEF s, t
<1>7. s = t
  BY <1>6, SeqEqual
<1> QED  BY <1>7 DEF s, t

\* s is a with e behind it.
Appends(s, a, e, W) ==
  /\ s \in Seq(W) /\ Len(s) = Len(a) + 1 /\ s[Len(a) + 1] = e
  /\ \A i \in 1 .. Len(a) : s[i] = a[i]

LEMMA Appended ==
  ASSUME NEW W, NEW a \in Seq(W), NEW e \in W
  PROVE  Appends(Append(a, e), a, e, W)
  BY AppendProperties DEF Appends

\* A sequence of two with a third behind it.
LEMMA TripleAppended ==
  ASSUME NEW u, NEW v, NEW w
  PROVE  Append(<<u, v>>, w) = <<u, v, w>>
<1> DEFINE W == {u, v, w}
           a == <<u, v>>
           s == Append(a, w)
           t == <<u, v, w>>
<1>1. u \in W /\ v \in W /\ w \in W
  OBVIOUS
<1> HIDE DEF W
<1>2. a \in Seq(W) /\ Len(a) = 2 /\ a[1] = u /\ a[2] = v
  BY <1>1
<1>3. t \in Seq(W) /\ Len(t) = 3 /\ t[1] = u /\ t[2] = v /\ t[3] = w
  BY <1>1
<1> HIDE DEF a, t
<1>4. s \in Seq(W) /\ Len(s) = 3 /\ s[1] = a[1] /\ s[2] = a[2] /\ s[3] = w
  <2>1. Appends(s, a, w, W)
    BY <1>1, <1>2, Appended, Zenon
  <2> HIDE DEF s
  <2> QED  BY <1>2, <2>1 DEF Appends
<1>5. \A i \in 1 .. 3 : i = 1 \/ i = 2 \/ i = 3
  OBVIOUS
<1> HIDE DEF s
<1>6. Len(s) = Len(t) /\ \A i \in 1 .. Len(s) : s[i] = t[i]
  BY <1>2, <1>3, <1>4, <1>5
<1>7. s = t
  BY <1>3, <1>4, <1>6, SeqEqual
<1> QED  BY <1>7 DEF s, t, a

LEMMA QuadAppended ==
  ASSUME NEW u, NEW v, NEW w, NEW x
  PROVE  Append(<<u, v, w>>, x) = <<u, v, w, x>>
<1> DEFINE W == {u, v, w, x}
           a == <<u, v, w>>
           s == Append(a, x)
           t == <<u, v, w, x>>
<1>1. u \in W /\ v \in W /\ w \in W /\ x \in W
  OBVIOUS
<1> HIDE DEF W
<1>2. a \in Seq(W) /\ Len(a) = 3 /\ a[1] = u /\ a[2] = v /\ a[3] = w
  BY <1>1
<1>3. t \in Seq(W) /\ Len(t) = 4 /\ t[1] = u /\ t[2] = v /\ t[3] = w /\ t[4] = x
  BY <1>1
<1> HIDE DEF a, t
<1>4. s \in Seq(W) /\ Len(s) = 4 /\ s[1] = a[1] /\ s[2] = a[2] /\ s[3] = a[3] /\ s[4] = x
  <2>1. Appends(s, a, x, W)
    BY <1>1, <1>2, Appended, Zenon
  <2> HIDE DEF s
  <2> QED  BY <1>2, <2>1 DEF Appends
<1>5. \A i \in 1 .. 4 : i = 1 \/ i = 2 \/ i = 3 \/ i = 4
  OBVIOUS
<1> HIDE DEF s
<1>6. Len(s) = Len(t) /\ \A i \in 1 .. Len(s) : s[i] = t[i]
  BY <1>2, <1>3, <1>4, <1>5
<1>7. s = t
  BY <1>3, <1>4, <1>6, SeqEqual
<1> QED  BY <1>7 DEF s, t, a

LEMMA TrimRead ==
  ASSUME CrateLimits, NEW a \in Values, NEW b \in Values, NEW window \in Seq(Byte), NEW at \in Nat,
         Holds(window, at, UlebMinimal(a) \o UlebMinimal(b))
  PROVE  ReadTrim(window, CursorAt(at, <<>>))
           = CursorAt(at + Len(UlebMinimal(a) \o UlebMinimal(b)), <<a, b>>)
<1> DEFINE x == UlebMinimal(a)
           y == UlebMinimal(b)
<1>1. x \in Seq(Byte) /\ y \in Seq(Byte) /\ a \in Nat /\ b \in Nat
  BY ValueSpelled DEF Spelled
<1>2. Holds(window, at, x) /\ Holds(window, at + Len(x), y)
  <2>1. Len(window) \in Nat /\ Holds(window, at, x \o y)
    OBVIOUS
  <2> HIDE DEF x, y
  <2> QED  BY <1>1, <2>1, HoldsParts
<1>3. Len(x) \in Nat /\ Len(y) \in Nat /\ Len(x \o y) = Len(x) + Len(y)
  <2> HIDE DEF x, y
  <2> QED  BY <1>1
<1>4. NextUleb(window, CursorAt(at, <<>>)) = CursorAt(at + Len(x), <<a>>)
  <2>1. <<>> \in Vals /\ Append(<<>>, a) = <<a>>
    BY DEF Vals
  <2> QED  BY <1>2, <2>1, ValueRead
<1>5. NextUleb(window, CursorAt(at + Len(x), <<a>>)) = CursorAt((at + Len(x)) + Len(y), <<a, b>>)
  <2>1. <<a>> \in Vals
    <3> DEFINE W == Nat \cup Seq(Byte)
    <3>1. a \in W
      BY <1>1
    <3> HIDE DEF W
    <3>2. <<a>> \in Seq(W)
      BY <3>1
    <3> QED  BY <3>2 DEF Vals, W
  <2>2. Append(<<a>>, b) = <<a, b>>
    BY PairAppended
  <2>3. at + Len(x) \in Nat
    <3> HIDE DEF x
    <3> QED  BY <1>3
  <2> QED  BY <1>2, <2>1, <2>2, <2>3, ValueRead
<1>6. (at + Len(x)) + Len(y) = at + Len(x \o y)
  BY <1>3
<1> QED  BY <1>4, <1>5, <1>6, Zenon DEF ReadTrim

LEMMA ExtensionRead ==
  ASSUME CrateLimits, NEW e \in Seq(Byte), Len(e) \in Values, NEW window \in Seq(Byte),
         NEW at \in Nat, NEW vals \in Vals, Holds(window, at, UlebMinimal(Len(e)) \o e)
  PROVE  ReadExtension(window, CursorAt(at, vals))
           = CursorAt(at + Len(UlebMinimal(Len(e)) \o e), Append(Append(vals, Len(e)), e))
<1> DEFINE n == Len(e)
           x == UlebMinimal(n)
           p == at + Len(x)
           more == Append(vals, n)
<1>1. x \in Seq(Byte) /\ n \in Nat
  BY ValueSpelled DEF Spelled
<1>2. Holds(window, at, x) /\ Holds(window, p, e)
  <2>1. Len(window) \in Nat /\ Holds(window, at, x \o e)
    OBVIOUS
  <2> HIDE DEF x
  <2> QED  BY <1>1, <2>1, HoldsParts
<1>3. Len(x) \in Nat /\ Len(x \o e) = Len(x) + n
  <2> HIDE DEF x
  <2> QED  BY <1>1
<1>4. NextUleb(window, CursorAt(at, vals)) = CursorAt(p, more)
  BY <1>2, ValueRead
<1>5. more[Len(more)] = n
  <2> HIDE DEF n
  <2> QED  BY <1>1 DEF Vals
<1>6. p \in Nat /\ p + n <= Len(window) /\ SubSeq(window, p + 1, p + n) = e
  <2>1. p \in Nat
    BY <1>3
  <2> HIDE DEF p
  <2>2. SubSeq(window, p + 1, p + Len(e)) = e
    BY <1>2, <2>1, HeldIsCut
  <2>3. p + Len(e) <= Len(window)
    BY <1>2 DEF Holds
  <2> QED  BY <2>1, <2>2, <2>3
<1>7. TakeSized(window, CursorAt(p, more)) = CursorAt(p + n, Append(more, e))
  <2> HIDE DEF p, more, n
  <2>1. ~ (p + n > Len(window))
    BY <1>1, <1>6
  <2> QED  BY <1>5, <1>6, <2>1 DEF TakeSized, CursorAt
<1>8. p + n = at + Len(x \o e)
  BY <1>1, <1>3
<1> QED  BY <1>4, <1>7, <1>8 DEF ReadExtension

LEMMA TrimPair ==
  ASSUME NEW trim \in Trims, trim # None
  PROVE  \E a \in Values, b \in Values : trim = Some(<<a, b>>)
BY DEF Trims

\* The fields are read as they were written, and end where they do.
FieldsAre(header, fields, at) ==
  \E vals : /\ fields = CursorAt(at + Len(FieldBytes(header)), vals)
            /\ header.type_specific.trim # None =>
                 header.type_specific.trim = Some(<<vals[1], vals[2]>>)
            /\ header.extension # None => header.extension = Some(vals[Len(vals)])

LEMMA FieldsRead ==
  ASSUME CrateLimits, NEW header \in Headers, NEW window \in Seq(Byte), NEW at \in Nat,
         Holds(window, at, FieldBytes(header))
  PROVE  FieldsAre(header, ReadFieldsAfterObuSize(window, at, header.type_specific.trim # None,
                                                  header.extension # None), at)
<1> DEFINE trim  == header.type_specific.trim
           extension == header.extension
           x == TrimBytes(trim)
           y == ExtensionBytes(extension)
           trimmed  == trim # None
           extended == extension # None
           start == CursorAt(at, <<>>)
           first == IF trimmed THEN ReadTrim(window, start) ELSE start
           last  == IF extended THEN ReadExtension(window, first) ELSE first
<1>1. trim \in Trims /\ extension \in HeaderExtensions
  BY OptionsTyped
<1>2. x \in Seq(Byte) /\ y \in Seq(Byte) /\ FieldBytes(header) = x \o y
  BY <1>1, TrimWrote, ExtensionWrote DEF FieldBytes, Wrote
<1>3. ReadFieldsAfterObuSize(window, at, trimmed, extended) = last
  BY Zenon DEF ReadFieldsAfterObuSize, CursorAt
<1>4. Holds(window, at, x) /\ Holds(window, at + Len(x), y)
  <2>1. Holds(window, at, x \o y) /\ Len(window) \in Nat
    BY <1>2
  <2> HIDE DEF x, y
  <2> QED  BY <1>2, <2>1, HoldsParts
<1>5. Len(x) \in Nat /\ Len(y) \in Nat /\ at + Len(x) \in Nat
      /\ Len(FieldBytes(header)) = Len(x) + Len(y)
  <2> HIDE DEF x, y
  <2> QED  BY <1>2
<1>6. \E vals \in Vals : /\ first = CursorAt(at + Len(x), vals)
                         /\ trimmed => /\ trim = Some(<<vals[1], vals[2]>>) /\ Len(vals) = 2
  <2>1. CASE trimmed
    <3>1. PICK a \in Values, b \in Values : trim = Some(<<a, b>>)
      <4>1. trim # None
        BY <2>1
      <4> HIDE DEF trim
      <4> QED  BY <1>1, <4>1, TrimPair
    <3>2. trim[1][1] = a /\ trim[1][2] = b
      BY <3>1 DEF Some
    <3>3. x = UlebMinimal(a) \o UlebMinimal(b)
      BY <2>1, <3>2 DEF TrimBytes
    <3>4. first = CursorAt(at + Len(x), <<a, b>>)
      <4>1. Holds(window, at, UlebMinimal(a) \o UlebMinimal(b))
        BY <1>4, <3>3
      <4>2. ReadTrim(window, start) = CursorAt(at + Len(UlebMinimal(a) \o UlebMinimal(b)), <<a, b>>)
        BY <4>1, TrimRead
      <4> QED  BY <2>1, <3>3, <4>2
    <3>5. <<a, b>> \in Vals
      <4> DEFINE W == Nat \cup Seq(Byte)
      <4>1. a \in W /\ b \in W
        BY WireAssumption DEF Values
      <4> HIDE DEF W
      <4>2. <<a, b>> \in Seq(W)
        BY <4>1
      <4> QED  BY <4>2 DEF Vals, W
    <3>6. <<a, b>>[1] = a /\ <<a, b>>[2] = b /\ Len(<<a, b>>) = 2
      OBVIOUS
    <3> HIDE DEF first, x, trimmed, trim
    <3> QED  BY <3>1, <3>4, <3>5, <3>6
  <2>2. CASE ~ trimmed
    <3>1. x = <<>> /\ first = start
      BY <2>2 DEF TrimBytes
    <3>2. at + Len(x) = at
      BY <3>1
    <3>3. <<>> \in Vals
      BY DEF Vals
    <3> HIDE DEF first, x, trimmed
    <3> QED  BY <2>2, <3>1, <3>2, <3>3
  <2> QED  BY <2>1, <2>2
<1>7. PICK vals \in Vals : /\ first = CursorAt(at + Len(x), vals)
                           /\ trimmed => trim = Some(<<vals[1], vals[2]>>) /\ Len(vals) = 2
  BY <1>6
<1>8. CASE extended
  <2>1. PICK e \in Seq(Byte) : extension = Some(e) /\ Len(e) \in Values
    BY <1>1, <1>8 DEF HeaderExtensions
  <2>2. extension[1] = e
    BY <2>1 DEF Some
  <2>3. y = UlebMinimal(Len(e)) \o e
    BY <1>8, <2>2 DEF ExtensionBytes
  <2> DEFINE more == Append(Append(vals, Len(e)), e)
  <2>4. last = CursorAt((at + Len(x)) + Len(y), more)
    <3>1. Holds(window, at + Len(x), UlebMinimal(Len(e)) \o e)
      BY <1>4, <2>3
    <3> HIDE DEF x, y
    <3>2. ReadExtension(window, CursorAt(at + Len(x), vals)) = CursorAt((at + Len(x)) + Len(y), more)
      BY <1>5, <2>1, <2>3, <3>1, ExtensionRead
    <3> HIDE DEF first, extended
    <3> QED  BY <1>7, <1>8, <3>2
  <2>5. (at + Len(x)) + Len(y) = at + Len(FieldBytes(header))
    <3> HIDE DEF x, y
    <3> QED  BY <1>5
  <2>6. more[Len(more)] = e /\ (Len(vals) = 2 => more[1] = vals[1] /\ more[2] = vals[2])
    <3> DEFINE W == Nat \cup Seq(Byte)
    <3>1. vals \in Seq(W) /\ Len(e) \in W /\ e \in W
      BY DEF Vals
    <3> HIDE DEF W
    <3> QED  BY <3>1
  <2>7. trimmed => trim = Some(<<more[1], more[2]>>)
    BY <1>7, <2>6
  <2> HIDE DEF more, last, trim, trimmed, extension, extended
  <2>8. FieldsAre(header, last, at)
    BY <2>1, <2>4, <2>5, <2>6, <2>7 DEF FieldsAre, trim, trimmed, extension
  <2> QED  BY <1>3, <2>8 DEF trim, trimmed, extension, extended
<1>9. CASE ~ extended
  <2>1. y = <<>> /\ last = first
    BY <1>9 DEF ExtensionBytes
  <2>2. at + Len(x) = at + Len(FieldBytes(header))
    <3>1. Len(y) = 0
      BY <2>1
    <3> HIDE DEF x, y
    <3> QED  BY <1>5, <3>1
  <2> HIDE DEF last, first, x, y
  <2>3. FieldsAre(header, last, at)
    BY <1>7, <1>9, <2>1, <2>2 DEF FieldsAre
  <2> QED  BY <1>3, <2>3
<1> QED  BY <1>8, <1>9

\* Byte 0 falls apart again.
ByteParts(byte, raw, r, t, e) ==
  byte \div 8 = raw /\ (byte \div 4) % 2 = r /\ (byte \div 2) % 2 = t /\ byte % 2 = e

LEMMA FirstByteRead ==
  ASSUME NEW raw \in 0 .. 31, NEW r \in 0 .. 1, NEW t \in 0 .. 1, NEW e \in 0 .. 1
  PROVE  LET byte == 2 * (2 * (2 * raw + r) + t) + e
         IN  byte \in Byte /\ ByteParts(byte, raw, r, t, e)
<1> DEFINE byte == 2 * (2 * (2 * raw + r) + t) + e
<1>1. byte = 8 * raw + 4 * r + 2 * t + e
  BY SMT
<1>2. (r = 0 \/ r = 1) /\ (t = 0 \/ t = 1) /\ (e = 0 \/ e = 1) /\ raw \in Nat
  BY SMT
<1> HIDE DEF byte
<1>3. byte \div 8 = raw /\ (byte \div 4) % 2 = r /\ (byte \div 2) % 2 = t /\ byte % 2 = e
  BY <1>1, <1>2, SMT
<1>4. byte \in Byte
  BY <1>1, SMT DEF Byte
<1> QED  BY <1>3, <1>4 DEF ByteParts, byte

LEMMA PowersRise ==
  ASSUME NEW m \in 1 .. 5, NEW n \in 1 .. 5, m <= n
  PROVE  128 ^ m \in Nat /\ 128 ^ n \in Nat /\ 128 ^ m <= 128 ^ n
<1> DEFINE P(k) == 128 ^ k
<1>1. ASSUME NEW k \in 1 .. 4 PROVE P(k) \in Nat /\ P(k + 1) \in Nat /\ P(k) <= P(k + 1)
  <2>1. k \in 0 .. 4
    OBVIOUS
  <2>2. 128 ^ k \in Nat \ {0} /\ 128 ^ (k + 1) \in Nat \ {0} /\ 128 ^ (k + 1) = 128 * 128 ^ k
    BY <2>1, Powers
  <2> DEFINE x == 128 ^ k
             y == 128 ^ (k + 1)
  <2> HIDE DEF x, y
  <2>3. x \in Nat /\ y \in Nat /\ y = 128 * x
    BY <2>2 DEF x, y
  <2>4. x <= y
    BY <2>3
  <2> QED  BY <2>3, <2>4 DEF x, y
<1> HIDE DEF P
<1>2. /\ P(1) \in Nat /\ P(2) \in Nat /\ P(3) \in Nat /\ P(4) \in Nat /\ P(5) \in Nat
      /\ P(1) <= P(2) /\ P(2) <= P(3) /\ P(3) <= P(4) /\ P(4) <= P(5)
  <2>1. /\ 1 \in 1 .. 4 /\ 2 \in 1 .. 4 /\ 3 \in 1 .. 4 /\ 4 \in 1 .. 4
        /\ 1 + 1 = 2 /\ 2 + 1 = 3 /\ 3 + 1 = 4 /\ 4 + 1 = 5
    OBVIOUS
  <2> QED  BY <1>1, <2>1
<1>3. /\ m = 1 \/ m = 2 \/ m = 3 \/ m = 4 \/ m = 5
      /\ n = 1 \/ n = 2 \/ n = 3 \/ n = 4 \/ n = 5
  BY SMT
<1>4. P(m) \in Nat /\ P(n) \in Nat /\ P(m) <= P(n)
  BY <1>2, <1>3, SMT
<1> QED  BY <1>4 DEF P

\* A frame that was written is read wherever it lies, as it was written.
FrameIsRead(bytes, at, header, payload, next) ==
  ReadFrame(bytes, at) = [err |-> Ok, header |-> AsRead(header), next |-> next, payload |-> payload]

LEMMA HeaderIsRead ==
  ASSUME NEW header \in Headers, header.obu_type.raw \in 0 .. 31,
         ~ Aliases(DefinedTypes, header.obu_type), NEW vals,
         header.type_specific.trim # None =>
           header.type_specific.trim = Some(<<vals[1], vals[2]>>),
         header.extension # None => header.extension = Some(vals[Len(vals)])
  PROVE  /\ Trimmed(FirstByte(header)) = (header.type_specific.trim # None)
         /\ Extended(FirstByte(header)) = (header.extension # None)
         /\ HeaderOf(FirstByte(header), vals) = AsRead(header)
<1> DEFINE byte == FirstByte(header)
           raw == header.obu_type.raw
           r   == Flag(header.redundant)
           t   == Flag(header.type_specific.trim # None)
           e   == Flag(header.extension # None)
<1>1. r \in 0 .. 1 /\ t \in 0 .. 1 /\ e \in 0 .. 1 /\ raw \in 0 .. 31
  BY FlagOfBits, Zenon
<1>2. byte = 2 * (2 * (2 * raw + r) + t) + e
  BY DEF FirstByte
<1>3. byte \div 8 = raw /\ (byte \div 4) % 2 = r /\ (byte \div 2) % 2 = t /\ byte % 2 = e
  <2> HIDE DEF byte, raw, r, t, e
  <2>1. ByteParts(byte, raw, r, t, e)
    BY <1>1, <1>2, FirstByteRead, Zenon
  <2> QED  BY <2>1 DEF ByteParts
<1>4. /\ (r = 1) = header.redundant
      /\ (t = 1) = (header.type_specific.trim # None)
      /\ (e = 1) = (header.extension # None)
  <2>1. header.redundant \in BOOLEAN
    BY DEF Headers
  <2> QED  BY <2>1 DEF Flag
<1> HIDE DEF byte, r, t, e
<1>5. /\ Redundant(byte) = header.redundant
      /\ Trimmed(byte) = (header.type_specific.trim # None)
      /\ Extended(byte) = (header.extension # None)
  BY <1>3, <1>4, Zenon DEF Redundant, Trimmed, Extended
<1>6. Enum(DefinedTypes, raw) = header.obu_type
  <2> DEFINE type == header.obu_type
  <2>1. /\ type = [raw |-> type.raw, reserved |-> type.reserved] /\ type.reserved \in BOOLEAN
        /\ type.raw \notin DefinedTypes => type.reserved
    BY DEF Headers, ObuTypes
  <2>2. ~ (type.reserved /\ type.raw \in DefinedTypes)
    BY DEF Aliases
  <2> HIDE DEF type
  <2>3. type.reserved = (type.raw \notin DefinedTypes)
    BY <2>1, <2>2
  <2>4. Enum(DefinedTypes, type.raw) = type
    BY <2>1, <2>3, Zenon DEF Enum
  <2> QED  BY <2>4 DEF type
<1> DEFINE specific == IF Trimmed(byte) THEN Trimming(Some(<<vals[1], vals[2]>>))
                       ELSE IF raw \in AudioFrameTypes THEN Trimming(None) ELSE ReservedBit
           wanted == IF header.type_specific.trim # None THEN header.type_specific
                     ELSE IF raw \in AudioFrameTypes THEN Trimming(None) ELSE ReservedBit
<1>7. specific = wanted
  <2>1. CASE header.type_specific.trim # None
    <3>1. header.type_specific = Trimming(header.type_specific.trim)
      <4>1. header.type_specific \in {ReservedBit} \cup {Trimming(trim) : trim \in Trims}
        BY DEF Headers
      <4>2. header.type_specific # ReservedBit
        BY <2>1 DEF ReservedBit
      <4>3. PICK trim \in Trims : header.type_specific = Trimming(trim)
        BY <4>1, <4>2
      <4>4. header.type_specific.trim = trim
        BY <4>3 DEF Trimming
      <4> QED  BY <4>3, <4>4
    <3>2. specific = Trimming(Some(<<vals[1], vals[2]>>))
      BY <1>5, <2>1
    <3> QED  BY <2>1, <3>1, <3>2
  <2>2. CASE ~ (header.type_specific.trim # None)
    BY <1>5, <2>2
  <2> QED  BY <2>1, <2>2
<1>8. When(Extended(byte), vals[Len(vals)]) = header.extension
  <2>1. CASE header.extension # None
    BY <1>5, <2>1 DEF When
  <2>2. CASE header.extension = None
    BY <1>5, <2>2 DEF When
  <2> QED  BY <2>1, <2>2
<1>9. HeaderOf(byte, vals)
        = [obu_type |-> header.obu_type, redundant |-> header.redundant,
           type_specific |-> specific, extension |-> header.extension]
  <2>1. HeaderOf(byte, vals)
          = [obu_type |-> Enum(DefinedTypes, raw), redundant |-> Redundant(byte),
             type_specific |-> specific, extension |-> When(Extended(byte), vals[Len(vals)])]
    BY <1>3, Zenon DEF HeaderOf
  <2> HIDE DEF specific
  <2> QED  BY <1>5, <1>6, <1>8, <2>1, Zenon
<1>10. AsRead(header)
         = [obu_type |-> header.obu_type, redundant |-> header.redundant,
            type_specific |-> wanted, extension |-> header.extension]
  <2>1. header = [obu_type |-> header.obu_type, redundant |-> header.redundant,
                  type_specific |-> header.type_specific, extension |-> header.extension]
    BY DEF Headers
  <2>2. AsRead(header) = [header EXCEPT !.type_specific = wanted]
    BY Zenon DEF AsRead
  <2> HIDE DEF wanted
  <2> QED  BY <2>1, <2>2
<1> HIDE DEF specific, wanted
<1>11. HeaderOf(byte, vals) = AsRead(header)
  BY <1>7, <1>9, <1>10
<1> QED  BY <1>5, <1>11, Zenon DEF byte

\* Every frame that is written is read back: wherever its bytes lie in a
\* stream, whatever lies around them and however many groups obu_size was
\* given, the reader takes the header, the payload and not one byte more
\* (write_obu_with_header and read_obu_with_header).
THEOREM FrameReadsBack ==
  ASSUME CrateLimits, NEW header, NEW payload, NEW padding, Framable(header, payload, padding),
         NEW own, own = Written(PutObu(header, payload, padding)), own.err = Ok,
         NEW bytes \in Seq(Byte), NEW at \in Nat, Holds(bytes, at, own.bytes)
  PROVE  FrameIsRead(bytes, at, header, payload, at + Len(own.bytes))
<1> DEFINE size   == SizeOf(header, payload)
           groups == SizeGroups(header, payload, padding)
           uleb   == UlebFixed(size, groups)
           fields == FieldBytes(header)
           byte   == FirstByte(header)
           behind == at + 1 + groups
           past   == behind + Len(fields)
           end    == behind + size
<1>1. /\ header \in Headers /\ payload \in Seq(Byte) /\ padding \in Nat
      /\ size \in Nat /\ size < ValueLimit /\ groups \in 1 .. 5
      /\ size \in Values
  BY WireAssumption DEF Framable, Values
<1>2. FrameIs(header, payload, padding, own.bytes)
  BY FrameWritten
<1>3. /\ header.obu_type.raw \in 0 .. 31 /\ ~ Aliases(DefinedTypes, header.obu_type)
      /\ ~ (size > SizeCeiling(groups))
      /\ own.bytes = <<byte>> \o uleb \o fields \o payload
  BY <1>2, Zenon DEF FrameIs
<1>4. Len(fields) + Len(payload) = size
  BY DEF SizeOf
<1>5. fields \in Seq(Byte)
  BY <1>1, FieldsWrote DEF Wrote
<1>6. uleb \in Seq(Byte) /\ Len(uleb) = groups
  <2> HIDE DEF size, groups
  <2>1. Groups(size, groups, UlebFixed(size, groups))
    BY <1>1, FixedGroups
  <2> QED  BY <2>1 DEF Groups
<1>7. byte \in Byte
  <2>1. /\ Flag(header.redundant) \in 0 .. 1 /\ Flag(header.type_specific.trim # None) \in 0 .. 1
        /\ Flag(header.extension # None) \in 0 .. 1
    BY FlagOfBits, Zenon
  <2> QED  BY <1>3, <2>1, FirstByteRead, Zenon DEF FirstByte
<1>8. size < 128 ^ groups
  <2> DEFINE m == MinimalLen(size)
  <2>1. m \in 1 .. 5 /\ size < 128 ^ m
    BY <1>1, ValueSpelled DEF Spelled
  <2>2. groups = m + padding
    BY DEF SizeGroups
  <2> HIDE DEF m, size, groups
  <2>3. m <= groups
    BY <1>1, <2>1, <2>2
  <2>4. 128 ^ m \in Nat /\ 128 ^ groups \in Nat /\ 128 ^ m <= 128 ^ groups
    BY <1>1, <2>1, <2>3, PowersRise
  <2> DEFINE x == 128 ^ m
             y == 128 ^ groups
  <2> HIDE DEF x, y
  <2>5. x \in Nat /\ y \in Nat /\ x <= y /\ size < x
    BY <2>1, <2>4 DEF x, y
  <2>6. size < y
    BY <1>1, <2>5
  <2> QED  BY <2>6 DEF y
<1> HIDE DEF size, groups, uleb, fields, byte
<1>9. /\ Holds(bytes, at, <<byte>>) /\ Holds(bytes, at + 1, uleb)
      /\ Holds(bytes, behind, fields) /\ Holds(bytes, past, payload)
  <2>1. <<byte>> \in Seq(Byte) /\ Len(<<byte>>) = 1
    BY <1>7
  <2> DEFINE a == <<byte>> \o uleb
             b == a \o fields
  <2>2. a \in Seq(Byte) /\ Len(a) = 1 + groups
    BY <1>1, <1>6, <2>1
  <2>3. b \in Seq(Byte) /\ Len(b) = (1 + groups) + Len(fields)
    <3> HIDE DEF a
    <3> QED  BY <1>1, <1>5, <2>2
  <2>4. Holds(bytes, at, b \o payload) /\ Len(bytes) \in Nat
    BY <1>3
  <2>5. Holds(bytes, at, b) /\ Holds(bytes, at + Len(b), payload)
    <3> HIDE DEF b
    <3> QED  BY <1>1, <2>3, <2>4, HoldsParts
  <2>6. Holds(bytes, at, a) /\ Holds(bytes, at + Len(a), fields)
    <3> HIDE DEF a
    <3> QED  BY <1>5, <2>2, <2>4, <2>5, HoldsParts
  <2>7. Holds(bytes, at, <<byte>>) /\ Holds(bytes, at + Len(<<byte>>), uleb)
    BY <1>6, <2>1, <2>4, <2>6, HoldsParts
  <2>8. Len(fields) \in Nat
    BY <1>5
  <2>9. at + Len(<<byte>>) = at + 1 /\ at + Len(a) = behind /\ at + Len(b) = past
    <3> HIDE DEF a, b
    <3> QED  BY <1>1, <2>1, <2>2, <2>3, <2>8
  <2> QED  BY <2>5, <2>6, <2>7, <2>9
<1>10. Len(fields) \in Nat /\ Len(payload) \in Nat /\ behind \in Nat /\ past \in Nat /\ end \in Nat
       /\ past + Len(payload) = end /\ past <= end /\ end <= Len(bytes) /\ Len(bytes) \in Nat
       /\ Len(own.bytes) = 1 + groups + size
  <2>1. Len(fields) \in Nat /\ Len(payload) \in Nat
    BY <1>1, <1>5
  <2>2. past + Len(payload) <= Len(bytes)
    BY <1>9 DEF Holds
  <2>3. <<byte>> \o uleb \in Seq(Byte) /\ Len(<<byte>> \o uleb) = 1 + groups
    BY <1>1, <1>6, <1>7
  <2> DEFINE a == <<byte>> \o uleb
             b == a \o fields
  <2>4. b \in Seq(Byte) /\ Len(b) = (1 + groups) + Len(fields)
    <3> HIDE DEF a
    <3> QED  BY <1>1, <1>5, <2>3 DEF a
  <2>5. Len(b \o payload) = (1 + groups) + Len(fields) + Len(payload)
    <3> HIDE DEF b
    <3> QED  BY <1>1, <2>4
  <2>6. Len(own.bytes) = (1 + groups) + Len(fields) + Len(payload)
    BY <1>3, <2>5
  <2> DEFINE f == Len(fields)
             l == Len(payload)
             n == Len(bytes)
  <2>7. f \in Nat /\ l \in Nat /\ n \in Nat /\ f + l = size /\ groups \in Nat /\ size \in Nat
        /\ past + l <= n /\ past = behind + f
    BY <1>1, <1>4, <2>1, <2>2
  <2> HIDE DEF f, l, n
  <2>8. /\ behind \in Nat /\ past \in Nat /\ end \in Nat /\ past + l = end /\ past <= end
        /\ end <= n /\ (1 + groups) + f + l = 1 + groups + size
    BY <2>7
  <2> QED  BY <2>1, <2>6, <2>7, <2>8 DEF f, l, n
<1>11. at < Len(bytes) /\ bytes[at + 1] = byte
  <2>1. 1 \in 1 .. Len(<<byte>>) /\ Len(<<byte>>) = 1 /\ <<byte>>[1] = byte
    OBVIOUS
  <2> QED  BY <1>9, <1>10, <2>1 DEF Holds
<1>12. ReadUleb(bytes, at + 1) = [err |-> Ok, val |-> size, at |-> behind]
  <2> DEFINE p == at + 1
  <2>1. p \in Nat /\ Holds(bytes, p, UlebFixed(size, groups))
    BY <1>9 DEF uleb
  <2> HIDE DEF p
  <2>2. UlebIsRead(bytes, p, size, groups)
    BY <1>1, <1>8, <2>1, UlebReadsBack
  <2> QED  BY <2>2 DEF UlebIsRead, p
<1> DEFINE window == SubSeq(bytes, 1, end)
<1>13. window \in Seq(Byte) /\ Holds(window, behind, fields)
  <2> HIDE DEF behind, end, past
  <2>1. behind + Len(fields) <= end
    BY <1>10 DEF past
  <2> QED  BY <1>5, <1>9, <1>10, <2>1, HoldsBefore
<1> DEFINE read == ReadFieldsAfterObuSize(window, behind, header.type_specific.trim # None,
                                          header.extension # None)
<1> HIDE DEF window
<1>14. PICK vals : /\ read = CursorAt(past, vals)
                   /\ header.type_specific.trim # None =>
                        header.type_specific.trim = Some(<<vals[1], vals[2]>>)
                   /\ header.extension # None => header.extension = Some(vals[Len(vals)])
  <2> HIDE DEF behind
  <2>1. FieldsAre(header, read, behind)
    BY <1>1, <1>10, <1>13, FieldsRead DEF fields
  <2> HIDE DEF read
  <2> QED  BY <2>1, Zenon DEF FieldsAre, fields
<1>15. /\ Trimmed(byte) = (header.type_specific.trim # None)
       /\ Extended(byte) = (header.extension # None)
       /\ HeaderOf(byte, vals) = AsRead(header)
  BY <1>1, <1>3, <1>14, HeaderIsRead DEF byte
<1> DEFINE h == [err |-> Ok, obu_size |-> size, after |-> behind, at |-> past,
                 header |-> AsRead(header)]
<1>16. ReadObuHeader(bytes, at) = h
  <2> DEFINE u == [err |-> Ok, val |-> size, at |-> behind]
  <2>1. u.err = Ok /\ u.val = size /\ u.at = behind
    OBVIOUS
  <2>2. u.at - at - 1 = groups /\ u.at + u.val = end
    BY <1>1, <2>1
  <2> HIDE DEF u, end, behind
  <2>3. ReadObuHeader(bytes, at) = HeaderBehindSize(bytes, at, u)
    BY <1>10, <1>11, <1>12 DEF ReadObuHeader, u
  <2>4. HeaderBehindSize(bytes, at, u)
          = HeaderParts(byte, u, TRUE,
                        ReadFieldsAfterObuSize(SubSeq(bytes, 1, end), u.at, Trimmed(byte),
                                               Extended(byte)))
    BY <1>3, <1>10, <1>11, <2>1, <2>2 DEF HeaderBehindSize
  <2>5. HeaderBehindSize(bytes, at, u) = HeaderParts(byte, u, TRUE, read)
    BY <1>15, <2>1, <2>4, Zenon DEF window
  <2> HIDE DEF read, past
  <2>6. HeaderParts(byte, u, TRUE, CursorAt(past, vals)) = h
    BY <1>15, <2>1 DEF HeaderParts, CursorAt
  <2> QED  BY <1>14, <2>3, <2>5, <2>6
<1>17. FrameBehindHeader(bytes, h)
         = [err |-> Ok, header |-> AsRead(header), next |-> end,
            payload |-> SubSeq(bytes, past + 1, end)]
  <2>1. /\ h.err = Ok /\ h.obu_size = size /\ h.after = behind /\ h.at = past
        /\ h.header = AsRead(header)
    OBVIOUS
  <2> HIDE DEF h
  <2>2. h.obu_size - (h.at - h.after) = Len(payload)
    <3> DEFINE f == Len(fields)
               l == Len(payload)
    <3>1. f \in Nat /\ l \in Nat /\ f + l = size /\ past = behind + f
      BY <1>4, <1>10
    <3> HIDE DEF f, l, past, behind
    <3>2. behind \in Nat
      BY <1>10
    <3>3. size - (past - behind) = l
      BY <1>1, <3>1, <3>2
    <3> QED  BY <2>1, <3>3 DEF l
  <2>3. h.at + Len(payload) = end /\ ~ (Len(payload) < 0) /\ ~ (end > Len(bytes))
    BY <1>10, <2>1
  <2> HIDE DEF past, end
  <2> QED  BY <2>1, <2>2, <2>3 DEF FrameBehindHeader
<1>18. SubSeq(bytes, past + 1, end) = payload
  <2> HIDE DEF past, end
  <2> QED  BY <1>1, <1>9, <1>10, HeldIsCut
<1>19. end = at + Len(own.bytes)
  BY <1>1, <1>10
<1> QED  BY <1>16, <1>17, <1>18, <1>19 DEF ReadFrame, FrameIsRead

----------------------------------------------------------------------------
(* An OBU that reads back by itself                                        *)

\* A uleb128 that is whole in a beginning of the input is the one of the input.
LEMMA UlebGrows ==
  ASSUME NEW whole \in Seq(Byte), NEW at \in Nat, NEW end \in 0 .. Len(whole),
         ReadUleb(SubSeq(whole, 1, end), at).err = Ok
  PROVE  ReadUleb(whole, at) = ReadUleb(SubSeq(whole, 1, end), at)
<1> DEFINE own == SubSeq(whole, 1, end)
           n   == UlebLength(own, at)
<1>1. own \in Seq(Byte) /\ Len(own) = end /\ \A i \in 1 .. end : own[i] = whole[i]
  OBVIOUS
<1>2. ReadUleb(own, at).err = Ok
  OBVIOUS
<1> HIDE DEF own
<1>3. UlebEnds(own, at) # {}
  BY <1>2 DEF ReadUleb, NoUleb, Ok
<1>4. /\ n \in Nat \ {0} /\ n \in 1 .. MaxLeb /\ at + n <= end /\ own[at + n] < 128
      /\ \A m \in UlebEnds(own, at) : n <= m
  <2>1. n \in UlebEnds(own, at) /\ \A m \in UlebEnds(own, at) : n <= m
    BY <1>3, FirstEnd
  <2> HIDE DEF n
  <2>2. n \in 1 .. MaxLeb /\ at + n <= end /\ own[at + n] < 128
    BY <1>1, <2>1 DEF UlebEnds
  <2>3. n \in Nat \ {0}
    BY <2>2, WireAssumption
  <2> QED  BY <2>1, <2>2, <2>3
<1> HIDE DEF n
<1>5. ASSUME NEW m \in 1 .. MaxLeb, at + m <= end
      PROVE  own[at + m] = whole[at + m]
  BY <1>1, <1>5, WireAssumption
<1>6. n \in UlebEnds(whole, at)
  BY <1>1, <1>4, <1>5 DEF UlebEnds
<1>7. ASSUME NEW m \in UlebEnds(whole, at) PROVE n <= m
  <2>1. m \in 1 .. MaxLeb /\ m \in Nat /\ whole[at + m] < 128
    BY WireAssumption DEF UlebEnds
  <2>2. CASE at + m <= end
    BY <1>1, <1>4, <1>5, <2>1, <2>2 DEF UlebEnds
  <2>3. CASE ~ (at + m <= end)
    BY <1>4, <2>1, <2>3
  <2> QED  BY <2>2, <2>3
<1>8. UlebLength(whole, at) = n
  <2>1. UlebLength(whole, at) \in UlebEnds(whole, at) /\ UlebLength(whole, at) <= n
    BY <1>6, FirstEnd
  <2>2. UlebLength(whole, at) \in Nat
    BY <2>1, WireAssumption DEF UlebEnds
  <2> QED  BY <1>4, <1>7, <2>1, <2>2
<1>9. SubSeq(own, at + 1, at + n) = SubSeq(whole, at + 1, at + n)
  BY <1>1, <1>4
<1>10. ReadUleb(whole, at) = UlebOf(whole, at, n)
  BY <1>6, <1>8 DEF ReadUleb
<1>11. ReadUleb(own, at) = UlebOf(own, at, n)
  BY <1>3 DEF ReadUleb, n
<1> QED  BY <1>9, <1>10, <1>11 DEF UlebOf, own

\* One that the end of the input cuts is the end of the input.
LEMMA UlebCut ==
  ASSUME NEW whole \in Seq(Byte), NEW at \in Nat, NEW end \in 0 .. Len(whole),
         ReadUleb(whole, at).err = Ok, ReadUleb(whole, at).at > end
  PROVE  ReadUleb(SubSeq(whole, 1, end), at).err = "UnexpectedEndOfInput"
<1> DEFINE own == SubSeq(whole, 1, end)
           n   == UlebLength(whole, at)
<1>1. own \in Seq(Byte) /\ Len(own) = end /\ \A i \in 1 .. end : own[i] = whole[i]
  OBVIOUS
<1> HIDE DEF own
<1>2. UlebEnds(whole, at) # {}
  BY DEF ReadUleb, NoUleb, Ok
<1>3. n \in Nat /\ n <= MaxLeb /\ \A m \in UlebEnds(whole, at) : n <= m
  BY <1>2, FirstEnd, WireAssumption
<1>4. at + n > end
  <2>1. ReadUleb(whole, at).at = at + n
    BY <1>2 DEF ReadUleb, UlebOf, UlebRead
  <2> QED  BY <2>1
<1> HIDE DEF n
<1>5. UlebEnds(own, at) = {}
  <2> SUFFICES ASSUME NEW m \in UlebEnds(own, at) PROVE FALSE
    OBVIOUS
  <2>1. m \in 1 .. MaxLeb /\ m \in Nat \ {0} /\ at + m <= end /\ own[at + m] < 128
    BY <1>1, WireAssumption DEF UlebEnds
  <2>2. at + m \in 1 .. end
    BY <2>1
  <2>3. m \in UlebEnds(whole, at)
    BY <1>1, <2>1, <2>2 DEF UlebEnds
  <2> QED  BY <1>3, <1>4, <2>1, <2>3
<1>6. ~ (at + MaxLeb <= Len(own))
  BY <1>1, <1>3, <1>4, WireAssumption
<1> QED  BY <1>5, <1>6 DEF ReadUleb, NoUleb, own

\* own, read by itself under the definitions known, is obu and nothing else.
ReadsAs(own, known, obu) ==
  /\ own \in Seq(Byte) /\ own # <<>>
  /\ ReadObu(own, 0, known) = [err |-> Ok, next |-> Len(own), obu |-> obu]

\* Inside a stream an OBU is read at a position, and behind it the next one.
ObuIsRead(bytes, at, next, known, obu) ==
  /\ at \in 0 .. Len(bytes) - 1 /\ next \in at + 1 .. Len(bytes)
  /\ ReadFrame(bytes, at).err = Ok /\ ReadFrame(bytes, at).next = next
  /\ WalkStep(bytes, at) = [err |-> Ok, next |-> next]
  /\ ReadObu(bytes, at, known) = [err |-> Ok, next |-> next, obu |-> obu]

\* What a frame says of the OBU in it.
LEMMA ObuFromFrame ==
  ASSUME NEW bytes, NEW at, NEW known, ReadObu(bytes, at, known).err = Ok
  PROVE  /\ ReadFrame(bytes, at).err = Ok
         /\ ReadObu(bytes, at, known) = [err |-> Ok, next |-> ReadFrame(bytes, at).next,
                                         obu |-> ReadObu(bytes, at, known).obu]
<1> DEFINE frame == ReadFrame(bytes, at)
           read  == ReadPayload(Cursor(frame.payload), frame.header, known)
           left  == Read(read[2], <<Rest>>)
<1>1. frame.err = Ok
  <2>1. CASE frame.err # Ok
    BY <2>1 DEF ReadObu, ObuInFrame, Fails, Ok
  <2> QED  BY <2>1
<1>2. ReadObu(bytes, at, known) = ObuOf(read[1], frame, left)
  BY <1>1 DEF ReadObu, ObuInFrame, ObuOfPayload
<1> HIDE DEF frame, read, left
<1>3. left.err = Ok
  <2>1. CASE left.err # Ok
    BY <1>2, <2>1 DEF ObuOf, Fails, Ok
  <2> QED  BY <2>1
<1> DEFINE kind == read[1]
           obu == [kind |-> kind, header |-> frame.header,
                   payload |-> IF kind \in Descriptors THEN [left.out[1] EXCEPT !.trailing = <<>>]
                               ELSE left.out[1],
                   trailing |-> IF kind \in Descriptors THEN left.out[1].trailing
                                ELSE left.out[2]]
<1>4. ReadObu(bytes, at, known) = [err |-> Ok, next |-> frame.next, obu |-> obu]
  BY <1>2, <1>3 DEF ObuOf
<1> HIDE DEF obu
<1> QED  BY <1>1, <1>4 DEF frame

\* Wherever the bytes of an OBU are, it is read as it is by itself.
LEMMA ReadWhereHeld ==
  ASSUME NEW own, NEW known, NEW obu, ReadsAs(own, known, obu),
         NEW bytes \in Seq(Byte), NEW at \in Nat, Holds(bytes, at, own)
  PROVE  ObuIsRead(bytes, at, at + Len(own), known, obu)
<1> DEFINE n    == Len(own)
           end  == at + n
           upto == SubSeq(bytes, 1, end)
           alone == ReadFrame(own, 0)
<1>1. /\ own \in Seq(Byte) /\ n \in Nat \ {0} /\ end <= Len(bytes) /\ end \in Nat
      /\ end = at + n /\ at \in 0 .. Len(bytes) - 1 /\ 0 \in 0 .. Len(own) - 1
      /\ end \in 0 .. Len(bytes) /\ end \in at + 1 .. Len(bytes)
  BY DEF ReadsAs, Holds
<1>2. ReadObu(own, 0, known) = [err |-> Ok, next |-> n, obu |-> obu]
  BY DEF ReadsAs
<1>3. alone.err = Ok /\ alone.next = n
  <2>1. ReadObu(own, 0, known).err = Ok /\ ReadObu(own, 0, known).next = n
    BY <1>2
  <2> DEFINE read == ReadObu(own, 0, known)
  <2>2. alone.err = Ok /\ read = [err |-> Ok, next |-> alone.next, obu |-> read.obu]
    BY <2>1, ObuFromFrame
  <2> HIDE DEF alone, n
  <2>3. read.next = alone.next
    BY <2>2
  <2> QED  BY <2>1, <2>2, <2>3
<1>4. WalkStep(own, 0).err = Ok /\ WalkStep(own, 0).next = n
  BY <1>1, <1>3, FrameIsWalked DEF FrameOnWalk
<1> HIDE DEF alone
<1> DEFINE size == ReadUleb(own, 1)
<1>5. /\ Sized(own, 0) /\ size.err = Ok /\ size.at + size.val = n
      /\ size.at \in Nat /\ size.val \in Nat /\ ~ (size.val > SizeCeiling(size.at - 1))
  <2>1. CASE ~ Sized(own, 0)
    <3>1. WalkStep(own, 0).err # Ok
      BY <1>1, <2>1, NotSized DEF Fails, Ok
    <3> QED  BY <1>4, <3>1
  <2>2. CASE Sized(own, 0)
    <3>1. Size(own, 0) = size
      BY DEF Size
    <3>2. WalkStep(own, 0) = IF End(own, 0) <= Len(own) THEN [err |-> Ok, next |-> End(own, 0)]
                             ELSE Fails("TruncatedObu")
      BY <1>1, <2>2, SizedWalk
    <3> DEFINE e == End(own, 0)
    <3> HIDE DEF e
    <3>3. e = n
      BY <1>4, <3>2 DEF Fails, Ok, e
    <3>4. size.at \in Nat /\ size.val \in Nat
      BY <1>1, <2>2, <3>1, SizeInside
    <3>5. size.at - 0 - 1 = size.at - 1
      BY <3>4
    <3> QED  BY <2>2, <3>1, <3>3, <3>4, <3>5 DEF Sized, End, e
  <2> QED  BY <2>1, <2>2
<1>6. upto \in Seq(Byte) /\ Holds(upto, at, own) /\ Len(upto) = end
  BY <1>1, HoldsBefore
<1> HIDE DEF upto
<1>7. Ending(upto, own, at)
  BY <1>1, <1>6 DEF Ending, Holds
<1>8. ReadUleb(bytes, at + 1) = [err |-> Ok, val |-> size.val, at |-> at + size.at]
  <2>1. ReadUleb(upto, at + 1) = [err |-> size.err, val |-> size.val, at |-> at + size.at]
    <3>1. upto \in Seq(Byte) /\ own \in Seq(Byte) /\ at \in Nat /\ 1 \in Nat
      BY <1>1, <1>6
    <3> QED  BY ONLY <1>7, <3>1, UlebInEnding, Zenon DEF size
  <2>2. ReadUleb(upto, at + 1).err = Ok
    BY <1>5, <2>1
  <2>3. ReadUleb(bytes, at + 1) = ReadUleb(upto, at + 1)
    BY <1>1, <2>2, UlebGrows DEF upto
  <2> QED  BY <1>5, <2>1, <2>3
<1> HIDE DEF size
<1>9. WalkStep(bytes, at) = [err |-> Ok, next |-> end]
  <2> DEFINE behind == size.at
             value  == size.val
             there  == [err |-> Ok, val |-> value, at |-> at + behind]
  <2>0. /\ behind \in Nat /\ value \in Nat /\ behind + value = n
        /\ ~ (value > SizeCeiling(behind - 1))
    BY <1>5
  <2>1. /\ there.err = Ok /\ there.at + there.val = end
        /\ there.at - at - 1 = behind - 1 /\ there.val = value
    <3>1. (at + behind) + value = end /\ (at + behind) - at - 1 = behind - 1
      <4> HIDE DEF behind, value, n
      <4> QED  BY <1>1, <2>0
    <3> HIDE DEF behind, value, end
    <3> QED  BY <3>1
  <2>2. WalkStep(bytes, at) = WalkBehindSize(bytes, at, there)
    BY <1>8 DEF WalkStep
  <2> HIDE DEF there, end, n, behind, value
  <2> QED  BY <1>1, <2>0, <2>1, <2>2 DEF WalkBehindSize, Ok
<1>10. OwnBytes(own, bytes, at)
  <2>1. SubSeq(bytes, at + 1, at + Len(own)) = own
    BY <1>1, HeldIsCut
  <2>2. WalkStep(bytes, at).next = end
    BY <1>9
  <2> QED  BY <2>1, <2>2 DEF OwnBytes
<1>11. WalkStep(bytes, at).err = Ok
  BY <1>9
<1>12. ReadObu(bytes, at, known).err = Ok /\ ReadObu(bytes, at, known).obu = obu
  <2>1. SameObu(ReadObu(bytes, at, known), ReadObu(own, 0, known))
    BY <1>1, <1>10, <1>11, OwnBytesSuffice
  <2> HIDE DEF n
  <2>2. ReadObu(own, 0, known).err = Ok /\ ReadObu(own, 0, known).obu = obu
    BY <1>2
  <2> QED  BY <2>1, <2>2 DEF SameObu
<1> DEFINE read == ReadObu(bytes, at, known)
<1>13. ReadFrame(bytes, at).err = Ok
       /\ read = [err |-> Ok, next |-> ReadFrame(bytes, at).next, obu |-> read.obu]
  BY <1>12, ObuFromFrame
<1>14. ReadFrame(bytes, at).next = end
  BY <1>1, <1>9, <1>13, FrameIsWalked DEF FrameOnWalk
<1> HIDE DEF end, n
<1>15. read = [err |-> Ok, next |-> end, obu |-> obu]
  BY <1>12, <1>13, <1>14
<1> QED  BY <1>1, <1>9, <1>13, <1>14, <1>15, Zenon DEF ObuIsRead, end, n, read

----------------------------------------------------------------------------
(* An OBU that the end of the input cuts                                   *)

\* What is read of a shorter input: the same, or its end.
Curtailed(there, here) == there = here \/ there.err = "UnexpectedEndOfInput"

LEMMA NextUlebCut ==
  ASSUME NEW window \in Seq(Byte), NEW end \in 0 .. Len(window),
         NEW c, Sound(window, c), NextUleb(window, c).err = Ok,
         NEW d, Curtailed(d, c)
  PROVE  c.err = Ok /\ Curtailed(NextUleb(SubSeq(window, 1, end), d), NextUleb(window, c))
<1> DEFINE own == SubSeq(window, 1, end)
<1>1. c.err = Ok
  BY DEF NextUleb
<1>2. c.at \in Nat
  BY DEF Sound
<1>3. NextUleb(window, c) = [err |-> ReadUleb(window, c.at).err, at |-> ReadUleb(window, c.at).at,
                             vals |-> Append(c.vals, ReadUleb(window, c.at).val)]
  BY <1>1 DEF NextUleb
<1>4. ReadUleb(window, c.at).err = Ok
  <2> DEFINE leb == ReadUleb(window, c.at)
  <2> HIDE DEF leb
  <2> QED  BY <1>3 DEF leb
<1>5. CASE d.err = "UnexpectedEndOfInput"
  BY <1>5 DEF NextUleb, Curtailed, Ok
<1>6. CASE d = c
  <2>1. NextUleb(own, d) = [err |-> ReadUleb(own, c.at).err, at |-> ReadUleb(own, c.at).at,
                            vals |-> Append(c.vals, ReadUleb(own, c.at).val)]
    BY <1>1, <1>6 DEF NextUleb
  <2>2. CASE ReadUleb(window, c.at).at <= end
    <3>1. ReadUleb(own, c.at) = ReadUleb(window, c.at)
      BY <1>2, <1>4, <2>2, UlebInBeginning
    <3> HIDE DEF own
    <3> QED  BY <1>1, <1>3, <2>1, <3>1 DEF Curtailed, own
  <2>3. CASE ~ (ReadUleb(window, c.at).at <= end)
    <3>1. ReadUleb(window, c.at).at \in Nat
      BY <1>2, UlebInside
    <3>2. ReadUleb(window, c.at).at > end
      BY <2>3, <3>1
    <3>3. ReadUleb(own, c.at).err = "UnexpectedEndOfInput"
      BY <1>2, <1>4, <3>2, UlebCut
    <3>4. NextUleb(own, d).err = "UnexpectedEndOfInput"
      BY <2>1, <3>3
    <3> QED  BY <1>1, <3>4 DEF Curtailed
  <2> QED  BY <2>2, <2>3
<1> QED  BY <1>5, <1>6 DEF Curtailed

LEMMA TakeSizedCut ==
  ASSUME NEW window \in Seq(Byte), NEW end \in 0 .. Len(window),
         NEW c, Sound(window, c), Len(c.vals) > 0, TakeSized(window, c).err = Ok,
         NEW d, Curtailed(d, c)
  PROVE  Curtailed(TakeSized(SubSeq(window, 1, end), d), TakeSized(window, c))
<1> DEFINE own  == SubSeq(window, 1, end)
           stop == c.at + c.vals[Len(c.vals)]
<1>1. c.err = Ok
  BY DEF TakeSized
<1>2. c.at \in Nat /\ stop \in Nat /\ stop >= c.at
  BY <1>1 DEF Sound
<1> HIDE DEF stop
<1>3. own \in Seq(Byte) /\ Len(own) = end /\ \A i \in 1 .. end : own[i] = window[i]
  OBVIOUS
<1> HIDE DEF own
<1>4. ~ (stop > Len(window))
  <2>1. CASE stop > Len(window)
    <3>1. TakeSized(window, c) = [c EXCEPT !.err = "UnexpectedEndOfInput"]
      BY <1>1, <2>1 DEF TakeSized, stop
    <3> QED  BY <3>1 DEF Sound, Ok
  <2> QED  BY <2>1
<1>5. TakeSized(window, c)
        = [c EXCEPT !.at = stop, !.vals = Append(@, SubSeq(window, c.at + 1, stop))]
  BY <1>1, <1>4 DEF TakeSized, stop
<1>6. CASE d.err = "UnexpectedEndOfInput"
  BY <1>6 DEF TakeSized, Curtailed, Ok
<1>7. CASE d = c /\ stop > end
  <2>1. TakeSized(own, d) = [c EXCEPT !.err = "UnexpectedEndOfInput"]
    BY <1>1, <1>3, <1>7 DEF TakeSized, stop
  <2>2. TakeSized(own, d).err = "UnexpectedEndOfInput"
    BY <2>1 DEF Sound
  <2> QED  BY <2>2 DEF Curtailed, own
<1>8. CASE d = c /\ ~ (stop > end)
  <2>1. SubSeq(own, c.at + 1, stop) = SubSeq(window, c.at + 1, stop)
    <3> DEFINE at == c.at
    <3>1. at \in Nat /\ stop \in Nat /\ stop <= end
      BY <1>2, <1>8
    <3> HIDE DEF at
    <3>2. SubSeq(own, at + 1, stop) = SubSeq(window, at + 1, stop)
      BY <1>3, <3>1
    <3> QED  BY <3>2 DEF at
  <2>2. TakeSized(own, d)
          = [c EXCEPT !.at = stop, !.vals = Append(@, SubSeq(own, c.at + 1, stop))]
    BY <1>1, <1>3, <1>8 DEF TakeSized, stop
  <2>3. TakeSized(own, d) = TakeSized(window, c)
    BY <1>5, <2>1, <2>2
  <2> QED  BY <2>3 DEF Curtailed, own
<1> QED  BY <1>6, <1>7, <1>8 DEF Curtailed

\* Fields that are read are read from a shorter input too, or its end is.
LEMMA FieldsCut ==
  ASSUME NEW window \in Seq(Byte), NEW at \in 0 .. Len(window), NEW end \in 0 .. Len(window),
         NEW trimmed \in BOOLEAN, NEW extended \in BOOLEAN,
         ReadFieldsAfterObuSize(window, at, trimmed, extended).err = Ok
  PROVE  Curtailed(ReadFieldsAfterObuSize(SubSeq(window, 1, end), at, trimmed, extended),
                   ReadFieldsAfterObuSize(window, at, trimmed, extended))
<1> DEFINE own    == SubSeq(window, 1, end)
           start  == [err |-> Ok, at |-> at, vals |-> <<>>]
           first  == NextUleb(window, start)
           second == NextUleb(window, first)
           read   == IF trimmed THEN second ELSE start
           size   == NextUleb(window, read)
           oread  == IF trimmed THEN NextUleb(own, NextUleb(own, start)) ELSE start
<1>1. ReadFieldsAfterObuSize(window, at, trimmed, extended)
        = IF extended THEN TakeSized(window, size) ELSE read
  BY DEF ReadFieldsAfterObuSize, ReadTrim, ReadExtension
<1>2. ReadFieldsAfterObuSize(own, at, trimmed, extended)
        = IF extended THEN TakeSized(own, NextUleb(own, oread)) ELSE oread
  BY DEF ReadFieldsAfterObuSize, ReadTrim, ReadExtension
<1>3. Sound(window, start) /\ Curtailed(start, start)
  BY DEF Sound, Curtailed
<1> HIDE DEF own, start
<1>4. Sound(window, first)
  BY <1>3, NextUlebSound
<1>5. Sound(window, second) /\ (second.err = Ok => first.err = Ok)
  BY <1>4, NextUlebSound DEF NextUleb
<1>6. second.err = Ok => Curtailed(NextUleb(own, NextUleb(own, start)), second)
  <2> SUFFICES ASSUME second.err = Ok
               PROVE  Curtailed(NextUleb(own, NextUleb(own, start)), second)
    OBVIOUS
  <2>1. Curtailed(NextUleb(own, start), first)
    BY <1>3, <1>5, NextUlebCut DEF own
  <2> HIDE DEF first
  <2> QED  BY <1>4, <2>1, NextUlebCut DEF own
<1> HIDE DEF first, second
<1>7. Sound(window, read) /\ (read.err = Ok => Curtailed(oread, read))
  BY <1>3, <1>5, <1>6 DEF start
<1> HIDE DEF read, oread
<1>8. Sound(window, size) /\ (size.err = Ok => Len(size.vals) > 0)
  BY <1>7, NextUlebSound
<1>9. size.err = Ok => Curtailed(NextUleb(own, oread), size)
  <2> SUFFICES ASSUME size.err = Ok PROVE Curtailed(NextUleb(own, oread), size)
    OBVIOUS
  <2>1. read.err = Ok
    BY DEF NextUleb
  <2> QED  BY <1>7, <2>1, NextUlebCut DEF own
<1> HIDE DEF size
<1>10. CASE extended
  <2>1. TakeSized(window, size).err = Ok
    BY <1>1, <1>10
  <2>2. size.err = Ok
    BY <2>1 DEF TakeSized
  <2>3. Curtailed(TakeSized(own, NextUleb(own, oread)), TakeSized(window, size))
    BY <1>8, <1>9, <2>1, <2>2, TakeSizedCut DEF own
  <2> QED  BY <1>1, <1>2, <1>10, <2>3 DEF own
<1>11. CASE ~ extended
  <2>1. read.err = Ok
    BY <1>1, <1>11
  <2> QED  BY <1>1, <1>2, <1>7, <1>11, <2>1 DEF own
<1> QED  BY <1>10, <1>11

\* An OBU of the stream that ends behind the end of the input is the end of the
\* input, and the walk says so too.
CutShort(bytes, at) ==
  /\ ReadFrame(bytes, at).err = "UnexpectedEndOfInput"
  /\ WalkStep(bytes, at).err = "TruncatedObu"

LEMMA FrameCut ==
  ASSUME NEW whole \in Seq(Byte), NEW at \in 0 .. Len(whole) - 1,
         ReadFrame(whole, at).err = Ok,
         NEW end \in at + 1 .. Len(whole), ReadFrame(whole, at).next > end
  PROVE  CutShort(SubSeq(whole, 1, end), at)
<1> DEFINE own  == SubSeq(whole, 1, end)
           size == Size(whole, at)
           stop == End(whole, at)
<1>1. /\ own \in Seq(Byte) /\ Len(own) = end /\ \A i \in 1 .. end : own[i] = whole[i]
      /\ end \in Nat /\ end \in 0 .. Len(whole) /\ at \in 0 .. end - 1 /\ at + 1 \in 1 .. end
  OBVIOUS
<1> HIDE DEF own
<1>2. Sized(whole, at)
  <2>1. CASE ~ Sized(whole, at)
    <3>1. ReadFrame(whole, at).err # Ok
      BY <2>1, NotSized DEF Fails, Ok
    <3> QED  BY <3>1
  <2> QED  BY <2>1
<1>3. size.err = Ok /\ size.at \in Nat /\ size.val \in Nat /\ size.at > at + 1
  BY <1>2, SizeInside DEF Sized
<1>4. stop \in Nat /\ size.at <= stop
  BY <1>3 DEF End
<1>5. ReadFrame(whole, at).next = stop /\ stop <= Len(whole)
  <2>1. WalkStep(whole, at) = IF stop <= Len(whole) THEN [err |-> Ok, next |-> stop]
                              ELSE Fails("TruncatedObu")
    BY <1>2, SizedWalk
  <2>2. WalkStep(whole, at).err = Ok /\ WalkStep(whole, at).next = ReadFrame(whole, at).next
    BY FrameIsWalked DEF FrameOnWalk
  <2> HIDE DEF stop
  <2> QED  BY <2>1, <2>2 DEF Fails, Ok
<1>6. stop > end
  BY <1>5
<1>7. ReadFrame(own, at).err = "UnexpectedEndOfInput"
  <2>1. CASE size.at > end
    <3>1. Size(own, at).err = "UnexpectedEndOfInput"
      BY <1>1, <1>3, <2>1, UlebCut DEF Size, own
    <3>2. ~ Sized(own, at)
      BY <3>1 DEF Sized, Ok
    <3>3. ReadFrame(own, at) = Fails("UnexpectedEndOfInput")
      BY <1>1, <3>1, <3>2, NotSized DEF Ok
    <3> QED  BY <3>3 DEF Fails
  <2>2. CASE ~ (size.at > end)
    <3>1. Size(own, at) = size
      BY <1>1, <1>3, <2>2, UlebInBeginning DEF Size, own
    <3>2. Sized(own, at) /\ End(own, at) = stop
      BY <1>2, <3>1 DEF Sized, End
    <3> DEFINE window == SubSeq(whole, 1, stop)
               t == Trimmed(whole[at + 1])
               e == Extended(whole[at + 1])
               first == size.at
               fields == ReadFieldsAfterObuSize(window, first, t, e)
               read == Fields(own, at, Len(own))
    <3>3. window \in Seq(Byte) /\ Len(window) = stop /\ \A i \in 1 .. stop : window[i] = whole[i]
      BY <1>4, <1>5
    <3>4. fields.err = Ok
      <4>1. fields = Fields(whole, at, stop)
        BY DEF Fields
      <4> DEFINE f == Fields(whole, at, stop)
      <4>2. ReadFrame(whole, at) =
               IF f.err # Ok
                 THEN Fails(IF stop <= Len(whole) /\ f.err = "UnexpectedEndOfInput" THEN "TruncatedObu"
                            ELSE f.err)
               ELSE [err     |-> Ok, header |-> HeaderOf(whole[at + 1], f.vals), next |-> stop,
                     payload |-> SubSeq(whole, f.at + 1, stop)]
        BY <1>2, <1>5, SizedFrame
      <4> HIDE DEF f, fields, stop
      <4>3. f.err = Ok
        BY <4>2 DEF Fails, Ok
      <4> QED  BY <4>1, <4>3 DEF f
    <3>5. read = ReadFieldsAfterObuSize(SubSeq(window, 1, end), first, t, e)
      <4>1. SubSeq(own, 1, end) = own /\ SubSeq(window, 1, end) = own
        <5> HIDE DEF window, stop
        <5> QED  BY <1>1, <1>4, <1>6, <3>3
      <4>2. whole[at + 1] = own[at + 1]
        BY <1>1
      <4> HIDE DEF window
      <4> QED  BY <1>1, <3>1, <4>1, <4>2 DEF Fields
    <3>6. t \in BOOLEAN /\ e \in BOOLEAN
      BY DEF Trimmed, Extended
    <3>7. first \in 0 .. Len(window) /\ end \in 0 .. Len(window)
      <4> HIDE DEF window, stop, first
      <4> QED  BY <1>1, <1>3, <1>4, <1>6, <3>3 DEF first
    <3> HIDE DEF window, t, e, first, read
    <3>8. Curtailed(read, fields)
      BY <3>3, <3>4, <3>5, <3>6, <3>7, FieldsCut
    <3>9. read.err = Ok \/ read.err = "UnexpectedEndOfInput"
      BY <3>4, <3>8 DEF Curtailed
    <3>10. ~ (stop <= Len(own))
      BY <1>1, <1>4, <1>6
    <3>11. ReadFrame(own, at) =
             IF read.err # Ok THEN Fails(read.err) ELSE Fails("UnexpectedEndOfInput")
      BY <1>1, <3>2, <3>10, SizedFrame DEF read
    <3> QED  BY <3>9, <3>11 DEF Fails
  <2> QED  BY <2>1, <2>2
<1>8. WalkStep(own, at).err = "TruncatedObu"
  BY <1>1, <1>7, FrameIsWalked DEF FrameOnWalk
<1> QED  BY <1>7, <1>8 DEF CutShort, own

----------------------------------------------------------------------------
(* Where the reader finds the OBUs                                         *)

LEMMA FrameMoves ==
  ASSUME NEW bytes \in Seq(Byte), NEW at \in 0 .. Len(bytes) - 1, ReadFrame(bytes, at).err = Ok
  PROVE  ReadFrame(bytes, at).next \in at + 1 .. Len(bytes)
<1>1. WalkStep(bytes, at).err = Ok /\ WalkStep(bytes, at).next = ReadFrame(bytes, at).next
  BY FrameIsWalked DEF FrameOnWalk
<1> QED  BY <1>1, WalkMoves

StartsFrom(bytes, f, at) ==
  LET frame == ReadFrame(bytes, at)
  IN  IF at = Len(bytes) THEN <<>>
      ELSE IF frame.err # Ok THEN <<at>>
      ELSE <<at>> \o f[frame.next]

StartTable(bytes, k, f) == f = [at \in k .. Len(bytes) |-> StartsFrom(bytes, f, at)]

LEMMA StartTableExists ==
  ASSUME NEW bytes \in Seq(Byte)
  PROVE  \E f : StartTable(bytes, 0, f)
<1> DEFINE L == Len(bytes)
           S == {k \in Nat : k <= L + 1 => \E f : StartTable(bytes, (L + 1) - k, f)}
<1>0. L \in Nat
  OBVIOUS
<1>1. 0 \in S
  <2> DEFINE f == [m \in L + 1 .. L |-> <<>>]
  <2>1. (L + 1) - 0 = L + 1 /\ L + 1 .. L = {}
    OBVIOUS
  <2>2. StartTable(bytes, L + 1, f)
    BY <2>1 DEF StartTable
  <2> HIDE DEF f
  <2> QED  BY <2>1, <2>2
<1>2. ASSUME NEW k \in Nat, k \in S PROVE k + 1 \in S
  <2> SUFFICES ASSUME k + 1 <= L + 1
               PROVE  \E f : StartTable(bytes, (L + 1) - (k + 1), f)
    OBVIOUS
  <2> DEFINE from == (L + 1) - (k + 1)
  <2>1. from \in 0 .. L /\ (L + 1) - k = from + 1
    OBVIOUS
  <2>2. PICK f : StartTable(bytes, from + 1, f)
    BY <1>2, <2>1
  <2> HIDE DEF from, S
  <2> DEFINE g == [m \in from .. L |-> StartsFrom(bytes, f, m)]
  <2>3. \A m \in from + 1 .. L : f[m] = StartsFrom(bytes, f, m)
    BY <2>2 DEF StartTable
  <2>4. \A m \in from + 1 .. L : g[m] = f[m]
    BY <2>1, <2>3
  <2> HIDE DEF g
  <2>5. ASSUME NEW m \in from .. L
        PROVE  StartsFrom(bytes, g, m) = StartsFrom(bytes, f, m)
    <3>1. CASE m = L \/ ReadFrame(bytes, m).err # Ok
      BY <3>1 DEF StartsFrom
    <3>2. CASE m # L /\ ReadFrame(bytes, m).err = Ok
      <4>1. m \in 0 .. L - 1
        BY <2>1, <3>2
      <4> HIDE DEF L
      <4>2. ReadFrame(bytes, m).next \in m + 1 .. L
        BY <3>2, <4>1, FrameMoves DEF L
      <4>3. ReadFrame(bytes, m).next \in from + 1 .. L
        BY <1>0, <2>1, <4>1, <4>2
      <4>4. g[ReadFrame(bytes, m).next] = f[ReadFrame(bytes, m).next]
        BY <2>4, <4>3
      <4> QED  BY <4>4 DEF StartsFrom
    <3> QED  BY <3>1, <3>2
  <2>6. g = [m \in from .. L |-> StartsFrom(bytes, g, m)]
    BY <2>5 DEF g
  <2> QED  BY <2>6 DEF StartTable, from
<1> HIDE DEF S
<1>3. L + 1 \in S
  <2> HIDE DEF L
  <2> QED  BY <1>0, <1>1, <1>2, NaturalSteps
<1>4. (L + 1) - (L + 1) = 0
  OBVIOUS
<1> QED  BY <1>3, <1>4 DEF S

\* Each start is inside the input; the next one is where its frame ends, and
\* behind the last one there is an error or nothing.
Starts(bytes, from, list) ==
  /\ list \in Seq(Nat)
  /\ from = Len(bytes) => list = <<>>
  /\ from # Len(bytes) => list # <<>> /\ list[1] = from
  /\ \A i \in 1 .. Len(list) :
       LET frame == ReadFrame(bytes, list[i])
       IN  /\ list[i] \in 0 .. Len(bytes) - 1
           /\ i < Len(list) => frame.err = Ok /\ list[i + 1] = frame.next
           /\ i = Len(list) /\ frame.err = Ok => frame.next = Len(bytes)

LEMMA StartsGrow ==
  ASSUME NEW bytes \in Seq(Byte), NEW at \in 0 .. Len(bytes) - 1, ReadFrame(bytes, at).err = Ok,
         NEW list, Starts(bytes, ReadFrame(bytes, at).next, list)
  PROVE  Starts(bytes, at, <<at>> \o list)
<1> DEFINE more == <<at>> \o list
           next == ReadFrame(bytes, at).next
           n    == Len(list)
<1>1. <<at>> \in Seq(Nat) /\ Len(<<at>>) = 1 /\ <<at>>[1] = at
  OBVIOUS
<1>2. list \in Seq(Nat) /\ n \in Nat
  BY DEF Starts
<1>3. Concatenates(Nat, <<at>>, list)
  BY <1>1, <1>2, ConcatMembers
<1> HIDE DEF more
<1>4. /\ more \in Seq(Nat) /\ Len(more) = 1 + n /\ more[1] = at
      /\ \A k \in 1 .. n : more[1 + k] = list[k]
  BY <1>1, <1>2, <1>3 DEF Concatenates, more
<1>5. more # <<>> /\ at # Len(bytes)
  BY <1>2, <1>4
<1>6. next = Len(bytes) => n = 0
  BY DEF Starts
<1>7. next # Len(bytes) => n > 0 /\ list[1] = next
  BY <1>2 DEF Starts
<1>8. ASSUME NEW i \in 1 .. Len(more)
      PROVE  LET frame == ReadFrame(bytes, more[i])
             IN  /\ more[i] \in 0 .. Len(bytes) - 1
                 /\ i < Len(more) => frame.err = Ok /\ more[i + 1] = frame.next
                 /\ i = Len(more) /\ frame.err = Ok => frame.next = Len(bytes)
  <2>1. CASE i = 1
    <3>1. more[i] = at /\ ReadFrame(bytes, more[i]).next = next
          /\ ReadFrame(bytes, more[i]).err = Ok
      BY <1>4, <2>1
    <3> HIDE DEF n, next
    <3>2. i < Len(more) => more[i + 1] = next
      <4> SUFFICES ASSUME i < Len(more) PROVE more[i + 1] = next
        OBVIOUS
      <4>1. n > 0 /\ 1 \in 1 .. n
        BY <1>2, <1>4, <2>1
      <4>2. more[1 + 1] = list[1]
        BY <1>4, <4>1
      <4> QED  BY <1>2, <1>6, <1>7, <2>1, <4>1, <4>2
    <3>3. i = Len(more) => next = Len(bytes)
      BY <1>2, <1>4, <1>7, <2>1
    <3> QED  BY <3>1, <3>2, <3>3
  <2>2. CASE i # 1
    <3> DEFINE j == i - 1
    <3>1. /\ j \in 1 .. n /\ i = 1 + j /\ i + 1 = 1 + (j + 1)
          /\ (i < Len(more) <=> j < n) /\ (i = Len(more) <=> j = n)
          /\ (j < n => j + 1 \in 1 .. n)
      BY <1>2, <1>4, <2>2
    <3> HIDE DEF j, next
    <3>2. more[i] = list[j] /\ (i < Len(more) => more[i + 1] = list[j + 1])
      BY <1>4, <3>1
    <3>3. LET frame == ReadFrame(bytes, list[j])
          IN  /\ list[j] \in 0 .. Len(bytes) - 1
              /\ j < n => frame.err = Ok /\ list[j + 1] = frame.next
              /\ j = n /\ frame.err = Ok => frame.next = Len(bytes)
      BY <3>1 DEF Starts
    <3> QED  BY <3>1, <3>2, <3>3
  <2> QED  BY <2>1, <2>2
<1>9. Starts(bytes, at, more)
  BY <1>4, <1>5, <1>8 DEF Starts
<1> QED  BY <1>9 DEF more

LEMMA StartsFound ==
  ASSUME NEW bytes \in Seq(Byte)
  PROVE  Starts(bytes, 0, FrameStarts(bytes))
<1> DEFINE L == Len(bytes)
           f == CHOOSE f : StartTable(bytes, 0, f)
<1>1. StartTable(bytes, 0, f)
  BY StartTableExists
<1>2. FrameStarts(bytes) = f[0]
  BY DEF FrameStarts, StartTable, StartsFrom
<1> HIDE DEF f
<1>3. L \in Nat /\ \A m \in 0 .. L : f[m] = StartsFrom(bytes, f, m)
  BY <1>1 DEF StartTable
<1> DEFINE Right(m) == Starts(bytes, m, f[m])
           S == {k \in Nat : \A m \in 0 .. L : m + k >= L => Right(m)}
<1>4. ASSUME NEW m \in 0 .. L, m = L \/ ReadFrame(bytes, m).err # Ok PROVE Right(m)
  <2>1. f[m] = IF m = L THEN <<>> ELSE <<m>>
    <3>1. f[m] = StartsFrom(bytes, f, m)
      BY <1>3
    <3> QED  BY <1>4, <3>1 DEF StartsFrom
  <2>2. CASE m = L
    <3>1. <<>> \in Seq(Nat) /\ 1 .. Len(<<>>) = {}
      OBVIOUS
    <3> QED  BY <2>1, <2>2, <3>1 DEF Starts
  <2>3. CASE m # L
    <3>1. /\ <<m>> \in Seq(Nat) /\ <<m>> # <<>> /\ <<m>>[1] = m /\ Len(<<m>>) = 1
          /\ \A i \in 1 .. Len(<<m>>) : i = 1
      OBVIOUS
    <3>2. m \in 0 .. L - 1
      BY <1>3, <2>3
    <3> QED  BY <1>4, <2>1, <2>3, <3>1, <3>2 DEF Starts
  <2> QED  BY <2>2, <2>3
<1>5. 0 \in S
  <2>1. ASSUME NEW m \in 0 .. L, m + 0 >= L PROVE m = L
    BY <1>3, <2>1
  <2> HIDE DEF Right, L
  <2> QED  BY <1>4, <2>1
<1>6. ASSUME NEW k \in Nat, k \in S PROVE k + 1 \in S
  <2>1. ASSUME NEW m \in 0 .. L, m + (k + 1) >= L, m # L, ReadFrame(bytes, m).err = Ok
        PROVE  Right(m)
    <3> DEFINE next == ReadFrame(bytes, m).next
    <3>1. m \in 0 .. L - 1
      BY <1>3, <2>1
    <3>2. next \in m + 1 .. L
      BY <2>1, <3>1, FrameMoves
    <3>3. f[m] = <<m>> \o f[next]
      BY <1>3, <2>1 DEF StartsFrom
    <3> HIDE DEF next
    <3>4. next \in 0 .. L /\ next + k >= L
      <4> HIDE DEF L
      <4> QED  BY <1>3, <2>1, <3>2
    <3>5. Right(next)
      BY <1>6, <3>4
    <3>6. Starts(bytes, m, <<m>> \o f[next])
      BY <2>1, <3>1, <3>5, StartsGrow DEF next
    <3> QED  BY <3>3, <3>6
  <2> HIDE DEF Right, L
  <2>2. \A m \in 0 .. L : m + (k + 1) >= L => Right(m)
    BY <1>4, <2>1
  <2> QED  BY <2>2
<1> HIDE DEF S
<1>7. L \in S
  BY <1>3, <1>5, <1>6, NaturalSteps
<1>8. Right(0)
  <2>1. 0 \in 0 .. L /\ 0 + L >= L
    BY <1>3
  <2> HIDE DEF Right
  <2> QED  BY <1>7, <2>1 DEF S
<1> QED  BY <1>2, <1>8

----------------------------------------------------------------------------
(* A stream of OBUs that read back by themselves                           *)

Listing(g, n) == [j \in 1 .. n |-> g[j]]

LEMMA ListingGrows ==
  ASSUME NEW g, NEW n \in Nat
  PROVE  Append(Listing(g, n), g[n + 1]) = Listing(g, n + 1)
<1> DEFINE V == {g[j] : j \in 1 .. n + 1}
           s == Listing(g, n)
<1>1. s \in Seq(V) /\ Len(s) = n /\ \A j \in 1 .. n : s[j] = g[j]
  <2>1. \A j \in 1 .. n : g[j] \in V
    OBVIOUS
  <2> HIDE DEF V
  <2>2. s = [j \in 1 .. n |-> g[j]]
    BY DEF Listing
  <2> HIDE DEF s
  <2>3. s \in [1 .. n -> V]
    BY <2>1, <2>2
  <2>4. s \in Seq(V) /\ Len(s) = n
    BY <2>3
  <2> QED  BY <2>2, <2>4
<1>2. g[n + 1] \in V
  OBVIOUS
<1> HIDE DEF s, V
<1> DEFINE t == Append(s, g[n + 1])
<1>3. /\ DOMAIN t = 1 .. n + 1 /\ t \in Seq(V)
      /\ \A j \in 1 .. n : t[j] = g[j]
      /\ t[n + 1] = g[n + 1]
  BY <1>1, <1>2, AppendMembers
<1>4. t = [j \in DOMAIN t |-> t[j]]
  BY <1>3
<1> HIDE DEF t
<1>5. \A j \in 1 .. n + 1 : t[j] = g[j]
  <2>1. \A j \in 1 .. n + 1 : j \in 1 .. n \/ j = n + 1
    OBVIOUS
  <2> QED  BY <1>3, <2>1
<1>6. t = [j \in 1 .. n + 1 |-> g[j]]
  BY <1>3, <1>4, <1>5
<1> QED  BY <1>6 DEF Listing, s, t

\* n OBUs lie one behind the other, from the beginning of the input on, and each
\* is read under the definitions of those before it.
Chain(bytes, n, marks, known, obus) ==
  /\ marks[1] = 0 /\ known[1] = <<>>
  /\ \A i \in 1 .. n :
       /\ ObuIsRead(bytes, marks[i], marks[i + 1], known[i], obus[i])
       /\ known[i + 1] = Observe(known[i], obus[i])

\* What is behind them: nothing, or an OBU that the end of the input cuts.
Finishes(bytes, last) ==
  last = Len(bytes) \/ (last \in 0 .. Len(bytes) - 1 /\ CutShort(bytes, last))

\* The reader starts at the marks and nowhere else.
StartsAre(bytes, n, marks, list) ==
  /\ Len(list) = IF marks[n + 1] = Len(bytes) THEN n ELSE n + 1
  /\ \A i \in 1 .. Len(list) : list[i] = marks[i]

LEMMA StartsAtMarks ==
  ASSUME NEW bytes \in Seq(Byte), NEW n \in Nat, NEW marks, NEW known, NEW obus,
         Chain(bytes, n, marks, known, obus), Finishes(bytes, marks[n + 1])
  PROVE  StartsAre(bytes, n, marks, FrameStarts(bytes))
<1> DEFINE L == Len(bytes)
           list == FrameStarts(bytes)
           m == IF marks[n + 1] = L THEN n ELSE n + 1
           S == {k \in Nat : k + 1 <= m => k + 1 <= Len(list) /\ list[k + 1] = marks[k + 1]}
<1>1. Starts(bytes, 0, list)
  BY StartsFound
<1> HIDE DEF list
<1>2. L \in Nat /\ list \in Seq(Nat) /\ Len(list) \in Nat /\ m \in Nat
  BY <1>1 DEF Starts
<1>3. marks[1] = 0
  BY DEF Chain
<1>4. ASSUME NEW i \in 1 .. n
      PROVE  /\ marks[i] \in 0 .. L - 1 /\ marks[i + 1] \in marks[i] + 1 .. L
             /\ ReadFrame(bytes, marks[i]).err = Ok /\ ReadFrame(bytes, marks[i]).next = marks[i + 1]
  BY DEF Chain, ObuIsRead
<1>5. marks[n + 1] # L => marks[n + 1] \in 0 .. L - 1 /\ ReadFrame(bytes, marks[n + 1]).err # Ok
  BY DEF Finishes, CutShort, Ok
<1>6. \A i \in 1 .. Len(list) :
         /\ list[i] \in 0 .. L - 1
         /\ i < Len(list) => /\ ReadFrame(bytes, list[i]).err = Ok
                             /\ list[i + 1] = ReadFrame(bytes, list[i]).next
         /\ i = Len(list) /\ ReadFrame(bytes, list[i]).err = Ok => ReadFrame(bytes, list[i]).next = L
  BY <1>1 DEF Starts
<1>7. \A i \in 1 .. m : marks[i] \in 0 .. L - 1
  <2>1. \A i \in 1 .. m : i \in 1 .. n \/ (i = n + 1 /\ marks[n + 1] # L)
    <3>1. CASE marks[n + 1] = L
      BY <3>1
    <3>2. CASE marks[n + 1] # L
      BY <3>2
    <3> QED  BY <3>1, <3>2
  <2> QED  BY <1>4, <1>5, <2>1
<1>8. m = n \/ m = n + 1
  OBVIOUS
<1>9. m = n => marks[n + 1] = L
  <2>1. CASE marks[n + 1] # L
    BY <2>1
  <2> QED  BY <2>1
<1>10. m = n + 1 => marks[n + 1] # L
  <2>1. CASE marks[n + 1] = L
    BY <2>1
  <2> QED  BY <2>1
<1> HIDE DEF m, L
<1>11. 0 \in S
  <2>1. CASE m = 0
    BY <2>1
  <2>2. CASE m # 0
    <3>1. 1 \in 1 .. m
      BY <1>2, <2>2
    <3>2. 0 # L
      BY <1>2, <1>3, <1>7, <3>1
    <3>3. list # <<>> /\ list[1] = 0
      BY <1>1, <3>2 DEF Starts, L
    <3>4. 1 <= Len(list)
      BY <1>2, <3>3
    <3> QED  BY <1>3, <3>3, <3>4
  <2> QED  BY <2>1, <2>2
<1>12. ASSUME NEW k \in Nat, k \in S PROVE k + 1 \in S
  <2> DEFINE i == k + 1
  <2>1. i \in Nat /\ i = k + 1
    OBVIOUS
  <2> HIDE DEF i
  <2>2. SUFFICES ASSUME i + 1 <= m
                 PROVE  i + 1 <= Len(list) /\ list[i + 1] = marks[i + 1]
    BY <2>1
  <2>3. i <= m /\ i \in 1 .. n /\ i + 1 \in 1 .. m
    BY <1>2, <1>8, <2>1, <2>2
  <2>4. i <= Len(list) /\ list[i] = marks[i] /\ i \in 1 .. Len(list)
    BY <1>2, <1>12, <2>1, <2>3
  <2>5. ReadFrame(bytes, list[i]).err = Ok /\ ReadFrame(bytes, list[i]).next = marks[i + 1]
    BY <1>4, <2>3, <2>4
  <2>6. marks[i + 1] # L
    BY <1>2, <1>7, <2>3
  <2>7. i # Len(list)
    BY <1>6, <2>4, <2>5, <2>6
  <2>8. i < Len(list)
    BY <1>2, <2>1, <2>4, <2>7
  <2> QED  BY <1>2, <1>6, <2>1, <2>4, <2>5, <2>8
<1>13. Nat \subseteq S
  <2> HIDE DEF S
  <2> QED  BY <1>11, <1>12, NaturalSteps
<1>14. \A i \in 1 .. m : i <= Len(list) /\ list[i] = marks[i]
  <2> SUFFICES ASSUME NEW i \in 1 .. m PROVE i <= Len(list) /\ list[i] = marks[i]
    OBVIOUS
  <2>1. i - 1 \in Nat /\ (i - 1) + 1 = i /\ i <= m
    BY <1>2
  <2>2. i - 1 \in S
    BY <1>13, <2>1
  <2> QED  BY <2>1, <2>2
<1> HIDE DEF S
<1>15. Len(list) = m
  <2>1. m <= Len(list)
    <3>1. CASE m = 0
      BY <1>2, <3>1
    <3>2. CASE m # 0
      BY <1>2, <1>14, <3>2
    <3> QED  BY <3>1, <3>2
  <2>2. CASE Len(list) > m
    <3>1. CASE m = 0
      <4>1. n = 0 /\ marks[n + 1] = L
        BY <1>2, <1>8, <1>9, <3>1
      <4>2. 0 = L
        BY <1>3, <4>1
      <4>3. list = <<>>
        BY <1>1, <4>2 DEF Starts, L
      <4> QED  BY <1>2, <2>2, <3>1, <4>3
    <3>2. CASE m # 0
      <4>1. m \in 1 .. m /\ m \in 1 .. Len(list) /\ m < Len(list) /\ m + 1 \in 1 .. Len(list)
        BY <1>2, <2>2, <3>2
      <4>2. list[m] = marks[m] /\ ReadFrame(bytes, list[m]).err = Ok
            /\ list[m + 1] = ReadFrame(bytes, list[m]).next
        BY <1>6, <1>14, <4>1
      <4>3. CASE m = n
        <5>1. m \in 1 .. n
          BY <4>1, <4>3
        <5>2. list[m + 1] = marks[n + 1]
          BY <1>4, <4>2, <4>3, <5>1
        <5>3. list[m + 1] = L /\ list[m + 1] \in 0 .. L - 1
          BY <1>6, <1>9, <4>1, <4>3, <5>2
        <5> QED  BY <1>2, <5>3
      <4>4. CASE m = n + 1
        BY <1>5, <1>10, <4>2, <4>4
      <4> QED  BY <1>8, <4>3, <4>4
    <3> QED  BY <3>1, <3>2
  <2> QED  BY <1>2, <2>1, <2>2
<1> QED  BY <1>14, <1>15 DEF StartsAre, m, L, list

\* Nor does the walk find other boundaries.
WalkIs(n, marks, walk, err) ==
  walk.at = Listing(marks, n + 1) /\ walk.err = err

LEMMA WalkAtMarks ==
  ASSUME NEW bytes \in Seq(Byte), NEW n \in Nat, NEW marks, NEW known, NEW obus,
         Chain(bytes, n, marks, known, obus), Finishes(bytes, marks[n + 1])
  PROVE  WalkIs(n, marks, FindObuBoundaries(bytes),
                IF marks[n + 1] = Len(bytes) THEN Ok ELSE "TruncatedObu")
<1> DEFINE L == Len(bytes)
           walk == FindObuBoundaries(bytes)
           list == walk.at
           S == {k \in Nat : k <= n => k + 1 <= Len(list) /\ list[k + 1] = marks[k + 1]}
<1>1. Boundaries(bytes, 0, list) /\ Stops(bytes, list, walk.err)
  BY WalkFinds
<1> HIDE DEF walk, list
<1>2. L \in Nat /\ list \in Seq(Nat) /\ Len(list) \in Nat \ {0} /\ list[1] = 0
  BY <1>1 DEF Boundaries
<1>3. marks[1] = 0
  BY DEF Chain
<1>4. ASSUME NEW i \in 1 .. n
      PROVE  /\ marks[i] \in 0 .. L - 1 /\ marks[i + 1] \in marks[i] + 1 .. L
             /\ WalkStep(bytes, marks[i]).err = Ok /\ WalkStep(bytes, marks[i]).next = marks[i + 1]
  <2>1. ObuIsRead(bytes, marks[i], marks[i + 1], known[i], obus[i])
    BY DEF Chain
  <2>2. WalkStep(bytes, marks[i]) = [err |-> Ok, next |-> marks[i + 1]]
    BY <2>1 DEF ObuIsRead
  <2>3. WalkStep(bytes, marks[i]).err = Ok /\ WalkStep(bytes, marks[i]).next = marks[i + 1]
    BY <2>2
  <2> QED  BY <2>1, <2>3 DEF ObuIsRead
<1>5. marks[n + 1] # L =>
        marks[n + 1] \in 0 .. L - 1 /\ WalkStep(bytes, marks[n + 1]).err = "TruncatedObu"
  BY DEF Finishes, CutShort
<1>6. \A i \in 1 .. Len(list) - 1 :
         list[i] \in 0 .. L - 1 /\ WalkStep(bytes, list[i]).err = Ok
         /\ list[i + 1] = WalkStep(bytes, list[i]).next
  BY <1>1 DEF Boundaries
<1>7. LET last == list[Len(list)]
      IN  \/ last = L /\ walk.err = Ok
          \/ /\ last \in 0 .. L - 1 /\ WalkStep(bytes, last).err # Ok
             /\ walk.err = WalkStep(bytes, last).err
  BY <1>1 DEF Stops
<1> HIDE DEF L
<1>8. 0 \in S
  BY <1>2, <1>3
<1>9. ASSUME NEW k \in Nat, k \in S PROVE k + 1 \in S
  <2> DEFINE i == k + 1
  <2>1. i \in Nat /\ i = k + 1
    OBVIOUS
  <2> HIDE DEF i
  <2>2. SUFFICES ASSUME i <= n
                 PROVE  i + 1 <= Len(list) /\ list[i + 1] = marks[i + 1]
    BY <2>1
  <2>3. i \in 1 .. n /\ k <= n
    BY <2>1, <2>2
  <2>4. i <= Len(list) /\ list[i] = marks[i]
    BY <1>9, <2>1, <2>3
  <2>5. /\ list[i] \in 0 .. L - 1 /\ WalkStep(bytes, list[i]).err = Ok
        /\ WalkStep(bytes, list[i]).next = marks[i + 1]
    BY <1>4, <2>3, <2>4
  <2>6. i # Len(list)
    BY <1>2, <1>7, <2>5
  <2>7. i \in 1 .. Len(list) - 1
    BY <1>2, <2>3, <2>4, <2>6
  <2> QED  BY <1>2, <1>6, <2>1, <2>5, <2>7
<1>10. Nat \subseteq S
  <2> HIDE DEF S
  <2> QED  BY <1>8, <1>9, NaturalSteps
<1>11. \A i \in 1 .. n + 1 : i <= Len(list) /\ list[i] = marks[i]
  <2> SUFFICES ASSUME NEW i \in 1 .. n + 1 PROVE i <= Len(list) /\ list[i] = marks[i]
    OBVIOUS
  <2>1. i - 1 \in Nat /\ (i - 1) + 1 = i /\ i - 1 <= n
    OBVIOUS
  <2>2. i - 1 \in S
    BY <1>10, <2>1
  <2> QED  BY <2>1, <2>2
<1> HIDE DEF S
<1>12. n + 1 <= Len(list) /\ list[n + 1] = marks[n + 1]
  BY <1>11
<1>13. Len(list) = n + 1
  <2>1. CASE Len(list) > n + 1
    <3>1. n + 1 \in 1 .. Len(list) - 1
      BY <1>2, <2>1
    <3>2. list[n + 1] \in 0 .. L - 1 /\ WalkStep(bytes, list[n + 1]).err = Ok
      BY <1>6, <3>1
    <3>3. marks[n + 1] # L
      BY <1>2, <1>12, <3>2
    <3> QED  BY <1>5, <1>12, <3>2, <3>3 DEF Ok
  <2> QED  BY <1>2, <1>12, <2>1
<1>14. walk.err = IF marks[n + 1] = L THEN Ok ELSE "TruncatedObu"
  <2>1. CASE marks[n + 1] = L
    BY <1>2, <1>7, <1>12, <1>13, <2>1
  <2>2. CASE marks[n + 1] # L
    BY <1>5, <1>7, <1>12, <1>13, <2>2
  <2> QED  BY <2>1, <2>2
<1>15. list = Listing(marks, n + 1)
  <2>1. list = [j \in 1 .. Len(list) |-> list[j]]
    BY <1>2
  <2> QED  BY <1>11, <1>13, <2>1 DEF Listing
<1> QED  BY <1>14, <1>15 DEF WalkIs, L, walk, list

SeenStep(bytes, at, s) ==
  IF s.err # Ok THEN s ELSE Yielded(s, ReadObu(bytes, at, s.registry))

SeenTable(bytes, starts, m, f) ==
  f = [i \in 0 .. m |-> IF i = 0 THEN StreamStart ELSE SeenStep(bytes, starts[i], f[i - 1])]

LEMMA SeenTableExists ==
  ASSUME NEW bytes, NEW starts, NEW m \in Nat
  PROVE  \E f : SeenTable(bytes, starts, m, f)
<1> DEFINE S == {k \in Nat : \E f : SeenTable(bytes, starts, k, f)}
           Next1(h, i) == IF i = 0 THEN StreamStart ELSE SeenStep(bytes, starts[i], h[i - 1])
<1>1. 0 \in S
  <2> DEFINE f == [i \in 0 .. 0 |-> StreamStart]
  <2>1. f = [i \in 0 .. 0 |-> Next1(f, i)]
    <3>1. \A i \in 0 .. 0 : i = 0
      OBVIOUS
    <3> HIDE DEF f
    <3>2. [i \in 0 .. 0 |-> StreamStart] = [i \in 0 .. 0 |-> Next1(f, i)]
      BY <3>1
    <3> QED  BY <3>2 DEF f
  <2> HIDE DEF f
  <2> QED  BY <2>1 DEF SeenTable
<1>2. ASSUME NEW k \in Nat, k \in S PROVE k + 1 \in S
  <2>1. PICK f : SeenTable(bytes, starts, k, f)
    BY <1>2
  <2> DEFINE g == [i \in 0 .. (k + 1) |-> Next1(f, i)]
  <2>2. \A i \in 0 .. k : f[i] = Next1(f, i)
    BY <2>1 DEF SeenTable
  <2>3. \A i \in 0 .. k : g[i] = f[i]
    <3> HIDE DEF Next1
    <3>1. \A i \in 0 .. k : i \in 0 .. (k + 1)
      OBVIOUS
    <3> QED  BY <2>2, <3>1
  <2>4. \A i \in 0 .. (k + 1) : Next1(g, i) = Next1(f, i)
    <3> HIDE DEF g
    <3>1. \A i \in 0 .. (k + 1) : i # 0 => i - 1 \in 0 .. k
      OBVIOUS
    <3> QED  BY <2>3, <3>1
  <2>5. g = [i \in 0 .. (k + 1) |-> Next1(g, i)]
    <3> HIDE DEF Next1
    <3> QED  BY <2>4
  <2>6. SeenTable(bytes, starts, k + 1, g)
    BY <2>5 DEF SeenTable
  <2> QED  BY <2>6
<1> HIDE DEF S
<1>3. Nat \subseteq S
  BY <1>1, <1>2, NaturalSteps
<1> QED  BY <1>3 DEF S

LEMMA StreamOfTable ==
  ASSUME NEW bytes, Len(FrameStarts(bytes)) \in Nat
  PROVE  \E f : /\ SeenTable(bytes, FrameStarts(bytes), Len(FrameStarts(bytes)), f)
                /\ ReadStream(bytes) = f[Len(FrameStarts(bytes))]
<1> DEFINE starts == FrameStarts(bytes)
           f == CHOOSE f : SeenTable(bytes, starts, Len(starts), f)
<1>1. SeenTable(bytes, starts, Len(starts), f)
  BY SeenTableExists
<1>2. ReadStream(bytes) = f[Len(starts)]
  BY DEF ReadStream, SeenTable, SeenStep, AndThen
<1> HIDE DEF f
<1> QED  BY <1>1, <1>2

\* What has been read behind the first k OBUs of a chain.
UpTo(marks, known, obus, k, err) ==
  [err |-> err, at |-> Listing(marks, k + 1), obus |-> Listing(obus, k), registry |-> known[k + 1]]

\* A chain is read, OBU by OBU, and then its end.
StreamIs(bytes, n, marks, known, obus) ==
  ReadStream(bytes) =
    UpTo(marks, known, obus, n,
         IF marks[n + 1] = Len(bytes) THEN Ok ELSE "UnexpectedEndOfInput")

LEMMA ChainIsRead ==
  ASSUME NEW bytes \in Seq(Byte), NEW n \in Nat, NEW marks, NEW known, NEW obus,
         Chain(bytes, n, marks, known, obus), Finishes(bytes, marks[n + 1])
  PROVE  StreamIs(bytes, n, marks, known, obus)
<1> DEFINE starts == FrameStarts(bytes)
           last   == marks[n + 1]
           Done(k) == UpTo(marks, known, obus, k, Ok)
<1>1. /\ Len(starts) = IF last = Len(bytes) THEN n ELSE n + 1
      /\ \A i \in 1 .. Len(starts) : starts[i] = marks[i]
  BY StartsAtMarks, Zenon DEF StartsAre
<1> HIDE DEF starts
<1>2. Len(starts) \in Nat /\ n <= Len(starts)
  BY <1>1
<1>3. PICK f : SeenTable(bytes, starts, Len(starts), f) /\ ReadStream(bytes) = f[Len(starts)]
  BY <1>2, StreamOfTable DEF starts
<1>4. /\ f[0] = StreamStart
      /\ \A i \in 1 .. Len(starts) : f[i] = SeenStep(bytes, marks[i], f[i - 1])
  <2>1. 0 \in 0 .. Len(starts) /\ \A i \in 1 .. Len(starts) : i \in 0 .. Len(starts) /\ i # 0
    BY <1>2
  <2> QED  BY <1>1, <1>3, <2>1 DEF SeenTable
<1> DEFINE S == {k \in Nat : k <= n => f[k] = Done(k)}
<1>5. 0 \in S
  <2>1. marks[1] = 0 /\ known[1] = <<>>
    BY DEF Chain
  <2>2. Listing(marks, 0 + 1) = <<0>>
    <3>1. \A j \in 1 .. 0 + 1 : marks[j] = 0
      BY <2>1
    <3>2. [j \in 1 .. 0 + 1 |-> marks[j]] = [j \in 1 .. 0 + 1 |-> 0]
      BY <3>1
    <3>3. <<0>> = [j \in 1 .. 0 + 1 |-> 0]
      OBVIOUS
    <3> QED  BY <3>2, <3>3 DEF Listing
  <2>3. Listing(obus, 0) = <<>>
    BY DEF Listing
  <2>4. f[0] = Done(0)
    BY <1>4, <2>1, <2>2, <2>3 DEF UpTo, StreamStart
  <2> QED  BY <2>4
<1>6. ASSUME NEW k \in Nat, k \in S PROVE k + 1 \in S
  <2> DEFINE i == k + 1
  <2>1. i \in Nat /\ i - 1 = k /\ k < i
    OBVIOUS
  <2> HIDE DEF i
  <2>2. SUFFICES ASSUME i <= n PROVE f[i] = Done(i)
    BY DEF i
  <2>3. i \in 1 .. n /\ k <= n /\ i \in 1 .. Len(starts)
    BY <1>2, <2>1, <2>2
  <2>4. f[k] = Done(k)
    BY <1>6, <2>3
  <2>5. /\ ReadObu(bytes, marks[i], known[i]) = [err |-> Ok, next |-> marks[i + 1], obu |-> obus[i]]
        /\ known[i + 1] = Observe(known[i], obus[i])
    BY <2>3 DEF Chain, ObuIsRead
  <2>6. f[i] = SeenStep(bytes, marks[i], Done(k))
    BY <1>4, <2>1, <2>3, <2>4
  <2>7. /\ Append(Listing(marks, i), marks[i + 1]) = Listing(marks, i + 1)
        /\ Append(Listing(obus, k), obus[i]) = Listing(obus, i)
    BY <2>1, ListingGrows DEF i
  <2>8. Done(k) = [err |-> Ok, at |-> Listing(marks, i), obus |-> Listing(obus, k),
                   registry |-> known[i]]
    BY DEF UpTo, i
  <2> DEFINE one == [err |-> Ok, next |-> marks[i + 1], obu |-> obus[i]]
             done == Done(k)
  <2>9. done.err = Ok /\ done.registry = known[i]
        /\ done.at = Listing(marks, i) /\ done.obus = Listing(obus, k)
    BY <2>8
  <2> HIDE DEF done, Done
  <2>10. f[i] = Yielded(done, one)
    BY <2>5, <2>6, <2>9 DEF SeenStep, done
  <2>11. one.err = Ok /\ one.next = marks[i + 1] /\ one.obu = obus[i]
    OBVIOUS
  <2> HIDE DEF one
  <2>12. Yielded(done, one) = [err |-> Ok, at |-> Append(done.at, one.next),
                               obus |-> Append(done.obus, one.obu),
                               registry |-> Observe(done.registry, one.obu)]
    BY <2>11 DEF Yielded
  <2>13. Yielded(done, one) = [err |-> Ok, at |-> Listing(marks, i + 1), obus |-> Listing(obus, i),
                               registry |-> known[i + 1]]
    BY <2>5, <2>7, <2>9, <2>11, <2>12
  <2> QED  BY <2>10, <2>13 DEF Done, UpTo
<1> HIDE DEF Done
<1>7. f[n] = Done(n)
  <2>1. Nat \subseteq S
    <3> HIDE DEF S
    <3> QED  BY <1>5, <1>6, NaturalSteps
  <2> QED  BY <2>1
<1> HIDE DEF S
<1>8. CASE last = Len(bytes)
  <2>1. ReadStream(bytes) = Done(n)
    BY <1>1, <1>3, <1>7, <1>8
  <2> QED  BY <1>8, <2>1 DEF StreamIs, Done, last
<1>9. CASE last # Len(bytes)
  <2>1. ReadFrame(bytes, last).err = "UnexpectedEndOfInput"
    BY <1>9 DEF Finishes, CutShort, last
  <2> DEFINE frame == ReadFrame(bytes, last)
             done  == Done(n)
             one   == ReadObu(bytes, last, known[n + 1])
  <2>2. one = Fails("UnexpectedEndOfInput")
    <3>1. frame.err = "UnexpectedEndOfInput"
      BY <2>1
    <3> HIDE DEF frame
    <3> QED  BY <3>1 DEF ReadObu, ObuInFrame, Ok, frame
  <2>3. done = [err |-> Ok, at |-> Listing(marks, n + 1), obus |-> Listing(obus, n),
                registry |-> known[n + 1]]
    BY DEF UpTo, Done
  <2>4. ReadStream(bytes) = SeenStep(bytes, last, done)
    <3>1. n + 1 \in 1 .. Len(starts) /\ Len(starts) = n + 1 /\ (n + 1) - 1 = n
      BY <1>1, <1>9
    <3> QED  BY <1>3, <1>4, <1>7, <3>1 DEF last
  <2>5. done.err = Ok /\ done.registry = known[n + 1]
    BY <2>3
  <2> HIDE DEF done, last, one
  <2>6. ReadStream(bytes) = Yielded(done, one)
    BY <2>4, <2>5 DEF SeenStep, one
  <2>7. one.err = "UnexpectedEndOfInput"
    BY <2>2 DEF Fails
  <2>8. ReadStream(bytes) = [done EXCEPT !.err = "UnexpectedEndOfInput"]
    BY <2>6, <2>7 DEF Yielded, Ok
  <2>9. ReadStream(bytes) = [err |-> "UnexpectedEndOfInput", at |-> Listing(marks, n + 1),
                             obus |-> Listing(obus, n), registry |-> known[n + 1]]
    BY <2>3, <2>8
  <2> QED  BY <1>9, <2>9 DEF StreamIs, UpTo, last
<1> QED  BY <1>8, <1>9

----------------------------------------------------------------------------
(* A written stream                                                        *)

\* An OBU, written under some definitions, reads back by itself under them, and
\* what is read publishes the definitions that were written.
ReadsAlone(known, obu, padding) ==
  LET own == WriteObu(known, obu, padding)
  IN  own.err = Ok =>
        /\ ReadsAs(own.bytes, known, ReadsBackAs(obu))
        /\ Observe(known, ReadsBackAs(obu)) = Observe(known, obu)

\* What may be written next reads back by itself, by whomever it is framed.
EachReadsAlone ==
  \A obu \in Candidates :
    ReadsAlone(registry, obu, 0) /\ (obu \in ForeignObus => ReadsAlone(registry, obu, 1))

Mark(stops, i) == IF i = 1 THEN 0 ELSE stops[i - 1]
MarksOf(stops) == [i \in 1 .. Len(stops) + 1 |-> Mark(stops, i)]
ModelOf(obus) == [i \in DOMAIN obus |-> ReadsBackAs(obus[i])]

\* The i-th OBU: own are its bytes, known the definitions it is read under.
LaidAt(bytes, obus, stops, known, own, i) ==
  /\ ReadsAs(own[i], known[i], ReadsBackAs(obus[i]))
  /\ Holds(bytes, Mark(stops, i), own[i])
  /\ stops[i] = Mark(stops, i) + Len(own[i])
  /\ known[i + 1] = Observe(known[i], ReadsBackAs(obus[i]))

LaidBy(bytes, obus, stops, known, own, last) ==
  /\ known[1] = <<>> /\ known[Len(stops) + 1] = last
  /\ \A i \in 1 .. Len(stops) : LaidAt(bytes, obus, stops, known, own, i)

\* The bytes are those of the OBUs, one behind the other, and no others.
Laid(bytes, obus, stops, last) ==
  /\ bytes \in Seq(Byte)
  /\ stops \in Seq(Nat) /\ Len(stops) = Len(obus) /\ DOMAIN obus = 1 .. Len(stops)
  /\ Mark(stops, Len(stops) + 1) = Len(bytes)
  /\ \E known, own : LaidBy(bytes, obus, stops, known, own, last)

LEMMA NothingLaid == Laid(<<>>, <<>>, <<>>, <<>>)
<1> DEFINE nothing == [i \in 1 .. 1 |-> <<>>]
<1>1. /\ <<>> \in Seq(Byte) /\ <<>> \in Seq(Nat) /\ Len(<<>>) = 0 /\ 1 .. 0 = {}
      /\ DOMAIN <<>> = 1 .. 0
  OBVIOUS
<1>2. nothing[1] = <<>> /\ 0 + 1 = 1
  OBVIOUS
<1> HIDE DEF nothing
<1>3. LaidBy(<<>>, <<>>, <<>>, nothing, nothing, <<>>)
  BY <1>1, <1>2 DEF LaidBy
<1>4. Mark(<<>>, 1) = 0
  BY DEF Mark
<1> QED  BY <1>1, <1>2, <1>3, <1>4 DEF Laid

\* A piece is still there when the input goes on.
LEMMA HoldsLonger ==
  ASSUME NEW bytes \in Seq(Byte), NEW more \in Seq(Byte), NEW at \in Nat, NEW piece \in Seq(Byte),
         Holds(bytes, at, piece)
  PROVE  Holds(bytes \o more, at, piece)
<1> DEFINE whole == bytes \o more
           n == Len(piece)
<1>1. /\ Len(whole) = Len(bytes) + Len(more) /\ Len(bytes) \in Nat /\ Len(more) \in Nat
      /\ \A k \in 1 .. Len(bytes) : whole[k] = bytes[k]
  <2>1. Concatenates(Byte, bytes, more)
    BY ConcatMembers
  <2> QED  BY <2>1, Zenon DEF Concatenates
<1> HIDE DEF whole
<1>2. n \in Nat /\ at + n <= Len(bytes) /\ \A i \in 1 .. n : bytes[at + i] = piece[i]
  BY DEF Holds
<1> HIDE DEF n
<1>3. \A i \in 1 .. n : at + i \in 1 .. Len(bytes)
  BY <1>1, <1>2
<1>4. at + n <= Len(whole)
  BY <1>1, <1>2
<1> QED  BY <1>1, <1>2, <1>3, <1>4 DEF Holds, n, whole

LEMMA HoldsBehind ==
  ASSUME NEW bytes \in Seq(Byte), NEW piece \in Seq(Byte)
  PROVE  /\ Holds(bytes \o piece, Len(bytes), piece)
         /\ bytes \o piece \in Seq(Byte) /\ Len(bytes \o piece) = Len(bytes) + Len(piece)
<1> DEFINE whole == bytes \o piece
<1>1. /\ whole \in Seq(Byte) /\ Len(whole) = Len(bytes) + Len(piece)
      /\ Len(bytes) \in Nat /\ Len(piece) \in Nat
      /\ \A k \in 1 .. Len(piece) : whole[Len(bytes) + k] = piece[k]
  <2>1. Concatenates(Byte, bytes, piece)
    BY ConcatMembers
  <2> QED  BY <2>1, Zenon DEF Concatenates
<1> HIDE DEF whole
<1>2. Holds(whole, Len(bytes), piece)
  BY <1>1 DEF Holds
<1> QED  BY <1>1, <1>2 DEF whole

\* One more OBU.
LEMMA LaidGrows ==
  ASSUME NEW bytes, NEW V, NEW obus \in Seq(V), NEW stops, NEW last, Laid(bytes, obus, stops, last),
         NEW obu \in V, NEW piece, ReadsAs(piece, last, ReadsBackAs(obu)),
         Observe(last, ReadsBackAs(obu)) = Observe(last, obu)
  PROVE  Laid(bytes \o piece, Append(obus, obu), Append(stops, Len(bytes) + Len(piece)),
              Observe(last, obu))
<1> DEFINE n     == Len(stops)
           whole == bytes \o piece
           size  == Len(bytes) + Len(piece)
           more  == Append(stops, size)
           all   == Append(obus, obu)
           next  == Observe(last, obu)
<1>1. PICK known, own : LaidBy(bytes, obus, stops, known, own, last)
  BY DEF Laid
<1>2. /\ bytes \in Seq(Byte) /\ piece \in Seq(Byte) /\ stops \in Seq(Nat)
      /\ n \in Nat /\ Len(obus) = n /\ size \in Nat
      /\ Mark(stops, n + 1) = Len(bytes)
  BY DEF Laid, ReadsAs
<1>3. whole \in Seq(Byte) /\ Len(whole) = size /\ Holds(whole, Len(bytes), piece)
  BY <1>2, HoldsBehind
<1>4. /\ more \in Seq(Nat) /\ Len(more) = n + 1 /\ more[n + 1] = size
      /\ \A i \in 1 .. n : more[i] = stops[i]
  BY <1>2, AppendMembers
<1>5. /\ DOMAIN all = 1 .. n + 1 /\ Len(all) = n + 1 /\ all[n + 1] = obu
      /\ \A i \in 1 .. n : all[i] = obus[i]
  BY <1>2, AppendMembers
<1> DEFINE k2 == [i \in 1 .. (n + 1) + 1 |-> IF i = (n + 1) + 1 THEN next ELSE known[i]]
           o2 == [i \in 1 .. n + 1 |-> IF i = n + 1 THEN piece ELSE own[i]]
<1>6. /\ k2[(n + 1) + 1] = next /\ \A i \in 1 .. n + 1 : k2[i] = known[i]
      /\ o2[n + 1] = piece /\ \A i \in 1 .. n : o2[i] = own[i]
  <2>1. n \in Nat
    BY <1>2
  <2> HIDE DEF n, next
  <2> QED  BY <2>1
<1> HIDE DEF k2, o2, more, all, whole, size, next
<1>7. \A i \in 1 .. n + 1 : Mark(more, i) = Mark(stops, i)
  <2> SUFFICES ASSUME NEW i \in 1 .. n + 1 PROVE Mark(more, i) = Mark(stops, i)
    OBVIOUS
  <2>1. i # 1 => i - 1 \in 1 .. n
    BY <1>2
  <2> QED  BY <1>4, <2>1 DEF Mark
<1>8. /\ known[1] = <<>> /\ known[n + 1] = last
      /\ \A i \in 1 .. n : LaidAt(bytes, obus, stops, known, own, i)
  BY <1>1 DEF LaidBy
<1>9. ASSUME NEW i \in 1 .. n PROVE LaidAt(whole, all, more, k2, o2, i)
  <2>1. LaidAt(bytes, obus, stops, known, own, i)
    BY <1>8
  <2>2. i \in 1 .. n + 1 /\ i + 1 \in 1 .. n + 1
    BY <1>2
  <2>3. o2[i] = own[i] /\ k2[i] = known[i] /\ k2[i + 1] = known[i + 1] /\ all[i] = obus[i]
        /\ more[i] = stops[i] /\ Mark(more, i) = Mark(stops, i)
    BY <1>4, <1>5, <1>6, <1>7, <2>2
  <2>4. Mark(stops, i) \in Nat
    <3>1. i # 1 => i - 1 \in 1 .. n
      BY <1>2
    <3> QED  BY <1>2, <3>1 DEF Mark
  <2>5. Holds(whole, Mark(stops, i), own[i])
    BY <1>2, <2>1, <2>4, HoldsLonger DEF LaidAt, ReadsAs, whole
  <2> QED  BY <2>1, <2>3, <2>5 DEF LaidAt
<1>10. LaidAt(whole, all, more, k2, o2, n + 1)
  <2>1. n + 1 \in 1 .. n + 1
    BY <1>2
  <2>2. o2[n + 1] = piece /\ k2[n + 1] = last /\ k2[(n + 1) + 1] = next /\ all[n + 1] = obu
        /\ more[n + 1] = size /\ Mark(more, n + 1) = Len(bytes)
    BY <1>2, <1>4, <1>5, <1>6, <1>7, <1>8, <2>1
  <2> QED  BY <1>3, <2>2 DEF LaidAt, size, next
<1>11. LaidBy(whole, all, more, k2, o2, next)
  <2>1. 1 \in 1 .. n + 1 /\ \A i \in 1 .. n + 1 : i \in 1 .. n \/ i = n + 1
    BY <1>2
  <2>2. k2[1] = <<>>
    BY <1>6, <1>8, <2>1
  <2> QED  BY <1>4, <1>6, <1>9, <1>10, <2>1, <2>2 DEF LaidBy
<1>12. Mark(more, (n + 1) + 1) = Len(whole)
  <2>1. (n + 1) + 1 # 1 /\ ((n + 1) + 1) - 1 = n + 1
    BY <1>2
  <2> QED  BY <1>3, <1>4, <2>1 DEF Mark
<1> QED  BY <1>3, <1>4, <1>5, <1>11, <1>12 DEF Laid, whole, all, more, size, next

LEMMA MarksPlaced ==
  ASSUME NEW stops \in Seq(Nat)
  PROVE  /\ MarksOf(stops)[1] = 0
         /\ \A i \in 1 .. Len(stops) : MarksOf(stops)[i] = Mark(stops, i)
                                       /\ MarksOf(stops)[i + 1] = stops[i]
                                       /\ Mark(stops, i) \in Nat
         /\ MarksOf(stops)[Len(stops) + 1] = Mark(stops, Len(stops) + 1)
         /\ Listing(MarksOf(stops), Len(stops) + 1) = <<0>> \o stops
<1> DEFINE n == Len(stops)
           marks == MarksOf(stops)
<1>1. n \in Nat /\ \A i \in 1 .. n : stops[i] \in Nat
  OBVIOUS
<1>2. \A i \in 1 .. n + 1 : marks[i] = Mark(stops, i)
  BY DEF MarksOf
<1>3. marks[1] = 0
  <2>1. 1 \in 1 .. n + 1
    BY <1>1
  <2> QED  BY <1>2, <2>1 DEF Mark
<1>4. ASSUME NEW i \in 1 .. n
      PROVE  marks[i] = Mark(stops, i) /\ marks[i + 1] = stops[i] /\ Mark(stops, i) \in Nat
  <2>1. /\ i \in 1 .. n + 1 /\ i + 1 \in 1 .. n + 1 /\ i + 1 # 1 /\ (i + 1) - 1 = i
        /\ (i # 1 => i - 1 \in 1 .. n)
    BY <1>1
  <2> HIDE DEF marks
  <2> QED  BY <1>1, <1>2, <2>1 DEF Mark
<1>5. n + 1 \in 1 .. n + 1
  BY <1>1
<1>6. Listing(marks, n + 1) = <<0>> \o stops
  <2> DEFINE all == <<0>> \o stops
  <2>1. <<0>> \in Seq(Nat) /\ Len(<<0>>) = 1 /\ <<0>>[1] = 0
    OBVIOUS
  <2>2. Concatenates(Nat, <<0>>, stops)
    BY <2>1, ConcatMembers
  <2> HIDE DEF all
  <2>3. /\ all \in Seq(Nat) /\ DOMAIN all = 1 .. 1 + n /\ all[1] = 0
        /\ \A k \in 1 .. n : all[1 + k] = stops[k]
    BY <1>1, <2>1, <2>2 DEF Concatenates, all
  <2> HIDE DEF marks
  <2>4. ASSUME NEW i \in 1 .. n + 1 PROVE all[i] = marks[i]
    <3>1. CASE i = 1
      BY <1>3, <2>3, <3>1
    <3>2. CASE i # 1
      <4> DEFINE j == i - 1
      <4>1. j \in 1 .. n /\ i = j + 1 /\ i = 1 + j
        BY <1>1, <3>2
      <4> HIDE DEF j
      <4> QED  BY <1>4, <2>3, <4>1
    <3> QED  BY <3>1, <3>2
  <2>5. 1 + n = n + 1
    BY <1>1
  <2>6. all = [i \in 1 .. n + 1 |-> marks[i]]
    BY <2>3, <2>4, <2>5
  <2> QED  BY <2>6 DEF Listing, all
<1> QED  BY <1>2, <1>3, <1>4, <1>5, <1>6

\* A beginning of what is laid out is a chain of as many OBUs as are whole in it.
LEMMA LaidIsChain ==
  ASSUME NEW bytes, NEW obus, NEW stops, NEW last, Laid(bytes, obus, stops, last),
         NEW end \in 0 .. Len(bytes), NEW k \in 0 .. Len(stops), MarksOf(stops)[k + 1] <= end,
         \A i \in 1 .. k : stops[i] <= end
  PROVE  \E known : /\ k = Len(stops) => known[k + 1] = last
                    /\ Chain(SubSeq(bytes, 1, end), k, MarksOf(stops), known, ModelOf(obus))
<1> DEFINE n == Len(stops)
           own == SubSeq(bytes, 1, end)
           marks == MarksOf(stops)
           model == ModelOf(obus)
<1>1. PICK known, pieces : LaidBy(bytes, obus, stops, known, pieces, last)
  BY DEF Laid
<1>2. bytes \in Seq(Byte) /\ stops \in Seq(Nat) /\ n \in Nat /\ DOMAIN obus = 1 .. n
  BY DEF Laid
<1>3. \A i \in 1 .. n : LaidAt(bytes, obus, stops, known, pieces, i)
  BY <1>1 DEF LaidBy
<1>4. /\ marks[1] = 0
      /\ \A i \in 1 .. n : marks[i] = Mark(stops, i) /\ marks[i + 1] = stops[i]
                           /\ Mark(stops, i) \in Nat
  BY <1>2, MarksPlaced
<1> HIDE DEF marks
<1>5. ASSUME NEW i \in 1 .. k
      PROVE  /\ ObuIsRead(own, marks[i], marks[i + 1], known[i], model[i])
             /\ known[i + 1] = Observe(known[i], model[i])
  <2>1. i \in 1 .. n
    BY <1>2
  <2>2. LaidAt(bytes, obus, stops, known, pieces, i)
    BY <1>3, <2>1
  <2>3. model[i] = ReadsBackAs(obus[i])
    BY <1>2, <2>1 DEF ModelOf
  <2> DEFINE piece == pieces[i]
             at    == Mark(stops, i)
  <2>4. /\ at \in Nat /\ piece \in Seq(Byte) /\ Holds(bytes, at, piece)
        /\ at + Len(piece) = stops[i] /\ stops[i] <= end /\ marks[i] = at /\ marks[i + 1] = stops[i]
    BY <1>4, <2>1, <2>2 DEF LaidAt, ReadsAs
  <2>5. ReadsAs(piece, known[i], model[i])
    BY <2>2, <2>3 DEF LaidAt
  <2> HIDE DEF piece, at, model
  <2>6. own \in Seq(Byte) /\ Holds(own, at, piece)
    BY <1>2, <2>4, HoldsBefore
  <2> HIDE DEF own
  <2>7. ObuIsRead(own, at, at + Len(piece), known[i], model[i])
    BY <2>4, <2>5, <2>6, ReadWhereHeld
  <2>8. known[i + 1] = Observe(known[i], model[i])
    BY <2>2, <2>3 DEF LaidAt
  <2> QED  BY <2>4, <2>7, <2>8
<1>6. known[1] = <<>> /\ known[n + 1] = last
  BY <1>1 DEF LaidBy
<1> HIDE DEF own, model
<1>7. Chain(own, k, marks, known, model)
  BY <1>4, <1>5, <1>6 DEF Chain
<1> QED  BY <1>6, <1>7 DEF own, model, marks

LEMMA ModelListed ==
  ASSUME NEW obus, NEW n \in Nat, DOMAIN obus = 1 .. n, NEW k \in 0 .. n
  PROVE  Listing(ModelOf(obus), k) = [i \in 1 .. k |-> ReadsBackAs(obus[i])]
<1>1. \A i \in 1 .. k : i \in 1 .. n
  OBVIOUS
<1>2. \A i \in 1 .. k : ModelOf(obus)[i] = ReadsBackAs(obus[i])
  BY <1>1 DEF ModelOf
<1> QED  BY <1>2 DEF Listing

\* What is laid out is read, all of it and nothing else.
LaidIsReadAs(bytes, obus, stops) ==
  /\ ReadStream(bytes).err = Ok
  /\ ReadStream(bytes).at = <<0>> \o stops
  /\ ReadStream(bytes).obus = [i \in DOMAIN obus |-> ReadsBackAs(obus[i])]

LEMMA LaidIsRead ==
  ASSUME NEW bytes, NEW obus, NEW stops, NEW last, Laid(bytes, obus, stops, last)
  PROVE  LaidIsReadAs(bytes, obus, stops)
<1> DEFINE n == Len(stops)
           L == Len(bytes)
           marks == MarksOf(stops)
           model == ModelOf(obus)
<1>1. /\ bytes \in Seq(Byte) /\ stops \in Seq(Nat) /\ n \in Nat /\ DOMAIN obus = 1 .. n
      /\ L \in Nat /\ Mark(stops, n + 1) = L
  BY DEF Laid
<1>2. /\ marks[n + 1] = L
      /\ \A i \in 1 .. n : marks[i + 1] = stops[i]
      /\ Listing(marks, n + 1) = <<0>> \o stops
  BY <1>1, MarksPlaced
<1>3. SubSeq(bytes, 1, L) = bytes
  BY <1>1
<1>4. \A i \in 1 .. n : stops[i] <= L
  <2>1. PICK known, own : LaidBy(bytes, obus, stops, known, own, last)
    BY DEF Laid
  <2>2. ASSUME NEW i \in 1 .. n PROVE stops[i] <= L
    <3>1. LaidAt(bytes, obus, stops, known, own, i)
      BY <2>1 DEF LaidBy
    <3> QED  BY <3>1 DEF LaidAt, Holds
  <2> QED  BY <2>2
<1> HIDE DEF marks, model
<1>5. L \in 0 .. L /\ n \in 0 .. n /\ marks[n + 1] <= L
  BY <1>1, <1>2
<1>6. \E known : Chain(SubSeq(bytes, 1, L), n, marks, known, model)
  BY <1>4, <1>5, LaidIsChain DEF marks, model
<1>7. PICK known : Chain(bytes, n, marks, known, model)
  BY <1>3, <1>6
<1>8. Finishes(bytes, marks[n + 1])
  BY <1>2 DEF Finishes
<1>9. StreamIs(bytes, n, marks, known, model)
  BY <1>1, <1>7, <1>8, ChainIsRead
<1>10. ReadStream(bytes) = UpTo(marks, known, model, n, Ok)
  BY <1>2, <1>9 DEF StreamIs
<1>11. /\ ReadStream(bytes).err = Ok /\ ReadStream(bytes).at = Listing(marks, n + 1)
       /\ ReadStream(bytes).obus = Listing(model, n)
  BY <1>10 DEF UpTo
<1>12. Listing(model, n) = [i \in 1 .. n |-> ReadsBackAs(obus[i])]
  BY <1>1, <1>5, ModelListed DEF model
<1> QED  BY <1>1, <1>2, <1>11, <1>12 DEF LaidIsReadAs

\* The OBUs that are whole in a beginning are the first ones.
LEMMA WholeOnes ==
  ASSUME NEW bytes, NEW obus, NEW stops, NEW last, Laid(bytes, obus, stops, last),
         NEW end \in 1 .. Len(bytes) - 1
  PROVE  \E k \in 0 .. Len(stops) - 1 :
           /\ {i \in DOMAIN stops : stops[i] <= end} = 1 .. k
           /\ MarksOf(stops)[k + 1] <= end /\ stops[k + 1] > end
<1> DEFINE n == Len(stops)
           S == {i \in 1 .. n : stops[i] > end}
           marks == MarksOf(stops)
<1>1. /\ bytes \in Seq(Byte) /\ stops \in Seq(Nat) /\ n \in Nat /\ DOMAIN stops = 1 .. n
      /\ Mark(stops, n + 1) = Len(bytes) /\ end \in Nat /\ end < Len(bytes) /\ Len(bytes) \in Nat
  BY DEF Laid
<1>2. n # 0 /\ stops[n] > end
  <2>1. CASE n = 0
    BY <1>1, <2>1 DEF Mark
  <2>2. CASE n # 0
    <3>1. n + 1 # 1 /\ (n + 1) - 1 = n
      BY <1>1, <2>2
    <3> QED  BY <1>1, <2>2, <3>1 DEF Mark
  <2> QED  BY <2>1, <2>2
<1>3. n \in S /\ S \in SUBSET Nat
  BY <1>1, <1>2
<1>4. PICK j \in S : \A m \in S : j <= m
  BY <1>3, LeastMember
<1>5. j \in 1 .. n /\ stops[j] > end
  OBVIOUS
<1> DEFINE k == j - 1
<1>6. k \in 0 .. n - 1 /\ k + 1 = j
  BY <1>1, <1>5
<1>7. ASSUME NEW i \in 1 .. n, i <= k PROVE stops[i] <= end
  <2>1. i \notin S
    BY <1>1, <1>4, <1>6, <1>7
  <2>2. stops[i] \in Nat
    BY <1>1
  <2> QED  BY <1>1, <2>1, <2>2
<1>8. \A a, b \in 1 .. n : a <= b => stops[a] <= stops[b]
  <2>1. PICK known, own : LaidBy(bytes, obus, stops, known, own, last)
    BY DEF Laid
  <2>2. ASSUME NEW i \in 1 .. n - 1 PROVE stops[i] <= stops[i + 1]
    <3>1. i + 1 \in 1 .. n /\ i + 1 # 1 /\ (i + 1) - 1 = i /\ stops[i] \in Nat
      BY <1>1
    <3>2. stops[i + 1] = Mark(stops, i + 1) + Len(own[i + 1]) /\ own[i + 1] \in Seq(Byte)
      BY <2>1, <3>1 DEF LaidBy, LaidAt, ReadsAs
    <3>3. Mark(stops, i + 1) = stops[i]
      BY <3>1 DEF Mark
    <3> DEFINE size == Len(own[i + 1])
    <3>4. size \in Nat
      BY <3>2
    <3> HIDE DEF size
    <3> QED  BY <3>1, <3>2, <3>3, <3>4 DEF size
  <2>3. stops \in [1 .. n -> Nat]
    BY <1>1
  <2> QED  BY <1>1, <2>2, <2>3, NeverFalls
<1>9. ASSUME NEW i \in 1 .. n, ~ (i <= k) PROVE ~ (stops[i] <= end)
  <2>1. j <= i
    BY <1>1, <1>5, <1>6, <1>9
  <2>2. stops[j] <= stops[i] /\ stops[i] \in Nat /\ stops[j] \in Nat
    BY <1>1, <1>5, <1>8, <2>1
  <2> QED  BY <1>1, <1>5, <2>2
<1>10. {i \in DOMAIN stops : stops[i] <= end} = 1 .. k
  <2>1. \A i \in 1 .. k : i \in 1 .. n
    BY <1>1, <1>6
  <2>2. \A i \in 1 .. n : i <= k <=> i \in 1 .. k
    BY <1>1, <1>6
  <2> HIDE DEF k, n
  <2> QED  BY <1>1, <1>7, <1>9, <2>1, <2>2
<1>11. marks[k + 1] <= end
  <2>1. CASE k = 0
    <3>1. marks[1] = 0
      BY <1>1, MarksPlaced
    <3> QED  BY <1>1, <2>1, <3>1
  <2>2. CASE k # 0
    <3>1. k \in 1 .. n
      BY <1>1, <1>6, <2>2
    <3>2. marks[k + 1] = stops[k]
      BY <1>1, <3>1, MarksPlaced
    <3>3. k <= k
      BY <1>6
    <3> QED  BY <1>7, <3>1, <3>2, <3>3
  <2> QED  BY <2>1, <2>2
<1> QED  BY <1>5, <1>6, <1>10, <1>11

\* A beginning of what is laid out is read up to the last OBU that is whole in
\* it, and the walk stops where the reader does.
CutIsReadAs(whole, obus, stops, end) ==
  LET cut   == SubSeq(whole, 1, end)
      count == Cardinality({i \in DOMAIN stops : stops[i] <= end})
      clean == end = (<<0>> \o stops)[count + 1]
  IN  /\ ReadStream(cut).obus = [i \in 1 .. count |-> ReadsBackAs(obus[i])]
      /\ ReadStream(cut).err = IF clean THEN Ok ELSE "UnexpectedEndOfInput"
      /\ FindObuBoundaries(cut).at = ReadStream(cut).at
      /\ FindObuBoundaries(cut).err = IF clean THEN Ok ELSE "TruncatedObu"

LEMMA CutIsRead ==
  ASSUME NEW whole, NEW obus, NEW stops, NEW last, Laid(whole, obus, stops, last),
         NEW end \in 1 .. Len(whole) - 1
  PROVE  CutIsReadAs(whole, obus, stops, end)
<1> DEFINE n == Len(stops)
           cut == SubSeq(whole, 1, end)
           marks == MarksOf(stops)
           model == ModelOf(obus)
<1>1. /\ whole \in Seq(Byte) /\ stops \in Seq(Nat) /\ n \in Nat /\ DOMAIN obus = 1 .. n
      /\ DOMAIN stops = 1 .. n /\ end \in 0 .. Len(whole) /\ end \in Nat /\ Len(whole) \in Nat
      /\ Mark(stops, n + 1) = Len(whole)
  BY DEF Laid
<1>2. PICK k \in 0 .. n - 1 : /\ {i \in DOMAIN stops : stops[i] <= end} = 1 .. k
                              /\ marks[k + 1] <= end /\ stops[k + 1] > end
  BY WholeOnes
<1>3. Cardinality({i \in DOMAIN stops : stops[i] <= end}) = k
  <2>1. Cardinality(1 .. k) = k
    <3>1. k \in Nat
      BY <1>1
    <3> QED  BY <3>1, FS_Interval
  <2> QED  BY <1>2, <2>1
<1>4. /\ cut \in Seq(Byte) /\ Len(cut) = end
  BY <1>1
<1>5. /\ \A i \in 1 .. n : marks[i] = Mark(stops, i) /\ marks[i + 1] = stops[i]
                           /\ Mark(stops, i) \in Nat
      /\ Listing(marks, n + 1) = <<0>> \o stops
      /\ marks[n + 1] = Len(whole)
  BY <1>1, MarksPlaced
<1>6. k \in Nat /\ k + 1 \in 1 .. n /\ k + 1 \in 1 .. n + 1 /\ k \in 0 .. n /\ k # n
      /\ n \in 0 .. n
  <2>1. n \in Nat
    BY <1>1
  <2> HIDE DEF n
  <2> QED  BY <1>2, <2>1
<1>7. marks[k + 1] \in Nat /\ marks[(k + 1) + 1] = stops[k + 1]
  BY <1>5, <1>6
<1>8. (<<0>> \o stops)[k + 1] = marks[k + 1]
  BY <1>5, <1>6 DEF Listing
<1>9. \A i \in 1 .. k : stops[i] <= end
  BY <1>2
<1> HIDE DEF marks, model, cut
<1>10. PICK known : Chain(cut, k, marks, known, model)
  <2>1. \E known : Chain(SubSeq(whole, 1, end), k, marks, known, model)
    BY Zenon, <1>1, <1>2, <1>6, <1>9, LaidIsChain DEF marks, model
  <2> QED  BY <2>1 DEF cut
<1>11. marks[k + 1] # end => CutShort(cut, marks[k + 1])
  <2> SUFFICES ASSUME marks[k + 1] # end PROVE CutShort(cut, marks[k + 1])
    OBVIOUS
  <2>1. Len(whole) \in 0 .. Len(whole) /\ marks[n + 1] <= Len(whole)
        /\ SubSeq(whole, 1, Len(whole)) = whole
    BY <1>1, <1>5
  <2>2. \A i \in 1 .. n : stops[i] <= Len(whole)
    <3>1. PICK known2, own : LaidBy(whole, obus, stops, known2, own, last)
      BY DEF Laid
    <3>2. ASSUME NEW i \in 1 .. n PROVE stops[i] <= Len(whole)
      <4>1. LaidAt(whole, obus, stops, known2, own, i)
        BY <3>1 DEF LaidBy
      <4> QED  BY <4>1 DEF LaidAt, Holds
    <3> QED  BY <3>2
  <2>3. \E known2 : Chain(SubSeq(whole, 1, Len(whole)), n, marks, known2, model)
    BY <1>6, <2>1, <2>2, LaidIsChain DEF marks, model
  <2>4. PICK known2 : Chain(whole, n, marks, known2, model)
    BY <2>1, <2>3
  <2> DEFINE at == marks[k + 1]
  <2>5. ObuIsRead(whole, marks[k + 1], marks[(k + 1) + 1], known2[k + 1], model[k + 1])
    BY <1>6, <2>4 DEF Chain
  <2>6. /\ at \in 0 .. Len(whole) - 1 /\ ReadFrame(whole, at).err = Ok
        /\ ReadFrame(whole, at).next = stops[k + 1]
    BY <1>7, <2>5 DEF ObuIsRead
  <2> HIDE DEF at
  <2>7. at \in Nat /\ at <= end /\ at # end
    BY <1>2, <1>7 DEF at
  <2>8. end \in at + 1 .. Len(whole) /\ ReadFrame(whole, at).next > end
    BY <1>1, <1>2, <2>6, <2>7
  <2>9. CutShort(SubSeq(whole, 1, end), at)
    BY <1>1, <2>6, <2>8, FrameCut
  <2> QED  BY <2>9 DEF at, cut
<1>12. Finishes(cut, marks[k + 1])
  <2>1. CASE marks[k + 1] = end
    BY <1>4, <2>1 DEF Finishes
  <2>2. CASE marks[k + 1] # end
    <3>1. marks[k + 1] \in 0 .. Len(cut) - 1
      BY <1>1, <1>2, <1>4, <1>7, <2>2
    <3> QED  BY <1>11, <2>2, <3>1 DEF Finishes
  <2> QED  BY <2>1, <2>2
<1> DEFINE err == IF marks[k + 1] = end THEN Ok ELSE "UnexpectedEndOfInput"
           stop == IF marks[k + 1] = end THEN Ok ELSE "TruncatedObu"
<1>13. ReadStream(cut) = UpTo(marks, known, model, k, err)
  <2>1. StreamIs(cut, k, marks, known, model)
    BY <1>4, <1>6, <1>10, <1>12, ChainIsRead
  <2> QED  BY <1>4, <2>1 DEF StreamIs
<1>14. FindObuBoundaries(cut).at = Listing(marks, k + 1) /\ FindObuBoundaries(cut).err = stop
  <2>1. WalkIs(k, marks, FindObuBoundaries(cut), stop)
    <3>1. WalkIs(k, marks, FindObuBoundaries(cut),
                 IF marks[k + 1] = Len(cut) THEN Ok ELSE "TruncatedObu")
      BY <1>4, <1>6, <1>10, <1>12, WalkAtMarks
    <3> QED  BY <1>4, <3>1
  <2> QED  BY <2>1 DEF WalkIs
<1> HIDE DEF err, stop
<1>15. /\ ReadStream(cut).err = err /\ ReadStream(cut).at = Listing(marks, k + 1)
       /\ ReadStream(cut).obus = Listing(model, k)
  BY <1>13 DEF UpTo
<1>16. Listing(model, k) = [i \in 1 .. k |-> ReadsBackAs(obus[i])]
  BY Zenon, <1>1, <1>6, ModelListed DEF model
<1> HIDE DEF n
<1>17. CASE marks[k + 1] = end
  BY <1>3, <1>8, <1>14, <1>15, <1>16, <1>17, Zenon DEF CutIsReadAs, cut, err, stop
<1>18. CASE marks[k + 1] # end
  BY <1>3, <1>8, <1>14, <1>15, <1>16, <1>18, Zenon DEF CutIsReadAs, cut, err, stop
<1> QED  BY <1>17, <1>18

----------------------------------------------------------------------------
(* What was written is read, whole and cut                                 *)

\* Until it is damaged the stream is what was written; a cut one is a beginning
\* of that.
StreamHeld ==
  CASE damage.kind = "none" -> damage = NoDamage /\ Laid(stream, written, ends, registry)
    [] damage.kind = "cut"  ->
         \E whole : /\ Laid(whole, written, ends, registry)
                    /\ damage.at \in 0 .. Len(whole) - 1
                    /\ stream = SubSeq(whole, 1, damage.at)
    [] OTHER -> TRUE

ReadOnce == parsed = None \/ (stream # <<>> /\ parsed = Some(ReadStream(stream)))

AsWritten == (\E V : written \in Seq(V)) /\ StreamHeld /\ ReadOnce

LEMMA NothingIsHeld == Init => AsWritten
<1> SUFFICES ASSUME Init PROVE AsWritten
  OBVIOUS
<1>1. Laid(stream, written, ends, registry)
  BY NothingLaid DEF Init
<1>2. damage.kind = "none" /\ damage = NoDamage /\ parsed = None
  BY DEF Init, NoDamage
<1>3. written \in Seq({})
  BY DEF Init
<1> QED  BY <1>1, <1>2, <1>3 DEF AsWritten, StreamHeld, ReadOnce

LEMMA AppendHolds ==
  ASSUME AsWritten, Writable, NEW obu, NEW own, NEW padding, own = WriteObu(registry, obu, padding),
         ReadsAlone(registry, obu, padding), AppendBytes(obu, own)
  PROVE  AsWritten'
<1>1. damage = NoDamage /\ damage.kind = "none" /\ parsed = None
  BY DEF Writable, NoDamage
<1>2. Laid(stream, written, ends, registry)
  BY <1>1 DEF AsWritten, StreamHeld
<1>3. PICK V : written \in Seq(V)
  BY DEF AsWritten
<1> DEFINE W == V \cup {obu}
<1>4. written \in Seq(W) /\ obu \in W
  <2>1. V \subseteq W
    OBVIOUS
  <2>2. written \in Seq(W)
    BY <1>3, <2>1
  <2> QED  BY <2>2
<1>5. /\ own.err = Ok /\ stream' = stream \o own.bytes /\ written' = Append(written, obu)
      /\ ends' = Append(ends, Len(stream) + Len(own.bytes))
      /\ registry' = Observe(registry, obu) /\ damage' = damage /\ parsed' = parsed
  BY DEF AppendBytes
<1>6. /\ ReadsAs(own.bytes, registry, ReadsBackAs(obu))
      /\ Observe(registry, ReadsBackAs(obu)) = Observe(registry, obu)
  BY <1>5 DEF ReadsAlone
<1> HIDE DEF W
<1>7. Laid(stream \o own.bytes, Append(written, obu),
           Append(ends, Len(stream) + Len(own.bytes)), Observe(registry, obu))
  BY <1>2, <1>4, <1>6, LaidGrows
<1>8. Laid(stream', written', ends', registry')
  BY <1>5, <1>7
<1>9. written' \in Seq(W)
  BY <1>4, <1>5
<1> QED  BY <1>1, <1>5, <1>8, <1>9 DEF AsWritten, StreamHeld, ReadOnce

LEMMA CutHolds ==
  ASSUME AsWritten, Cut
  PROVE  AsWritten'
<1>1. damage = NoDamage /\ damage.kind = "none" /\ parsed = None
  BY DEF Cut, Undamaged, NoDamage
<1>2. Laid(stream, written, ends, registry)
  BY <1>1 DEF AsWritten, StreamHeld
<1>3. PICK n \in 0 .. Len(stream) - 1 : /\ stream' = SubSeq(stream, 1, n)
                                        /\ damage' = [kind |-> "cut", at |-> n]
  BY DEF Cut
<1>4. written' = written /\ ends' = ends /\ registry' = registry /\ parsed' = parsed
  BY DEF Cut
<1>5. damage'.kind = "cut" /\ damage'.at = n
  BY <1>3
<1>6. StreamHeld'
  <2>1. \E whole : /\ Laid(whole, written', ends', registry')
                   /\ damage'.at \in 0 .. Len(whole) - 1
                   /\ stream' = SubSeq(whole, 1, damage'.at)
    BY <1>2, <1>3, <1>4, <1>5
  <2> QED  BY <1>5, <2>1 DEF StreamHeld
<1> QED  BY <1>1, <1>4, <1>6 DEF AsWritten, ReadOnce

LEMMA OthersHold ==
  ASSUME AsWritten, Cut \/ Garble \/ ReadBack \/ UNCHANGED vars
  PROVE  AsWritten'
<1>1. CASE Cut
  BY <1>1, CutHolds
<1>2. CASE Garble
  <2>1. damage'.kind = "byte" /\ written' = written /\ parsed' = parsed /\ parsed = None
    BY <1>2 DEF Garble, Undamaged
  <2> QED  BY <2>1 DEF AsWritten, StreamHeld, ReadOnce
<1>3. CASE ReadBack
  <2>1. /\ stream # <<>> /\ parsed' = Some(ReadStream(stream)) /\ stream' = stream
        /\ written' = written /\ ends' = ends /\ registry' = registry /\ damage' = damage
    BY <1>3 DEF ReadBack
  <2>2. ReadOnce'
    BY <2>1 DEF ReadOnce
  <2>3. StreamHeld'
    BY <2>1 DEF AsWritten, StreamHeld
  <2> QED  BY <2>1, <2>2, <2>3 DEF AsWritten
<1>4. CASE UNCHANGED vars
  <2>1. /\ stream' = stream /\ parsed' = parsed
        /\ written' = written /\ ends' = ends /\ registry' = registry /\ damage' = damage
    BY <1>4 DEF vars
  <2>2. ReadOnce'
    BY <2>1 DEF AsWritten, ReadOnce
  <2>3. StreamHeld'
    BY <2>1 DEF AsWritten, StreamHeld
  <2> QED  BY <2>1, <2>2, <2>3 DEF AsWritten
<1> QED  BY <1>1, <1>2, <1>3, <1>4

LEMMA StepHolds ==
  ASSUME AsWritten, EachReadsAlone, [Next]_vars
  PROVE  AsWritten'
<1>1. CASE WriteOwn
  <2>1. Writable
    BY <1>1 DEF WriteOwn
  <2>2. PICK obu \in Candidates : AppendBytes(obu, WriteObu(registry, obu, 0))
    BY <1>1 DEF WriteOwn, AppendObu
  <2>3. ReadsAlone(registry, obu, 0)
    BY DEF EachReadsAlone
  <2> QED  BY <2>1, <2>2, <2>3, AppendHolds
<1>2. CASE WriteForeign
  <2>1. Writable
    BY <1>2 DEF WriteForeign
  <2>2. PICK obu \in Candidates \cap ForeignObus :
          AppendBytes(obu, WriteObu(registry, obu, 1))
    BY <1>2 DEF WriteForeign, AppendObu
  <2>3. ReadsAlone(registry, obu, 1)
    BY DEF EachReadsAlone
  <2> QED  BY <2>1, <2>2, <2>3, AppendHolds
<1>3. CASE Cut \/ Garble \/ ReadBack \/ UNCHANGED vars
  BY <1>3, OthersHold
<1> QED  BY <1>1, <1>2, <1>3 DEF Next

LEMMA HeldIsReadBack == AsWritten => WrittenReadsBack
<1> SUFFICES ASSUME AsWritten, damage = NoDamage, parsed # None
             PROVE  /\ Result.err = Ok
                    /\ Result.at = <<0>> \o ends
                    /\ Result.obus = [i \in DOMAIN written |-> ReadsBackAs(written[i])]
  BY DEF WrittenReadsBack
<1>1. damage.kind = "none"
  BY DEF NoDamage
<1>2. Laid(stream, written, ends, registry)
  BY <1>1 DEF AsWritten, StreamHeld
<1>3. Result = ReadStream(stream)
  BY DEF AsWritten, ReadOnce, Result, Some
<1>4. LaidIsReadAs(stream, written, ends)
  BY <1>2, LaidIsRead
<1> QED  BY <1>3, <1>4, Zenon DEF LaidIsReadAs

LEMMA HeldReportsCut == AsWritten => CutIsReported
<1> SUFFICES ASSUME AsWritten, damage.kind = "cut", parsed # None
             PROVE  CutIsReported
  BY DEF CutIsReported
<1>1. StreamHeld
  BY DEF AsWritten
<1>2. PICK whole : /\ Laid(whole, written, ends, registry)
                   /\ damage.at \in 0 .. Len(whole) - 1
                   /\ stream = SubSeq(whole, 1, damage.at)
  BY <1>1 DEF StreamHeld
<1>3. Result = ReadStream(stream) /\ stream # <<>>
  BY DEF AsWritten, ReadOnce, Result, Some
<1>4. damage.at \in 1 .. Len(whole) - 1
  <2> DEFINE at == damage.at
             size == Len(whole)
  <2>1. whole \in Seq(Byte) /\ size \in Nat
    BY <1>2 DEF Laid
  <2>2. CASE at = 0
    <3>1. SubSeq(whole, 1, 0) = <<>>
      BY <2>1
    <3> QED  BY <1>2, <1>3, <2>2, <3>1
  <2>3. CASE at # 0
    <3>1. at \in 0 .. size - 1
      BY <1>2
    <3> HIDE DEF at, size
    <3>2. at \in 1 .. size - 1
      BY <2>1, <2>3, <3>1
    <3> QED  BY <3>2 DEF at, size
  <2> QED  BY <2>2, <2>3
<1>5. CutIsReadAs(whole, written, ends, damage.at)
  BY <1>2, <1>4, CutIsRead
<1>6. CutIsReadAs(whole, written, ends, damage.at) => CutIsReported
  BY <1>2, <1>3, Zenon DEF CutIsReadAs, CutIsReported
<1> QED  BY <1>5, <1>6

\* Provided each OBU by itself, framed by whomever, reads back as it was written
\* (sequence/reader.rs, obu.rs), a stream of them does, whatever follows what,
\* and it publishes to its reader the definitions it did to its writer: no
\* boundary between two OBUs is lost or made up.
THEOREM StreamReadsBack == Spec /\ []EachReadsAlone => []WrittenReadsBack
<1>1. AsWritten /\ EachReadsAlone /\ [Next]_vars => AsWritten'
  BY StepHolds
<1> QED  BY <1>1, NothingIsHeld, HeldIsReadBack, PTL DEF Spec

\* Under the same condition, a stream cut at any byte yields the OBUs before
\* the cut, and an error unless the cut is between two OBUs, from the reader
\* and from the walk alike.
THEOREM CutStreamIsReported == Spec /\ []EachReadsAlone => []CutIsReported
<1>1. AsWritten /\ EachReadsAlone /\ [Next]_vars => AsWritten'
  BY StepHolds
<1> QED  BY <1>1, NothingIsHeld, HeldReportsCut, PTL DEF Spec

----------------------------------------------------------------------------
(* Chains of reads                                                         *)

ReadTable(r, steps, n, f) ==
  f = [i \in 0 .. n |-> IF i = 0 THEN r ELSE ReadStep(f[i - 1], steps[i])]

LEMMA ReadTableExists ==
  ASSUME NEW r, NEW steps, NEW m \in Nat
  PROVE  \E f : ReadTable(r, steps, m, f)
<1> DEFINE S == {k \in Nat : \E f : ReadTable(r, steps, k, f)}
           Next1(h, i) == IF i = 0 THEN r ELSE ReadStep(h[i - 1], steps[i])
<1>1. 0 \in S
  <2> DEFINE f == [i \in 0 .. 0 |-> r]
  <2>1. f = [i \in 0 .. 0 |-> IF i = 0 THEN r ELSE ReadStep(f[i - 1], steps[i])]
    <3>1. \A i \in 0 .. 0 : i = 0
      OBVIOUS
    <3> HIDE DEF f
    <3>2. [i \in 0 .. 0 |-> r]
            = [i \in 0 .. 0 |-> IF i = 0 THEN r ELSE ReadStep(f[i - 1], steps[i])]
      BY <3>1
    <3> QED  BY <3>2 DEF f
  <2> HIDE DEF f
  <2> QED  BY <2>1 DEF ReadTable
<1>2. ASSUME NEW k \in Nat, k \in S PROVE k + 1 \in S
  <2>1. PICK f : ReadTable(r, steps, k, f)
    BY <1>2
  <2> DEFINE g == [i \in 0 .. (k + 1) |-> Next1(f, i)]
  <2>2. \A i \in 0 .. k : f[i] = Next1(f, i)
    BY <2>1 DEF ReadTable
  <2>3. \A i \in 0 .. k : g[i] = f[i]
    <3> HIDE DEF Next1
    <3>1. \A i \in 0 .. k : i \in 0 .. (k + 1)
      OBVIOUS
    <3> QED  BY <2>2, <3>1
  <2>4. \A i \in 0 .. (k + 1) : Next1(g, i) = Next1(f, i)
    <3> HIDE DEF g
    <3>1. \A i \in 0 .. (k + 1) : i # 0 => i - 1 \in 0 .. k
      OBVIOUS
    <3> QED  BY <2>3, <3>1
  <2>5. g = [i \in 0 .. (k + 1) |-> Next1(g, i)]
    <3> HIDE DEF Next1
    <3> QED  BY <2>4
  <2>6. ReadTable(r, steps, k + 1, g)
    BY <2>5 DEF ReadTable
  <2> QED  BY <2>6
<1> HIDE DEF S
<1>3. Nat \subseteq S
  BY <1>1, <1>2, NaturalSteps
<1> QED  BY <1>3 DEF S

\* A chain is read step by step.
ReadThrough(r, steps, n, f) ==
  /\ f[0] = r /\ Read(r, steps) = f[n]
  /\ \A i \in 1 .. n : f[i] = ReadStep(f[i - 1], steps[i])

LEMMA ReadRuns ==
  ASSUME NEW r, NEW steps, NEW n \in Nat, Len(steps) = n
  PROVE  \E f : ReadThrough(r, steps, n, f)
<1> DEFINE f == CHOOSE f : ReadTable(r, steps, n, f)
<1>1. ReadTable(r, steps, n, f)
  BY ReadTableExists
<1>2. Read(r, steps) = f[n]
  BY DEF Read, ReadTable
<1> HIDE DEF f
<1>3. 0 \in 0 .. n /\ \A i \in 1 .. n : i \in 0 .. n /\ i # 0
  OBVIOUS
<1> QED  BY <1>1, <1>2, <1>3 DEF ReadTable, ReadThrough

LEMMA ReadOne ==
  ASSUME NEW r, NEW a
  PROVE  Read(r, <<a>>) = ReadStep(r, a)
<1>1. Len(<<a>>) = 1 /\ <<a>>[1] = a /\ 1 - 1 = 0 /\ 1 \in Nat /\ 1 \in 1 .. 1
  OBVIOUS
<1>2. PICK f : ReadThrough(r, <<a>>, 1, f)
  BY <1>1, ReadRuns
<1> QED  BY <1>1, <1>2 DEF ReadThrough

LEMMA ReadTwo ==
  ASSUME NEW r, NEW a, NEW b
  PROVE  Read(r, <<a, b>>) = ReadStep(ReadStep(r, a), b)
<1> DEFINE s == <<a, b>>
<1>1. Len(s) = 2 /\ s[1] = a /\ s[2] = b
  OBVIOUS
<1>2. 1 - 1 = 0 /\ 2 - 1 = 1 /\ 2 \in Nat /\ 1 \in 1 .. 2 /\ 2 \in 1 .. 2
  OBVIOUS
<1> HIDE DEF s
<1>3. PICK f : ReadThrough(r, s, 2, f)
  BY <1>1, <1>2, ReadRuns
<1>4. f[1] = ReadStep(r, a) /\ f[2] = ReadStep(f[1], b) /\ Read(r, s) = f[2]
  BY <1>1, <1>2, <1>3 DEF ReadThrough
<1> QED  BY <1>4 DEF s

LEMMA ReadFour ==
  ASSUME NEW r, NEW a, NEW b, NEW c, NEW d
  PROVE  Read(r, <<a, b, c, d>>) = ReadStep(ReadStep(ReadStep(ReadStep(r, a), b), c), d)
<1> DEFINE s == <<a, b, c, d>>
<1>1. Len(s) = 4 /\ s[1] = a /\ s[2] = b /\ s[3] = c /\ s[4] = d
  OBVIOUS
<1>2. /\ 1 - 1 = 0 /\ 2 - 1 = 1 /\ 3 - 1 = 2 /\ 4 - 1 = 3 /\ 4 \in Nat
      /\ 1 \in 1 .. 4 /\ 2 \in 1 .. 4 /\ 3 \in 1 .. 4 /\ 4 \in 1 .. 4
  OBVIOUS
<1> HIDE DEF s
<1>3. PICK f : ReadThrough(r, s, 4, f)
  BY <1>1, <1>2, ReadRuns
<1>4. /\ f[1] = ReadStep(r, a) /\ f[2] = ReadStep(f[1], b) /\ f[3] = ReadStep(f[2], c)
      /\ f[4] = ReadStep(f[3], d) /\ Read(r, s) = f[4]
  BY <1>1, <1>2, <1>3 DEF ReadThrough
<1> QED  BY <1>4 DEF s

\* A cursor between two bytes that has met no error.
Between(bytes, k, out) == [bytes |-> bytes, at |-> 8 * k, err |-> Ok, out |-> out]

LEMMA BetweenBytes ==
  ASSUME NEW bytes \in Seq(Byte), NEW k \in 0 .. Len(bytes), NEW out
  PROVE  /\ IsByteAligned(Between(bytes, k, out))
         /\ BytePosition(Between(bytes, k, out)) = k
         /\ BitsRemaining(Between(bytes, k, out)) = 8 * (Len(bytes) - k)
         /\ BytesRemaining(Between(bytes, k, out)) = Len(bytes) - k
<1> DEFINE r == Between(bytes, k, out)
           n == Len(bytes)
<1>1. r.at = 8 * k /\ r.bytes = bytes
  BY DEF Between
<1>2. n \in Nat /\ k \in 0 .. n
  OBVIOUS
<1> HIDE DEF r, n
<1>3. (8 * k) % 8 = 0 /\ (8 * k) \div 8 = k /\ 8 * n - 8 * k = 8 * (n - k)
  BY <1>2
<1>4. (8 * (n - k)) \div 8 = n - k
  BY <1>2
<1> QED  BY <1>1, <1>3, <1>4 DEF IsByteAligned, BytePosition, BitsRemaining, BytesRemaining, r, n

\* What was taken are whole bytes.
LEMMA TakenBytes ==
  ASSUME NEW bytes, NEW k \in Nat, NEW out, NEW n \in Nat, NEW v
  PROVE  Taken(Between(bytes, k, out), 8 * n, v) = Between(bytes, k + n, Append(out, v))
<1>1. 8 * k + 8 * n = 8 * (k + n)
  OBVIOUS
<1> DEFINE more == Append(out, v)
           a == 8 * k
           b == 8 * n
           c == 8 * (k + n)
<1>2. a + b = c
  BY <1>1
<1> HIDE DEF more, a, b, c
<1> DEFINE r == [bytes |-> bytes, at |-> a, err |-> Ok, out |-> out]
<1>3. r.at = a /\ r.out = out
  OBVIOUS
<1>4. PICK moved : moved = [r EXCEPT !.at = c, !.out = more]
  OBVIOUS
<1>5. moved = [bytes |-> bytes, at |-> c, err |-> Ok, out |-> more]
  BY <1>4
<1>6. Taken(r, b, v) = [r EXCEPT !.at = r.at + b, !.out = Append(r.out, v)]
  BY Zenon DEF Taken
<1> HIDE DEF r
<1>7. Taken(r, b, v) = [r EXCEPT !.at = c, !.out = more]
  BY <1>2, <1>3, <1>6 DEF more
<1> QED  BY <1>4, <1>5, <1>7, Zenon DEF Between, r, more, a, b, c

\* Bytes are read as they are.
LEMMA SpanTaken ==
  ASSUME NEW bytes \in Seq(Byte), NEW k \in 0 .. Len(bytes), NEW out, NEW n \in Nat,
         k + n <= Len(bytes)
  PROVE  ReadStep(Between(bytes, k, out), Span(n))
           = Between(bytes, k + n, Append(out, SubSeq(bytes, k + 1, k + n)))
<1> DEFINE r == Between(bytes, k, out)
           v == SubSeq(bytes, k + 1, k + n)
<1>1. /\ IsByteAligned(r) /\ BytePosition(r) = k /\ BytesRemaining(r) = Len(bytes) - k
  BY BetweenBytes
<1>2. r.err = Ok /\ r.bytes = bytes
  BY DEF Between
<1>3. k \in Nat /\ ~ (n > Len(bytes) - k)
  OBVIOUS
<1>4. Taken(r, 8 * n, v) = Between(bytes, k + n, Append(out, v))
  BY <1>3, TakenBytes
<1> HIDE DEF r
<1>5. ReadStep(r, Span(n)) = ReadSpan(r, n)
  BY <1>2 DEF ReadStep, Span
<1>6. ReadSpan(r, n) = Taken(r, 8 * n, v)
  BY <1>1, <1>2, <1>3 DEF ReadSpan
<1> QED  BY <1>4, <1>5, <1>6 DEF r, v

LEMMA RestTaken ==
  ASSUME NEW bytes \in Seq(Byte), NEW k \in 0 .. Len(bytes), NEW out
  PROVE  ReadStep(Between(bytes, k, out), Rest)
           = Between(bytes, Len(bytes), Append(out, SubSeq(bytes, k + 1, Len(bytes))))
<1> DEFINE r == Between(bytes, k, out)
           n == Len(bytes)
           m == n - k
           v == SubSeq(bytes, k + 1, n)
<1>1. /\ IsByteAligned(r) /\ BytePosition(r) = k /\ BytesRemaining(r) = m
  BY BetweenBytes
<1>2. r.err = Ok /\ r.bytes = bytes
  BY DEF Between
<1>3. k \in Nat /\ m \in Nat /\ k + m = n /\ ~ (m > m)
  OBVIOUS
<1> HIDE DEF m, n
<1>4. Taken(r, 8 * m, v) = Between(bytes, n, Append(out, v))
  BY <1>3, TakenBytes
<1> HIDE DEF r
<1>5. ReadStep(r, Rest) = ReadSpan(r, BytesRemaining(r))
  BY <1>2 DEF ReadStep, Rest
<1>6. ReadSpan(r, m) = Taken(r, 8 * m, v)
  BY <1>1, <1>2, <1>3 DEF ReadSpan, v
<1> QED  BY <1>1, <1>4, <1>5, <1>6 DEF r, v, n

\* A value is read where it is spelled.
LEMMA UlebTaken ==
  ASSUME CrateLimits, NEW bytes \in Seq(Byte), NEW k \in 0 .. Len(bytes), NEW out, NEW v \in Values,
         Holds(bytes, k, UlebMinimal(v))
  PROVE  ReadStep(Between(bytes, k, out), Uleb)
           = Between(bytes, k + Len(UlebMinimal(v)), Append(out, v))
<1> DEFINE r == Between(bytes, k, out)
           n == MinimalLen(v)
<1>1. /\ n \in 1 .. 5 /\ v \in Nat /\ v < ValueLimit /\ v < 128 ^ n
      /\ UlebMinimal(v) = UlebFixed(v, n) /\ Len(UlebMinimal(v)) = n
  BY ValueSpelled DEF Spelled
<1>2. BytePosition(r) = k
  BY BetweenBytes
<1>3. r.err = Ok /\ r.bytes = bytes
  BY DEF Between
<1> HIDE DEF n
<1>4. k \in Nat /\ n \in Nat
  BY <1>1
<1>5. UlebIsRead(bytes, k, v, n)
  BY <1>1, <1>4, UlebReadsBack
<1>6. Taken(r, 8 * n, v) = Between(bytes, k + n, Append(out, v))
  BY <1>4, TakenBytes
<1> HIDE DEF r
<1> DEFINE leb == ReadUleb(bytes, k)
<1>7. leb.err = Ok /\ leb.val = v /\ leb.at = k + n
  BY <1>5 DEF UlebIsRead
<1>8. ReadStep(r, Uleb) = TakenUleb(r, leb)
  BY <1>2, <1>3 DEF ReadStep, Uleb, ReadUlebField
<1> HIDE DEF leb
<1>9. leb.at - BytePosition(r) = n
  BY <1>2, <1>4, <1>7
<1>10. TakenUleb(r, leb) = Taken(r, 8 * n, v)
  BY <1>7, <1>9 DEF TakenUleb
<1> QED  BY <1>1, <1>6, <1>8, <1>10 DEF r

\* Eight bits between two bytes are a byte.
LEMMA ByteTaken ==
  ASSUME NEW bytes \in Seq(Byte), NEW k \in 0 .. Len(bytes) - 1, NEW out
  PROVE  ReadStep(Between(bytes, k, out), Bits(8)) = Between(bytes, k + 1, Append(out, bytes[k + 1]))
<1> DEFINE r == Between(bytes, k, out)
           n == Len(bytes)
           byte == bytes[k + 1]
<1>1. n \in Nat /\ k \in 0 .. n /\ k \in Nat /\ k + 1 \in 1 .. n /\ byte \in Byte
  OBVIOUS
<1>2. BitsRemaining(r) = 8 * (n - k)
  BY <1>1, BetweenBytes
<1>3. r.err = Ok /\ r.bytes = bytes /\ r.at = 8 * k
  BY DEF Between
<1>4. Taken(r, 8, byte) = Between(bytes, k + 1, Append(out, byte))
  <2>1. Taken(r, 8 * 1, byte) = Between(bytes, k + 1, Append(out, byte))
    BY <1>1, TakenBytes
  <2> QED  BY <2>1
<1> HIDE DEF r
<1>5. BitsAt(bytes, 8 * k, 8) = byte
  <2> DEFINE at == 8 * k
             first == at \div 8 + 1
             last == (at + 8 - 1) \div 8 + 1
             W(w) == w = [i \in first - 1 .. last |->
                            IF i < first THEN 0 ELSE 256 * w[i - 1] + bytes[i]]
             whole == CHOOSE w : W(w)
  <2>1. first = k + 1 /\ last = k + 1 /\ 8 * last - at - 8 = 0
    BY <1>1
  <2> DEFINE w1 == [i \in k .. k + 1 |-> IF i < k + 1 THEN 0 ELSE byte]
  <2>2. W(w1)
    <3>1. w1[k] = 0 /\ w1[k + 1] = byte /\ (k + 1) - 1 = k
      BY <1>1
    <3>2. first - 1 = k
      BY <1>1, <2>1
    <3> HIDE DEF w1
    <3>3. \A i \in k .. k + 1 : (i < k + 1 /\ i = k) \/ (~ (i < k + 1) /\ i = k + 1)
      BY <1>1
    <3>4. 256 * w1[k] + bytes[k + 1] = byte
      <4> HIDE DEF byte
      <4>1. 256 * 0 + byte = byte
        BY <1>1 DEF Byte
      <4> QED  BY <3>1, <4>1 DEF byte
    <3> HIDE DEF first, last
    <3>5. \A i \in k .. k + 1 : (IF i < k + 1 THEN 0 ELSE byte)
                                  = (IF i < first THEN 0 ELSE 256 * w1[i - 1] + bytes[i])
      <4> SUFFICES ASSUME NEW i \in k .. k + 1
                   PROVE  (IF i < k + 1 THEN 0 ELSE byte)
                            = (IF i < first THEN 0 ELSE 256 * w1[i - 1] + bytes[i])
        OBVIOUS
      <4>1. CASE i < k + 1
        BY <2>1, <4>1
      <4>2. CASE ~ (i < k + 1)
        <5>1. i = k + 1
          BY <1>1, <4>2
        <5>2. 256 * w1[i - 1] + bytes[i] = byte
          BY <3>1, <3>4, <5>1
        <5> QED  BY <2>1, <4>2, <5>2
      <4> QED  BY <4>1, <4>2
    <3>6. w1 = [i \in first - 1 .. last |-> IF i < first THEN 0 ELSE 256 * w1[i - 1] + bytes[i]]
      <4>1. w1 = [i \in k .. k + 1 |-> IF i < k + 1 THEN 0 ELSE byte]
        BY DEF w1
      <4>2. [i \in k .. k + 1 |-> IF i < k + 1 THEN 0 ELSE byte]
              = [i \in k .. k + 1 |-> IF i < first THEN 0 ELSE 256 * w1[i - 1] + bytes[i]]
        BY <3>5
      <4> QED  BY <2>1, <3>2, <4>1, <4>2
    <3> QED  BY <3>6
  <2>3. W(whole)
    <3> HIDE DEF w1
    <3> QED  BY <2>2
  <2>4. BitsAt(bytes, at, 8) = (whole[last] \div 2 ^ (8 * last - at - 8)) % 2 ^ 8
    BY DEF BitsAt
  <2> HIDE DEF whole
  <2>5. whole[k] = 0 /\ whole[k + 1] = 256 * whole[k] + byte
    <3>1. first - 1 = k
      BY <1>1, <2>1
    <3> HIDE DEF first, last
    <3>2. k \in first - 1 .. last /\ k + 1 \in first - 1 .. last
      BY <1>1, <2>1
    <3>3. k < first /\ ~ (k + 1 < first) /\ (k + 1) - 1 = k
      BY <1>1, <2>1
    <3>4. /\ whole[k] = IF k < first THEN 0 ELSE 256 * whole[k - 1] + bytes[k]
          /\ whole[k + 1] = IF k + 1 < first THEN 0 ELSE 256 * whole[(k + 1) - 1] + bytes[k + 1]
      BY <2>3, <3>2
    <3> QED  BY <3>3, <3>4
  <2>6. whole[k + 1] = byte
    <3> HIDE DEF byte
    <3>1. 256 * 0 + byte = byte
      BY <1>1 DEF Byte
    <3> QED  BY <2>5, <3>1
  <2>7. (byte \div 2 ^ 0) % 2 ^ 8 = byte
    <3> HIDE DEF byte
    <3>1. 2 ^ 0 = 1 /\ 2 ^ 8 = 256
      BY SMT
    <3>2. byte \in 0 .. 255
      BY <1>1 DEF Byte
    <3>3. byte \div 1 = byte
      BY <3>2
    <3>4. byte % 256 = byte
      BY <3>2
    <3> QED  BY <3>1, <3>3, <3>4
  <2> HIDE DEF first, last, byte
  <2> QED  BY <2>1, <2>4, <2>6, <2>7
<1>6. ReadStep(r, Bits(8)) = ReadUnsigned(r, 8)
  BY <1>3 DEF ReadStep, Bits
<1>7. ~ (8 > BitsRemaining(r))
  <2>1. 8 * (n - k) >= 8
    <3> HIDE DEF n
    <3> QED  BY <1>1
  <2>2. 8 * (n - k) \in Nat
    <3> HIDE DEF n
    <3> QED  BY <1>1
  <2> QED  BY <1>2, <2>1, <2>2
<1> HIDE DEF byte
<1>8. ReadUnsigned(r, 8) = Taken(r, 8, byte)
  BY <1>3, <1>5, <1>7 DEF ReadUnsigned
<1> QED  BY <1>4, <1>6, <1>8 DEF r, byte

----------------------------------------------------------------------------
(* From a payload that reads back to an OBU that does                      *)

\* The bytes of a frame.
LEMMA FrameTyped ==
  ASSUME CrateLimits, NEW header, NEW payload, NEW padding, Framable(header, payload, padding),
         NEW own, own = Written(PutObu(header, payload, padding)), own.err = Ok
  PROVE  own.bytes \in Seq(Byte) /\ own.bytes # <<>> /\ Holds(own.bytes, 0, own.bytes)
<1> DEFINE size   == SizeOf(header, payload)
           groups == SizeGroups(header, payload, padding)
           uleb   == UlebFixed(size, groups)
           fields == FieldBytes(header)
           byte   == FirstByte(header)
           bytes  == own.bytes
<1>1. /\ header \in Headers /\ payload \in Seq(Byte)
      /\ size \in Nat /\ size < ValueLimit /\ groups \in 1 .. 5
  BY WireAssumption DEF Framable, Values
<1>2. FrameIs(header, payload, padding, own.bytes)
  BY FrameWritten
<1>3. /\ header.obu_type.raw \in 0 .. 31
      /\ bytes = <<byte>> \o uleb \o fields \o payload
  BY <1>2, Zenon DEF FrameIs
<1>4. fields \in Seq(Byte)
  BY <1>1, FieldsWrote DEF Wrote
<1>5. uleb \in Seq(Byte)
  <2> HIDE DEF size, groups
  <2>1. Groups(size, groups, UlebFixed(size, groups))
    BY <1>1, FixedGroups
  <2> QED  BY <2>1 DEF Groups
<1>6. byte \in Byte
  <2>1. /\ Flag(header.redundant) \in 0 .. 1 /\ Flag(header.type_specific.trim # None) \in 0 .. 1
        /\ Flag(header.extension # None) \in 0 .. 1
    BY FlagOfBits, Zenon
  <2> QED  BY <1>3, <2>1, FirstByteRead, Zenon DEF FirstByte
<1> HIDE DEF size, groups, uleb, fields, byte
<1>7. bytes \in Seq(Byte) /\ bytes # <<>>
  <2>1. <<byte>> \in Seq(Byte) /\ Len(<<byte>>) = 1
    BY <1>6
  <2> DEFINE a == <<byte>> \o uleb
             b == a \o fields
  <2>2. a \in Seq(Byte) /\ Len(a) = 1 + Len(uleb) /\ Len(uleb) \in Nat
    BY <1>5, <2>1
  <2>3. b \in Seq(Byte) /\ Len(b) = Len(a) + Len(fields) /\ Len(fields) \in Nat
    <3> HIDE DEF a
    <3> QED  BY <1>4, <2>2
  <2>4. b \o payload \in Seq(Byte) /\ Len(b \o payload) = Len(b) + Len(payload)
        /\ Len(payload) \in Nat
    <3> HIDE DEF b
    <3> QED  BY <1>1, <2>3
  <2>5. Len(b \o payload) >= 1
    <3> DEFINE x == Len(a)
               y == Len(b)
               z == Len(b \o payload)
    <3>1. z = y + Len(payload) /\ y = x + Len(fields) /\ x = 1 + Len(uleb)
      BY <2>2, <2>3, <2>4
    <3> HIDE DEF x, y, z
    <3>2. z >= 1
      BY <2>2, <2>3, <2>4, <3>1
    <3> QED  BY <3>2 DEF z
  <2>6. bytes = b \o payload
    BY <1>3
  <2> HIDE DEF b, bytes
  <2>7. Len(bytes) >= 1 /\ bytes \in Seq(Byte)
    BY <2>4, <2>5, <2>6
  <2> QED  BY <2>7
<1> HIDE DEF bytes
<1>8. Holds(bytes, 0, bytes)
  BY <1>7 DEF Holds
<1> QED  BY <1>7, <1>8 DEF bytes

\* A frame as it is read, around a payload.
FrameHolding(header, payload, next) ==
  [err |-> Ok, header |-> AsRead(header), next |-> next, payload |-> payload]

\* The payload an OBU is written with, and what trails it.
Content(known, obu) == Written(PutPayload(known, obu)).bytes \o obu.trailing

\* Found in a frame with its header, the payload is read as that of the OBU.
PayloadIsRead(known, obu, bytes) ==
  \A next : ObuInFrame(FrameHolding(obu.header, bytes, next), known)
              = [err |-> Ok, next |-> next, obu |-> ReadsBackAs(obu)]

PayloadReadsBack(known, obu) ==
  Written(PutPayload(known, obu)).err = Ok => PayloadIsRead(known, obu, Content(known, obu))

\* Of an OBU only the payload is left to be read back: the frame around it is,
\* whoever writes it.
THEOREM PayloadsDecide ==
  ASSUME CrateLimits, NEW known, NEW obu, NEW padding,
         Framable(obu.header, Content(known, obu), padding),
         PayloadReadsBack(known, obu),
         Observe(known, ReadsBackAs(obu)) = Observe(known, obu)
  PROVE  ReadsAlone(known, obu, padding)
<1> DEFINE payload == Written(PutPayload(known, obu))
           content == Content(known, obu)
           own     == WriteObu(known, obu, padding)
<1> SUFFICES ASSUME own.err = Ok
             PROVE  ReadsAs(own.bytes, known, ReadsBackAs(obu))
  BY DEF ReadsAlone
<1>1. payload.err = Ok
  BY DEF WriteObu
<1>2. own = Written(PutObu(obu.header, content, padding))
  BY <1>1 DEF WriteObu, Content
<1>3. PayloadIsRead(known, obu, content)
  BY <1>1 DEF PayloadReadsBack
<1> HIDE DEF payload, content, own
<1>4. own.bytes \in Seq(Byte) /\ own.bytes # <<>> /\ Holds(own.bytes, 0, own.bytes)
  BY <1>2, FrameTyped DEF content
<1>5. FrameIsRead(own.bytes, 0, obu.header, content, Len(own.bytes))
  <2>1. FrameIsRead(own.bytes, 0, obu.header, content, 0 + Len(own.bytes))
    BY <1>2, <1>4, FrameReadsBack DEF content
  <2>2. 0 + Len(own.bytes) = Len(own.bytes)
    BY <1>4
  <2> QED  BY <2>1, <2>2
<1>6. ReadFrame(own.bytes, 0) = FrameHolding(obu.header, content, Len(own.bytes))
  BY <1>5 DEF FrameIsRead, FrameHolding
<1>7. ReadObu(own.bytes, 0, known) = [err |-> Ok, next |-> Len(own.bytes), obu |-> ReadsBackAs(obu)]
  BY <1>3, <1>6 DEF ReadObu, PayloadIsRead
<1> QED  BY <1>4, <1>7 DEF ReadsAs

----------------------------------------------------------------------------
(* Payloads that read back                                                 *)

LEMMA CursorBetween ==
  ASSUME NEW bytes
  PROVE  Cursor(bytes) = Between(bytes, 0, <<>>)
<1>1. 8 * 0 = 0
  OBVIOUS
<1> QED  BY <1>1 DEF Cursor, Between

LEMMA Replaced ==
  ASSUME NEW bytes, NEW k, NEW out, NEW now, NEW r, r = Between(bytes, k, out),
         NEW moved, moved = [r EXCEPT !.out = now]
  PROVE  moved = Between(bytes, k, now)
<1> DEFINE at == 8 * k
<1>1. r = [bytes |-> bytes, at |-> at, err |-> Ok, out |-> out]
  BY DEF Between
<1> HIDE DEF at
<1>2. moved = [bytes |-> bytes, at |-> at, err |-> Ok, out |-> now]
  BY <1>1
<1> QED  BY <1>2 DEF Between, at

\* The OBU that is made of a kind, a header, a payload and what trails it.
ObuWith(kind, header, payload, trailing) ==
  [kind |-> kind, header |-> header, payload |-> payload, trailing |-> trailing]

\* What a payload's parser leaves trails the OBU.
LEMMA PayloadThenRest ==
  ASSUME NEW header, NEW content \in Seq(Byte), NEW k \in 0 .. Len(content), NEW payload, NEW known,
         NEW kind, kind \notin Descriptors,
         ReadPayload(Cursor(content), AsRead(header), known)
           = <<kind, Between(content, k, <<payload>>)>>
  PROVE  \A next : ObuInFrame(FrameHolding(header, content, next), known)
           = [err |-> Ok, next |-> next,
              obu |-> ObuWith(kind, AsRead(header), payload,
                              SubSeq(content, k + 1, Len(content)))]
<1> SUFFICES ASSUME NEW next
             PROVE  ObuInFrame(FrameHolding(header, content, next), known)
                      = [err |-> Ok, next |-> next,
                         obu |-> ObuWith(kind, AsRead(header), payload,
                                         SubSeq(content, k + 1, Len(content)))]
  OBVIOUS
<1> DEFINE frame == FrameHolding(header, content, next)
           rest  == SubSeq(content, k + 1, Len(content))
           left  == Between(content, Len(content), Append(<<payload>>, rest))
<1>1. frame.err = Ok /\ frame.header = AsRead(header) /\ frame.next = next /\ frame.payload = content
  BY DEF FrameHolding
<1>2. Read(Between(content, k, <<payload>>), <<Rest>>) = left
  BY ReadOne, RestTaken
<1>3. left.err = Ok /\ left.out[1] = payload /\ left.out[2] = rest
  <2>1. Append(<<payload>>, rest)[1] = payload /\ Append(<<payload>>, rest)[2] = rest
    <3> HIDE DEF rest
    <3> QED  OBVIOUS
  <2> HIDE DEF rest
  <2> QED  BY <2>1 DEF Between
<1> DEFINE read == <<kind, Between(content, k, <<payload>>)>>
<1>4. read[1] = kind /\ read[2] = Between(content, k, <<payload>>)
  OBVIOUS
<1> HIDE DEF frame, rest, left, read
<1>5. ObuInFrame(frame, known) = ObuOfPayload(frame, read)
  BY <1>1 DEF ObuInFrame, read
<1>6. ObuOfPayload(frame, read) = ObuOf(kind, frame, left)
  BY <1>2, <1>4 DEF ObuOfPayload
<1>7. ObuOf(kind, frame, left)
        = [err |-> Ok, next |-> next,
           obu |-> [kind |-> kind, header |-> AsRead(header), payload |-> payload,
                    trailing |-> rest]]
  BY <1>1, <1>3 DEF ObuOf
<1> QED  BY <1>5, <1>6, <1>7 DEF ObuWith, frame, rest

\* A descriptor's parser leaves nothing; what it did not claim trails the OBU.
LEMMA DescriptorThenRest ==
  ASSUME NEW header, NEW content \in Seq(Byte), NEW payload, NEW known,
         NEW kind, kind \in Descriptors,
         ReadPayload(Cursor(content), AsRead(header), known)
           = <<kind, Between(content, Len(content), <<payload>>)>>
  PROVE  \A next : ObuInFrame(FrameHolding(header, content, next), known)
           = [err |-> Ok, next |-> next,
              obu |-> ObuWith(kind, AsRead(header), [payload EXCEPT !.trailing = <<>>],
                              payload.trailing)]
<1> SUFFICES ASSUME NEW next
             PROVE  ObuInFrame(FrameHolding(header, content, next), known)
                      = [err |-> Ok, next |-> next,
                         obu |-> ObuWith(kind, AsRead(header), [payload EXCEPT !.trailing = <<>>],
                                         payload.trailing)]
  OBVIOUS
<1> DEFINE frame == FrameHolding(header, content, next)
           n     == Len(content)
           rest  == SubSeq(content, n + 1, n)
           left  == Between(content, n, Append(<<payload>>, rest))
<1>1. frame.err = Ok /\ frame.header = AsRead(header) /\ frame.next = next /\ frame.payload = content
  BY DEF FrameHolding
<1>2. Read(Between(content, n, <<payload>>), <<Rest>>) = left
  BY ReadOne, RestTaken
<1>3. left.err = Ok /\ left.out[1] = payload
  <2>1. Append(<<payload>>, rest)[1] = payload
    <3> HIDE DEF rest
    <3> QED  OBVIOUS
  <2> HIDE DEF rest
  <2> QED  BY <2>1 DEF Between
<1> DEFINE read == <<kind, Between(content, n, <<payload>>)>>
<1>4. read[1] = kind /\ read[2] = Between(content, n, <<payload>>)
  OBVIOUS
<1> HIDE DEF frame, rest, left, read
<1>5. ObuInFrame(frame, known) = ObuOfPayload(frame, read)
  BY <1>1 DEF ObuInFrame, read
<1>6. ObuOfPayload(frame, read) = ObuOf(kind, frame, left)
  BY <1>2, <1>4 DEF ObuOfPayload
<1>7. ObuOf(kind, frame, left)
        = [err |-> Ok, next |-> next,
           obu |-> [kind |-> kind, header |-> AsRead(header),
                    payload |-> [payload EXCEPT !.trailing = <<>>],
                    trailing |-> payload.trailing]]
  BY <1>1, <1>3 DEF ObuOf
<1> QED  BY <1>5, <1>6, <1>7 DEF ObuWith, frame

\* A whole OBU is as much of it as the record says.
Whole(obu) == obu = ObuWith(obu.kind, obu.header, obu.payload, obu.trailing)

\* The kinds whose payload has no parts.
Bare == {"temporal_delimiter", "unknown", "ungoverned_block"}

LEMMA BareReadsAs ==
  ASSUME NEW obu, Whole(obu), obu.kind \in Bare
  PROVE  ReadsBackAs(obu) = ObuWith(obu.kind, AsRead(obu.header), obu.payload, obu.trailing)
<1>1. /\ obu.kind # "codec_config" /\ obu.kind # "audio_element" /\ obu.kind # "audio_frame"
      /\ obu.kind \notin Descriptors /\ obu.kind # "parameter_block"
  BY DEF Bare, Descriptors
<1>2. Merged(obu) = obu
  BY <1>1 DEF Merged
<1> DEFINE h == AsRead(obu.header)
<1>3. ReadsBackAs(obu) = [obu EXCEPT !.header = h]
  BY <1>1, <1>2 DEF ReadsBackAs
<1> HIDE DEF h
<1>4. [obu EXCEPT !.header = h] = ObuWith(obu.kind, h, obu.payload, obu.trailing)
  <2> DEFINE a == obu.kind
             b == obu.header
             c == obu.payload
             d == obu.trailing
  <2>1. obu = [kind |-> a, header |-> b, payload |-> c, trailing |-> d]
    BY DEF Whole, ObuWith
  <2> HIDE DEF a, b, c, d
  <2>2. [obu EXCEPT !.header = h] = [kind |-> a, header |-> h, payload |-> c, trailing |-> d]
    BY <2>1
  <2> QED  BY <2>2 DEF ObuWith, a, c, d
<1> QED  BY <1>3, <1>4 DEF h

\* The payload of a kind without a syntax of its own: nothing, or bytes.
BarePayload(known, obu) ==
  LET id == Read(Cursor(obu.payload), <<Uleb>>)
  IN  CASE obu.kind = "temporal_delimiter" -> obu.payload = None
        [] obu.kind = "unknown" -> obu.payload \in Seq(Byte) /\ obu.trailing = <<>>
        [] obu.kind = "ungoverned_block" ->
             /\ obu.payload \in Seq(Byte) /\ obu.trailing = <<>>
             /\ id.err = Ok /\ GetDefinition(known, LastRead(id)) = 0

\* The kind a payload is, its obu_type says.
Typed(obu) ==
  KindOf(obu.header.obu_type.raw)
    = IF obu.kind = "ungoverned_block" THEN "parameter_block" ELSE obu.kind

LEMMA TypeKept ==
  ASSUME NEW header \in Headers
  PROVE  AsRead(header).obu_type = header.obu_type
<1> DEFINE x == IF header.type_specific.trim # None THEN header.type_specific
                ELSE IF header.obu_type.raw \in AudioFrameTypes THEN Trimming(None) ELSE ReservedBit
<1>1. AsRead(header) = [header EXCEPT !.type_specific = x]
  BY Zenon DEF AsRead
<1> HIDE DEF x
<1> QED  BY <1>1 DEF Headers

LEMMA WholePiece ==
  ASSUME NEW bytes \in Seq(Byte)
  PROVE  /\ SubSeq(bytes, 0 + 1, Len(bytes)) = bytes
         /\ SubSeq(bytes, Len(bytes) + 1, Len(bytes)) = <<>>
         /\ bytes \o <<>> = bytes /\ <<>> \o bytes = bytes
         /\ 0 \in 0 .. Len(bytes) /\ Len(bytes) \in 0 .. Len(bytes)
<1> DEFINE n == Len(bytes)
<1>1. n \in Nat /\ 0 + 1 = 1 /\ n + 1 > n
  OBVIOUS
<1>2. bytes \o <<>> = bytes /\ <<>> \o bytes = bytes
  BY ConcatEmptySeq
<1>3. SubSeq(bytes, 1, n) = bytes
  OBVIOUS
<1>4. SubSeq(bytes, n + 1, n) = <<>>
  OBVIOUS
<1> QED  BY <1>1, <1>2, <1>3, <1>4

LEMMA SpanIsWritten ==
  ASSUME NEW piece \in Seq(Byte)
  PROVE  Written(PutSpan(piece)) = [err |-> Ok, bytes |-> piece]
BY SpanWrote, WrittenWrites DEF Wrote

LEMMA BareReadsBack ==
  ASSUME NEW known, NEW obu, Whole(obu), obu.kind \in Bare, obu.header \in Headers,
         obu.trailing \in Seq(Byte), Typed(obu), BarePayload(known, obu)
  PROVE  PayloadReadsBack(known, obu)
<1> DEFINE content == Content(known, obu)
           h == AsRead(obu.header)
           n == Len(content)
<1>1. KindOf(h.obu_type.raw) = IF obu.kind = "ungoverned_block" THEN "parameter_block" ELSE obu.kind
  <2>1. h.obu_type = obu.header.obu_type
    BY TypeKept
  <2> HIDE DEF h
  <2> QED  BY <2>1 DEF Typed
<1>2. ReadsBackAs(obu) = ObuWith(obu.kind, h, obu.payload, obu.trailing)
  BY BareReadsAs
<1>3. ASSUME NEW k \in 0 .. n, NEW payload, payload = obu.payload, content \in Seq(Byte),
             SubSeq(content, k + 1, n) = obu.trailing,
             ReadPayload(Cursor(content), h, known) = <<obu.kind, Between(content, k, <<payload>>)>>
      PROVE  PayloadReadsBack(known, obu)
  <2>1. obu.kind \notin Descriptors
    BY DEF Bare, Descriptors
  <2>2. \A next : ObuInFrame(FrameHolding(obu.header, content, next), known)
          = [err |-> Ok, next |-> next,
             obu |-> ObuWith(obu.kind, AsRead(obu.header), payload,
                             SubSeq(content, k + 1, Len(content)))]
    <3> HIDE DEF content
    <3> QED  BY <1>3, <2>1, PayloadThenRest
  <2> HIDE DEF content
  <2> QED  BY <1>2, <1>3, <2>2 DEF PayloadReadsBack, PayloadIsRead, content
<1>4. CASE obu.kind = "temporal_delimiter"
  <2>1. obu.payload = None
    BY <1>4 DEF BarePayload
  <2>2. PutPayload(known, obu) = <<>>
    BY <1>4 DEF PutPayload
  <2>3. Written(<<>>) = [err |-> Ok, bytes |-> <<>>]
    BY NothingWrote, WrittenWrites DEF Wrote
  <2>4. content = obu.trailing
    <3>1. Written(PutPayload(known, obu)).bytes = <<>>
      BY <2>2, <2>3
    <3>2. content = <<>> \o obu.trailing
      BY <3>1 DEF Content
    <3>3. <<>> \o obu.trailing = obu.trailing
      BY WholePiece
    <3> QED  BY <3>2, <3>3
  <2>5. content \in Seq(Byte) /\ 0 \in 0 .. n /\ SubSeq(content, 0 + 1, n) = obu.trailing
    BY <2>4, WholePiece
  <2> HIDE DEF content, h
  <2>6. KindOf(h.obu_type.raw) = obu.kind
    BY <1>1, <1>4
  <2>7. ReadPayload(Cursor(content), h, known)
          = <<obu.kind, [Cursor(content) EXCEPT !.out = <<None>>]>>
    BY <1>4, <2>6 DEF ReadPayload
  <2>8. [Cursor(content) EXCEPT !.out = <<None>>] = Between(content, 0, <<None>>)
    <3> DEFINE none == <<>>
               now  == <<None>>
    <3>1. Cursor(content) = Between(content, 0, none)
      BY CursorBetween
    <3> HIDE DEF none, now
    <3>2. PICK moved : moved = [Cursor(content) EXCEPT !.out = now]
      OBVIOUS
    <3>3. moved = Between(content, 0, now)
      BY <3>1, <3>2, Replaced
    <3> QED  BY <3>2, <3>3 DEF now
  <2>9. ReadPayload(Cursor(content), h, known) = <<obu.kind, Between(content, 0, <<obu.payload>>)>>
    BY <2>1, <2>7, <2>8
  <2> QED  BY <1>3, <2>5, <2>9
<1>5. CASE obu.kind # "temporal_delimiter"
  <2>1. obu.payload \in Seq(Byte) /\ obu.trailing = <<>>
    BY <1>5 DEF Bare, BarePayload
  <2>2. PutPayload(known, obu) = PutSpan(obu.payload)
    BY <1>5 DEF Bare, PutPayload
  <2>3. content = obu.payload
    <3>1. Written(PutSpan(obu.payload)).bytes = obu.payload
      BY <2>1, SpanIsWritten
    <3> QED  BY <2>1, <2>2, <3>1, WholePiece DEF Content
  <2>4. /\ content \in Seq(Byte) /\ n \in 0 .. n /\ 0 \in 0 .. n
        /\ SubSeq(content, n + 1, n) = obu.trailing /\ SubSeq(content, 0 + 1, n) = content
    BY <2>1, <2>3, WholePiece
  <2> HIDE DEF content, h
  <2>5. Read(Cursor(content), <<Rest>>) = Between(content, n, <<obu.payload>>)
    <3>1. Read(Cursor(content), <<Rest>>) = ReadStep(Between(content, 0, <<>>), Rest)
      BY CursorBetween, ReadOne
    <3>2. ReadStep(Between(content, 0, <<>>), Rest)
            = Between(content, n, Append(<<>>, SubSeq(content, 0 + 1, n)))
      BY <2>4, RestTaken
    <3>3. Append(<<>>, content) = <<content>>
      OBVIOUS
    <3> QED  BY <2>3, <2>4, <3>1, <3>2, <3>3
  <2>6. CASE obu.kind = "unknown"
    <3>1. KindOf(h.obu_type.raw) = "unknown"
      BY <1>1, <2>6
    <3>2. ReadPayload(Cursor(content), h, known) = <<"unknown", Read(Cursor(content), <<Rest>>)>>
      BY <3>1 DEF ReadPayload
    <3>3. ReadPayload(Cursor(content), h, known)
            = <<obu.kind, Between(content, n, <<obu.payload>>)>>
      BY <2>5, <2>6, <3>2
    <3> QED  BY <1>3, <2>4, <3>3
  <2>7. CASE obu.kind = "ungoverned_block"
    <3>1. KindOf(h.obu_type.raw) = "parameter_block"
      BY <1>1, <2>7
    <3>2. ReadPayload(Cursor(content), h, known) = ReadBlock(Cursor(content), known)
      BY <3>1 DEF ReadPayload
    <3> DEFINE id == Read(Cursor(content), <<Uleb>>)
    <3>3. id.err = Ok /\ GetDefinition(known, LastRead(id)) = 0
      BY <2>3, <2>7 DEF BarePayload
    <3> HIDE DEF id
    <3>4. ReadBlock(Cursor(content), known) = <<"ungoverned_block", Read(Cursor(content), <<Rest>>)>>
      BY <3>3 DEF ReadBlock, ReadIdentified, id
    <3>5. ReadPayload(Cursor(content), h, known)
            = <<obu.kind, Between(content, n, <<obu.payload>>)>>
      BY <2>5, <2>7, <3>2, <3>4
    <3> QED  BY <1>3, <2>4, <3>5
  <2> QED  BY <1>5, <2>6, <2>7 DEF Bare
<1> QED  BY <1>4, <1>5

\* A chain that is written has passed its refusals.
LEMMA NotRefused ==
  ASSUME NEW condition, NEW kind \in ErrorKinds, kind # Ok, NEW rest \in Seq(Steps),
         Written(Refuse(condition, kind) \o rest).err = Ok
  PROVE  ~ condition
<1> DEFINE refusal == Refuse(condition, kind)
<1>1. refusal \in Seq(Steps)
  BY RefusalSteps, Zenon
<1> HIDE DEF refusal
<1>2. Len(refusal \o rest) \in Nat
  BY <1>1
<1>3. PICK last : Leads(WriterStart, refusal \o rest, last) /\ Written(refusal \o rest) = Finished(last)
  BY <1>2, WrittenRuns
<1>4. last.err = Ok
  <2>1. Finished(last).err = Ok
    BY <1>3 DEF refusal
  <2> QED  BY <2>1 DEF Finished, Ok
<1>5. PICK mid : Leads(WriterStart, refusal, mid) /\ mid.err = Ok
  BY <1>1, <1>3, <1>4, Peeled
<1>6. WriterStart = Aligned(<<>>)
  BY DEF WriterStart, Aligned
<1> QED  BY <1>5, <1>6, RefusalPassed, Zenon DEF refusal

LEMMA NoRefusal ==
  ASSUME NEW condition, ~ condition, NEW kind, NEW rest \in Seq(Steps)
  PROVE  Refuse(condition, kind) \o rest = rest
<1>1. Refuse(condition, kind) = <<>>
  BY Zenon DEF Refuse
<1>2. <<>> \o rest = rest
  BY ConcatEmptySeq
<1> QED  BY <1>1, <1>2

----------------------------------------------------------------------------
(* An Audio Frame                                                          *)

FrameOf(obu) == [substream_id |-> obu.payload.substream_id, payload |-> obu.payload.payload]

\* An Audio Frame of the model, under a type of one.
AudioFrameTyped(obu) ==
  /\ Whole(obu) /\ obu.kind = "audio_frame"
  /\ obu.header \in Headers /\ obu.header.obu_type.raw \in AudioFrameTypes
  /\ obu.payload = FrameOf(obu)
  /\ obu.payload.substream_id \in Values /\ obu.payload.payload \in Seq(Byte)
  /\ obu.trailing \in Seq(Byte)

LEMMA FrameReadsAs ==
  ASSUME NEW obu, AudioFrameTyped(obu)
  PROVE  ReadsBackAs(obu)
           = ObuWith("audio_frame", AsRead(obu.header),
                     [substream_id |-> obu.payload.substream_id,
                      payload |-> obu.payload.payload \o obu.trailing], <<>>)
<1> DEFINE header == obu.header
           id     == obu.payload.substream_id
           bytes  == obu.payload.payload
           rest   == obu.trailing
           h      == AsRead(header)
<1>1. obu.kind = "audio_frame" /\ obu = ObuWith("audio_frame", header, [substream_id |-> id, payload |-> bytes], rest)
  BY DEF AudioFrameTyped, Whole, FrameOf
<1> HIDE DEF header, id, bytes, rest
<1> DEFINE more == bytes \o rest
<1> HIDE DEF more
<1>2. PICK a : a = [obu EXCEPT !.payload.payload = more, !.trailing = <<>>]
  OBVIOUS
<1>3. a = ObuWith("audio_frame", header, [substream_id |-> id, payload |-> more], <<>>)
  BY <1>1, <1>2 DEF ObuWith
<1>4. Merged(obu) = [obu EXCEPT !.payload.payload = more, !.trailing = <<>>]
  <2>1. /\ obu.kind \notin Descriptors /\ obu.kind # "codec_config" /\ obu.kind # "audio_element"
    BY <1>1 DEF Descriptors
  <2>2. obu.payload.payload = bytes /\ obu.trailing = rest
    BY DEF bytes, rest
  <2>3. Merged(obu) = [obu EXCEPT !.payload.payload = obu.payload.payload \o obu.trailing,
                                  !.trailing = <<>>]
    BY <1>1, <2>1 DEF Merged
  <2> QED  BY <2>2, <2>3 DEF more
<1>5. Merged(obu) = a
  BY <1>2, <1>4
<1>6. obu.kind # "parameter_block" /\ a.header = header
  BY <1>1, <1>3 DEF ObuWith
<1>7. ReadsBackAs(obu) = [a EXCEPT !.header = AsRead(a.header)]
  BY <1>5, <1>6 DEF ReadsBackAs
<1>8. [a EXCEPT !.header = AsRead(a.header)]
        = ObuWith("audio_frame", h, [substream_id |-> id, payload |-> more], <<>>)
  <2> DEFINE p == [substream_id |-> id, payload |-> more]
  <2> HIDE DEF p, h
  <2>1. PICK b : b = [a EXCEPT !.header = h]
    OBVIOUS
  <2>2. b = ObuWith("audio_frame", h, p, <<>>)
    BY <1>3, <2>1 DEF ObuWith, p
  <2> QED  BY <1>6, <2>1, <2>2 DEF h, p
<1> QED  BY <1>7, <1>8 DEF header, id, bytes, rest, more, h

\* The bytes of a frame's payload: the id, when the type does not say it, and
\* the frame.
FrameContent(obu) ==
  (IF obu.header.obu_type.raw = ExplicitFrameType THEN UlebMinimal(obu.payload.substream_id)
   ELSE <<>>) \o obu.payload.payload

LEMMA FrameIsPut ==
  ASSUME CrateLimits, NEW obu, AudioFrameTyped(obu),
         Written(PutAudioFrame(obu.header, obu.payload)).err = Ok
  PROVE  /\ Written(PutAudioFrame(obu.header, obu.payload)).bytes = FrameContent(obu)
         /\ SubstreamIdFor(obu.header.obu_type.raw) # None
              => SubstreamIdFor(obu.header.obu_type.raw) = Some(obu.payload.substream_id)
         /\ SubstreamIdFor(obu.header.obu_type.raw) = None
              <=> obu.header.obu_type.raw = ExplicitFrameType
<1> DEFINE type     == obu.header.obu_type.raw
           id       == obu.payload.substream_id
           bytes    == obu.payload.payload
           implicit == SubstreamIdFor(type)
           c1 == implicit # None /\ implicit # Some(id)
           c2 == implicit = None /\ type # ExplicitFrameType
           k1 == "SubstreamIdMismatch"
           k2 == "NotAnAudioFrame"
           own == IF implicit = None THEN PutUleb(id) ELSE <<>>
           piece == IF type = ExplicitFrameType THEN UlebMinimal(id) ELSE <<>>
<1>1. type \in 5 .. 23 /\ id \in Values /\ bytes \in Seq(Byte)
  BY DEF AudioFrameTyped, AudioFrameTypes
<1>2. implicit = None <=> type = ExplicitFrameType
  <2> HIDE DEF type
  <2>1. type \in 6 .. 23 <=> type # ExplicitFrameType
    BY <1>1 DEF ExplicitFrameType
  <2> QED  BY <2>1 DEF SubstreamIdFor, When, None, Some
<1> HIDE DEF type
<1>3. ~ c2
  BY <1>2
<1>4. k1 \in ErrorKinds /\ k1 # Ok /\ k2 \in ErrorKinds /\ k2 # Ok
  BY DEF ErrorKinds, Ok
<1>5. Wrote(own, piece)
  <2>1. CASE implicit = None
    <3>1. own = PutUleb(id) /\ piece = UlebMinimal(id)
      BY <1>2, <2>1, Zenon
    <3>2. Wrote(PutUleb(id), UlebMinimal(id))
      BY <1>1, UlebWrote
    <3> QED  BY <3>1, <3>2, Zenon
  <2>2. CASE implicit # None
    <3>1. own = <<>> /\ piece = <<>>
      BY <1>2, <2>2, Zenon
    <3> QED  BY <3>1, NothingWrote
  <2> QED  BY <2>1, <2>2
<1>6. PutAudioFrame(obu.header, obu.payload)
        = Refuse(c1, k1) \o Refuse(c2, k2) \o own \o PutSpan(bytes)
  BY Zenon DEF PutAudioFrame, type
<1>7. Refuse(c1, k1) \in Seq(Steps) /\ Refuse(c2, k2) = <<>> /\ PutSpan(bytes) \in Seq(Steps)
      /\ own \in Seq(Steps)
  <2>1. Refuse(c1, k1) \in Seq(Steps)
    <3> HIDE DEF c1, k1
    <3> QED  BY <1>4, RefusalSteps, Zenon
  <2>2. Refuse(c2, k2) = <<>>
    <3> HIDE DEF c2, k2
    <3> QED  BY <1>3, Zenon DEF Refuse
  <2>3. PutSpan(bytes) \in Seq(Steps)
    BY <1>1, SpanWrote DEF Wrote
  <2>4. own \in Seq(Steps)
    <3> HIDE DEF own
    <3> QED  BY <1>5 DEF Wrote
  <2> QED  BY <2>1, <2>2, <2>3, <2>4
<1> DEFINE tail == own \o PutSpan(bytes)
           r1   == Refuse(c1, k1)
           whole == PutAudioFrame(obu.header, obu.payload)
<1>8. whole = r1 \o tail /\ tail \in Seq(Steps)
  <2> DEFINE span == PutSpan(bytes)
             r2 == Refuse(c2, k2)
  <2>1. r1 \in Seq(Steps) /\ r2 = <<>> /\ span \in Seq(Steps) /\ own \in Seq(Steps)
    BY <1>7
  <2>2. whole = r1 \o r2 \o own \o span
    BY <1>6
  <2> HIDE DEF r1, r2, span, own, whole
  <2>3. r1 \o r2 = r1
    BY <2>1, ConcatEmptySeq
  <2>4. (r1 \o own) \o span = r1 \o (own \o span) /\ own \o span \in Seq(Steps)
    BY <2>1, ConcatAssociative, ConcatProperties
  <2> QED  BY <2>2, <2>3, <2>4 DEF span
<1>9. ~ c1
  <2>1. Written(r1 \o tail).err = Ok
    BY <1>8
  <2> HIDE DEF c1, k1, tail
  <2> QED  BY <1>4, <1>8, <2>1, NotRefused, Zenon DEF r1
<1>10. r1 \o tail = tail
  <2> HIDE DEF c1, k1, tail
  <2> QED  BY <1>8, <1>9, NoRefusal, Zenon DEF r1
<1>11. Wrote(tail, piece \o bytes)
  <2> HIDE DEF own, piece
  <2>1. Wrote(PutSpan(bytes), bytes)
    BY <1>1, SpanWrote
  <2> QED  BY <1>5, <2>1, BothWrote
<1>12. Written(tail).bytes = piece \o bytes
  <2> HIDE DEF tail, piece
  <2> DEFINE both == piece \o bytes
  <2>1. Written(tail) = [err |-> Ok, bytes |-> both]
    <3> HIDE DEF both
    <3>1. Wrote(tail, both)
      BY <1>11 DEF both
    <3> QED  BY <3>1, WrittenWrites DEF Wrote
  <2> QED  BY <2>1 DEF both
<1>13. Written(whole).bytes = piece \o bytes
  BY <1>8, <1>10, <1>12
<1>14. FrameContent(obu) = piece \o bytes
  BY DEF FrameContent, type
<1>15. implicit # None => implicit = Some(id)
  BY <1>9
<1> HIDE DEF c1, c2, own, piece, tail, r1
<1> QED  BY <1>2, <1>13, <1>14, <1>15 DEF type

\* The elements of b follow those of a.
Follow(both, a, b) ==
  \A i \in 1 .. Len(a) + Len(b) : both[i] = IF i <= Len(a) THEN a[i] ELSE b[i - Len(a)]

FoundBehind(both, a, b) == \A i \in 1 .. Len(b) : both[(Len(a) + 1) + i - 1] = b[i]

LEMMA BehindRead ==
  ASSUME NEW both, NEW a, NEW b, Len(a) \in Nat, Len(b) \in Nat, Follow(both, a, b)
  PROVE  FoundBehind(both, a, b)
<1> DEFINE m == Len(a)
           k == Len(b)
<1> SUFFICES ASSUME NEW i \in 1 .. k
             PROVE  both[(m + 1) + i - 1] = b[i]
  BY DEF FoundBehind
<1> DEFINE j == (m + 1) + i - 1
<1> HIDE DEF m, k
<1>1. m \in Nat /\ k \in Nat
  BY DEF m, k
<1>2. j \in 1 .. m + k /\ ~ j <= m /\ j - m = i
  BY <1>1
<1> HIDE DEF j
<1>3. both[j] = b[j - m]
  BY <1>2 DEF Follow, m, k
<1> QED  BY <1>2, <1>3 DEF j

\* A sequence in front of another.
LEMMA FrontAndBack ==
  ASSUME NEW a \in Seq(Byte), NEW b \in Seq(Byte), NEW both, both = a \o b
  PROVE  /\ both \in Seq(Byte) /\ Len(a) \in 0 .. Len(both) /\ Len(both) \in 0 .. Len(both)
         /\ Holds(both, 0, a)
         /\ SubSeq(both, Len(a) + 1, Len(both)) = b
         /\ SubSeq(both, Len(both) + 1, Len(both)) = <<>>
<1> DEFINE m == Len(a)
           k == Len(b)
           n == Len(both)
<1>1. both \in Seq(Byte) /\ m \in Nat /\ k \in Nat /\ n = m + k
  OBVIOUS
<1>2. \A i \in 1 .. n : both[i] = IF i <= m THEN a[i] ELSE b[i - m]
  OBVIOUS
<1>2a. Follow(both, a, b)
  BY <1>1, <1>2 DEF Follow
<1>3. Holds(both, 0, a)
  <2>1. \A i \in 1 .. m : i \in 1 .. n /\ 0 + i = i /\ i <= m
    <3> HIDE DEF m, n, k
    <3> QED  BY <1>1
  <2>2. \A i \in 1 .. m : both[0 + i] = a[i]
    <3> HIDE DEF m, n
    <3> QED  BY <1>2, <2>1
  <2>3. 0 + m <= n
    <3> HIDE DEF m, n, k
    <3> QED  BY <1>1
  <2> QED  BY <2>2, <2>3 DEF Holds
<1>4. SubSeq(both, m + 1, n) = b
  <2> DEFINE from == m + 1
             s == SubSeq(both, from, n)
  <2>1. from \in 1 .. n + 1 /\ n - from + 1 = k /\ from <= n + 1
    <3> HIDE DEF m, n, k
    <3> QED  BY <1>1
  <2>2. s \in Seq(Byte) /\ Len(s) = (IF from <= n THEN n - from + 1 ELSE 0)
        /\ \A i \in 1 .. Len(s) : s[i] = both[from + i - 1]
    <3> HIDE DEF from
    <3>1. \A i \in from .. n : i \in 1 .. Len(both)
      <4> HIDE DEF n
      <4> QED  BY <1>1, <2>1 DEF n
    <3> QED  BY <1>1, <2>1, SubSeqProperties
  <2>3. Len(s) = k
    <3> HIDE DEF m, n, k, s
    <3> QED  BY <1>1, <2>1, <2>2
  <2>4. \A i \in 1 .. k : from + i - 1 \in 1 .. n /\ ~ from + i - 1 <= m /\ from + i - 1 - m = i
    <3> HIDE DEF m, n, k
    <3> QED  BY <1>1
  <2>5. \A i \in 1 .. k : s[i] = b[i]
    <3>1. \A i \in 1 .. k : s[i] = both[from + i - 1]
      <4> HIDE DEF m, n, k, s, from
      <4> QED  BY <2>2, <2>3
    <3>2. \A i \in 1 .. k : both[from + i - 1] = b[i]
      <4>1. FoundBehind(both, a, b)
        BY <1>1, <1>2a, BehindRead
      <4> QED  BY <4>1, Zenon DEF FoundBehind
    <3> HIDE DEF m, n, k, s, from
    <3> QED  BY <3>1, <3>2
  <2> HIDE DEF s
  <2> QED  BY <2>2, <2>3, <2>5, SeqEqual DEF s
<1>5. SubSeq(both, n + 1, n) = <<>>
  BY <1>1, WholePiece
<1>6. m \in 0 .. n /\ n \in 0 .. n
  <2> HIDE DEF m, n, k
  <2> QED  BY <1>1
<1> QED  BY <1>1, <1>3, <1>4, <1>5, <1>6

\* The payload of a frame whose id its type says.
LEMMA ImplicitFrameRead ==
  ASSUME NEW content \in Seq(Byte), NEW header, NEW id,
         SubstreamIdFor(header.obu_type.raw) = Some(id)
  PROVE  ReadAudioFrame(Cursor(content), header)
           = Between(content, Len(content), <<[substream_id |-> id, payload |-> content]>>)
<1> DEFINE r        == Cursor(content)
           n        == Len(content)
           implicit == SubstreamIdFor(header.obu_type.raw)
           value    == [substream_id |-> id, payload |-> content]
           out      == <<id, content>>
           left     == Between(content, n, out)
<1>1. implicit = <<id>> /\ implicit # None
  BY DEF Some, None
<1>2. [r EXCEPT !.out = implicit] = Between(content, 0, <<id>>)
  <2> DEFINE none == <<>>
             now  == <<id>>
  <2>1. r = Between(content, 0, none)
    BY CursorBetween
  <2> HIDE DEF none, now, r, implicit
  <2>2. PICK moved : moved = [r EXCEPT !.out = now]
    OBVIOUS
  <2>3. moved = Between(content, 0, now)
    BY <2>1, <2>2, Replaced
  <2> QED  BY <1>1, <2>2, <2>3 DEF now
<1>3. Read([r EXCEPT !.out = implicit], <<Rest>>) = left
  <2>1. 0 \in 0 .. n /\ SubSeq(content, 0 + 1, n) = content
    BY WholePiece
  <2>2. ReadStep(Between(content, 0, <<id>>), Rest) = Between(content, n, Append(<<id>>, content))
    BY <2>1, RestTaken
  <2>3. Append(<<id>>, content) = out
    BY PairAppended
  <2> HIDE DEF implicit, r, out, n
  <2> QED  BY <1>2, <2>2, <2>3, ReadOne
<1>4. r.out = <<>> /\ left.err = Ok /\ left.out = out
  BY DEF Cursor, Between
<1>5. out[1] = id /\ out[2] = content
  OBVIOUS
<1> HIDE DEF r, out, left, implicit, n
<1>6. PICK built : built = [left EXCEPT !.out = Append(r.out, value)]
  OBVIOUS
<1>7. built = Between(content, n, <<value>>)
  <2> DEFINE now == Append(r.out, value)
  <2>1. now = <<value>>
    <3> HIDE DEF value
    <3>1. Append(<<>>, value) = <<value>>
      OBVIOUS
    <3> QED  BY <1>4, <3>1
  <2>2. left = Between(content, n, out)
    BY DEF left
  <2> HIDE DEF now
  <2>3. built = [left EXCEPT !.out = now]
    BY <1>6 DEF now
  <2>4. built = Between(content, n, now)
    BY <2>2, <2>3, Replaced
  <2> QED  BY <2>1, <2>4
<1>8. ReadAudioFrame(r, header)
        = [left EXCEPT !.out = Append(r.out, [substream_id |-> left.out[1], payload |-> left.out[2]])]
  BY Zenon, <1>1, <1>3, <1>4 DEF ReadAudioFrame, Built, implicit
<1>9. ReadAudioFrame(r, header) = built
  BY <1>4, <1>5, <1>6, <1>8
<1> QED  BY <1>7, <1>9 DEF r, n

\* The payload of a frame that says its id.
LEMMA ExplicitFrameRead ==
  ASSUME CrateLimits, NEW content \in Seq(Byte), NEW header, NEW id \in Values,
         NEW bytes \in Seq(Byte), content = UlebMinimal(id) \o bytes, UlebMinimal(id) \in Seq(Byte),
         SubstreamIdFor(header.obu_type.raw) = None, header.obu_type.raw = ExplicitFrameType
  PROVE  ReadAudioFrame(Cursor(content), header)
           = Between(content, Len(content), <<[substream_id |-> id, payload |-> bytes]>>)
<1> DEFINE r     == Cursor(content)
           n     == Len(content)
           piece == UlebMinimal(id)
           m     == Len(piece)
           value == [substream_id |-> id, payload |-> bytes]
           out   == <<id, bytes>>
           left  == Between(content, n, out)
           steps == <<Uleb, Rest>>
<1>1. /\ m \in 0 .. n /\ Holds(content, 0, piece)
      /\ SubSeq(content, m + 1, n) = bytes
  <2> HIDE DEF piece, n
  <2>1. piece \in Seq(Byte) /\ content = piece \o bytes
    BY DEF piece
  <2> QED  BY <2>1, FrontAndBack DEF n
<1>2. Fresh(r) = Between(content, 0, <<>>)
  <2> DEFINE none == <<>>
  <2>1. r = Between(content, 0, none)
    BY CursorBetween
  <2> HIDE DEF none, r
  <2>2. PICK moved : moved = [r EXCEPT !.out = none]
    OBVIOUS
  <2>3. moved = Between(content, 0, none)
    BY <2>1, <2>2, Replaced
  <2> QED  BY <2>2, <2>3 DEF none, Fresh
<1>3. Read(Fresh(r), steps) = left
  <2>1. 0 \in 0 .. n /\ 0 + m = m
    BY <1>1, WholePiece
  <2>2. ReadStep(Between(content, 0, <<>>), Uleb) = Between(content, 0 + m, Append(<<>>, id))
    BY ZenonT(30), <1>1, <2>1, UlebTaken
  <2>3. Append(<<>>, id) = <<id>>
    OBVIOUS
  <2>4. ReadStep(Between(content, m, <<id>>), Rest) = Between(content, n, Append(<<id>>, bytes))
    <3> HIDE DEF piece
    <3> QED  BY <1>1, RestTaken
  <2>5. Append(<<id>>, bytes) = out
    BY PairAppended
  <2> HIDE DEF r, out, n, m
  <2>6. Read(Fresh(r), steps) = ReadStep(ReadStep(Fresh(r), Uleb), Rest)
    BY ReadTwo
  <2> QED  BY <1>2, <2>1, <2>2, <2>3, <2>4, <2>5, <2>6
<1>4. r.out = <<>> /\ left.err = Ok /\ left.out = out
  BY DEF Cursor, Between
<1>5. out[1] = id /\ out[2] = bytes
  OBVIOUS
<1> HIDE DEF r, out, left, n, steps
<1>6. PICK built : built = [left EXCEPT !.out = Append(r.out, value)]
  OBVIOUS
<1>7. built = Between(content, n, <<value>>)
  <2> DEFINE now == Append(r.out, value)
  <2>1. now = <<value>>
    <3> HIDE DEF value
    <3>1. Append(<<>>, value) = <<value>>
      OBVIOUS
    <3> QED  BY <1>4, <3>1
  <2>2. left = Between(content, n, out)
    BY DEF left
  <2> HIDE DEF now
  <2>3. built = [left EXCEPT !.out = now]
    BY <1>6 DEF now
  <2>4. built = Between(content, n, now)
    BY <2>2, <2>3, Replaced
  <2> QED  BY <2>1, <2>4
<1>8. ReadAudioFrame(r, header)
        = [left EXCEPT !.out = Append(r.out, [substream_id |-> left.out[1], payload |-> left.out[2]])]
  BY <1>3, <1>4 DEF ReadAudioFrame, ReadAs, Built, steps
<1>9. ReadAudioFrame(r, header) = built
  BY <1>4, <1>5, <1>6, <1>8
<1> QED  BY <1>7, <1>9 DEF r, n

\* What a frame is written as reads back as the frame.
LEMMA AudioFrameReadsBack ==
  ASSUME CrateLimits, NEW known, NEW obu, AudioFrameTyped(obu)
  PROVE  PayloadReadsBack(known, obu)
<1> DEFINE type  == obu.header.obu_type.raw
           id    == obu.payload.substream_id
           bytes == obu.payload.payload
           rest  == obu.trailing
           more  == bytes \o rest
           h     == AsRead(obu.header)
           piece == IF type = ExplicitFrameType THEN UlebMinimal(id) ELSE <<>>
           content == Content(known, obu)
           n     == Len(content)
           value == [substream_id |-> id, payload |-> more]
<1> SUFFICES ASSUME Written(PutPayload(known, obu)).err = Ok
             PROVE  PayloadIsRead(known, obu, content)
  BY DEF PayloadReadsBack
<1>1. /\ obu.kind = "audio_frame" /\ obu.header \in Headers /\ type \in AudioFrameTypes
      /\ id \in Values /\ bytes \in Seq(Byte) /\ rest \in Seq(Byte)
  BY DEF AudioFrameTyped
<1>2. PutPayload(known, obu) = PutAudioFrame(obu.header, obu.payload)
  BY <1>1 DEF PutPayload
<1>3. /\ Written(PutPayload(known, obu)).bytes = FrameContent(obu)
      /\ SubstreamIdFor(type) # None => SubstreamIdFor(type) = Some(id)
      /\ SubstreamIdFor(type) = None <=> type = ExplicitFrameType
  BY <1>2, FrameIsPut
<1>4. piece \in Seq(Byte) /\ more \in Seq(Byte)
  <2>1. UlebMinimal(id) \in Seq(Byte)
    BY <1>1, UlebWrote DEF Wrote
  <2>2. <<>> \in Seq(Byte)
    OBVIOUS
  <2>3. more \in Seq(Byte)
    BY <1>1
  <2> HIDE DEF more, type
  <2> QED  BY <2>1, <2>2, <2>3, Zenon
<1>5. content = piece \o more /\ content \in Seq(Byte)
  <2>1. FrameContent(obu) = piece \o bytes
    BY DEF FrameContent
  <2>2. content = FrameContent(obu) \o rest
    BY <1>3 DEF Content
  <2> HIDE DEF piece, bytes, rest, content
  <2>3. (piece \o bytes) \o rest = piece \o (bytes \o rest)
    BY <1>1, <1>4, ConcatAssociative
  <2>4. piece \o more \in Seq(Byte)
    <3> HIDE DEF more
    <3> QED  BY <1>4
  <2> QED  BY <2>1, <2>2, <2>3, <2>4
<1>6. h.obu_type.raw = type
  <2> HIDE DEF h
  <2>1. h.obu_type = obu.header.obu_type
    BY <1>1, TypeKept DEF h
  <2> QED  BY <2>1
<1> HIDE DEF type, h, content, id, more, piece, n
<1>7. KindOf(h.obu_type.raw) = "audio_frame"
  <2>1. type \in 5 .. 23 /\ type \in AudioFrameTypes
    BY <1>1 DEF AudioFrameTypes
  <2>2. type # 0 /\ type # 1 /\ type # 2 /\ type # 3 /\ type # 4 /\ type # SequenceHeaderType
    BY <2>1 DEF SequenceHeaderType
  <2> QED  BY <1>6, <2>1, <2>2 DEF KindOf
<1>8. ReadAudioFrame(Cursor(content), h) = Between(content, n, <<value>>)
  <2>1. CASE type = ExplicitFrameType
    <3>1. piece = UlebMinimal(id) /\ UlebMinimal(id) \in Seq(Byte)
      BY <1>4, <2>1, Zenon DEF piece
    <3>2. content = UlebMinimal(id) \o more
      BY <1>5, <3>1
    <3>3. SubstreamIdFor(h.obu_type.raw) = None /\ h.obu_type.raw = ExplicitFrameType
      BY <1>3, <1>6, <2>1
    <3> QED  BY Zenon, <1>1, <1>4, <1>5, <3>1, <3>2, <3>3, ExplicitFrameRead DEF n, id
  <2>2. CASE type # ExplicitFrameType
    <3>1. piece = <<>>
      BY <2>2, Zenon DEF piece
    <3>2. content = more
      BY <1>4, <1>5, <3>1, ConcatEmptySeq
    <3>3. SubstreamIdFor(h.obu_type.raw) = Some(id)
      BY <1>3, <1>6, <2>2
    <3> QED  BY <1>5, <3>2, <3>3, ImplicitFrameRead DEF n
  <2> QED  BY <2>1, <2>2
<1>9. ReadPayload(Cursor(content), h, known) = <<"audio_frame", Between(content, n, <<value>>)>>
  <2> HIDE DEF value
  <2> QED  BY <1>7, <1>8 DEF ReadPayload
<1>10. n \in 0 .. n /\ SubSeq(content, n + 1, n) = <<>>
  BY <1>5, WholePiece DEF n
<1>11. \A next : ObuInFrame(FrameHolding(obu.header, content, next), known)
         = [err |-> Ok, next |-> next, obu |-> ObuWith("audio_frame", h, value, <<>>)]
  <2> HIDE DEF value
  <2>0. content \in Seq(Byte)
    BY <1>5
  <2>1. "audio_frame" \notin Descriptors
    BY DEF Descriptors
  <2>2. \A next : ObuInFrame(FrameHolding(obu.header, content, next), known)
         = [err |-> Ok, next |-> next,
            obu |-> ObuWith("audio_frame", AsRead(obu.header), value,
                            SubSeq(content, n + 1, Len(content)))]
    <3> DEFINE kind == "audio_frame"
    <3>1. kind \notin Descriptors /\ n \in 0 .. Len(content)
      BY <1>10, <2>1 DEF n
    <3>2. ReadPayload(Cursor(content), AsRead(obu.header), known)
            = <<kind, Between(content, n, <<value>>)>>
      BY <1>9 DEF h
    <3> HIDE DEF kind
    <3>3. \A next : ObuInFrame(FrameHolding(obu.header, content, next), known)
           = [err |-> Ok, next |-> next,
              obu |-> ObuWith(kind, AsRead(obu.header), value,
                              SubSeq(content, n + 1, Len(content)))]
      BY <2>0, <3>1, <3>2, PayloadThenRest
    <3> QED  BY <3>3 DEF kind
  <2> QED  BY <1>10, <2>2 DEF n, h
<1>12. ReadsBackAs(obu) = ObuWith("audio_frame", h, value, <<>>)
  BY FrameReadsAs DEF h, id, more
<1> QED  BY <1>11, <1>12 DEF PayloadIsRead

----------------------------------------------------------------------------
(* An IA Sequence Header                                                   *)

\* On a byte boundary eight bits are a byte.
LEMMA ByteWrote ==
  ASSUME NEW v \in Byte
  PROVE  Wrote(Put(v, 8), <<v>>)
<1>1. Put(v, 8) \in Seq(Steps) /\ <<v>> \in Seq(Byte)
  <2>1. v \in Nat /\ 8 \in Nat
    BY DEF Byte
  <2> QED  BY <2>1, PutSteps
<1>2. 256 = 2 ^ 8 /\ 2 ^ 0 = 1
  BY SMT
<1>3. v \in 0 .. 255 /\ ~ v >= 256
  BY DEF Byte
<1>4. ASSUME NEW bytes \in Seq(Byte), NEW last, Leads(Aligned(bytes), Put(v, 8), last)
      PROVE  last = Aligned(bytes \o <<v>>)
  <2>1. Aligned(bytes) = Partial(bytes, 0, 0)
    BY DEF Aligned, Partial
  <2>2. Leads(Partial(bytes, 0, 0), Put(v, 8), last)
    BY <1>4, <2>1
  <2>3. /\ ~ (v >= 256)
        /\ last = Partial(bytes \o WholeBytes((0 + 8) \div 8, 0 * 256 + v, 0 + 8),
                          (0 * 256 + v) % 2 ^ ((0 + 8) % 8), (0 + 8) % 8)
    <3>1. BitsLeave(bytes, 0, 0, v, 8, 256, last)
      BY Zenon, <1>2, <1>3, <2>2, BitsFit
    <3> QED  BY <3>1 DEF BitsLeave
  <2>4. /\ 0 * 256 + v = v /\ 0 + 8 = 8 /\ 8 \div 8 = 1 /\ 8 % 8 = 0 /\ v % 1 = 0
        /\ (v \div 1) % 256 = v /\ 8 - 8 * 1 = 0
    BY <1>3, SMT
  <2>5. last = Partial(bytes \o WholeBytes(1, v, 8), 0, 0)
    BY <1>2, <2>3, <2>4
  <2>6. WholeBytes(1, v, 8) = <<v>>
    <3> DEFINE e(i) == (v \div 2 ^ (8 - 8 * i)) % 256
    <3>1. WholeBytes(1, v, 8) = [i \in 1 .. 1 |-> e(i)]
      BY DEF WholeBytes
    <3>2. e(1) = v
      BY <1>2, <2>4
    <3> HIDE DEF e
    <3>3. \A i \in 1 .. 1 : i = 1
      OBVIOUS
    <3> QED  BY <3>1, <3>2, <3>3
  <2> QED  BY <2>5, <2>6 DEF Partial, Aligned
<1>5. Writes(Put(v, 8), <<v>>)
  BY <1>4, Zenon DEF Writes
<1> QED  BY <1>1, <1>5 DEF Wrote

SequenceHeaderOf(obu) ==
  [ia_code |-> obu.payload.ia_code, primary_profile |-> obu.payload.primary_profile,
   additional_profile |-> obu.payload.additional_profile, trailing |-> obu.payload.trailing]

\* An IA Sequence Header of the model: a four-byte code and two profile bytes.
SequenceHeaderTyped(obu) ==
  /\ Whole(obu) /\ obu.kind = "sequence_header" /\ obu.header \in Headers
  /\ obu.header.obu_type.raw = SequenceHeaderType
  /\ obu.payload = SequenceHeaderOf(obu)
  /\ obu.payload.ia_code \in Seq(Byte) /\ Len(obu.payload.ia_code) = 4
  /\ obu.payload.primary_profile \in Byte /\ obu.payload.additional_profile \in Byte
  /\ obu.payload.trailing \in Seq(Byte) /\ obu.trailing \in Seq(Byte)

\* The bytes before the trailing ones.
HeaderBytes(v) == v.ia_code \o <<v.primary_profile>> \o <<v.additional_profile>>

\* A byte behind a sequence.
LEMMA OneMore ==
  ASSUME NEW x \in Seq(Byte), NEW a \in Byte
  PROVE  x \o <<a>> \in Seq(Byte) /\ Len(x \o <<a>>) = Len(x) + 1
<1> DEFINE t == <<a>>
<1>1. t \in Seq(Byte) /\ Len(t) = 1
  OBVIOUS
<1> HIDE DEF t
<1>2. x \o t \in Seq(Byte) /\ Len(x \o t) = Len(x) + Len(t)
  BY <1>1, ConcatProperties
<1> QED  BY <1>1, <1>2 DEF t

\* The bytes of a header are read from where they lie.
HeaderLies(content, code, p, a, more) ==
  /\ content \in Seq(Byte) /\ Len(content) \in Nat /\ 6 <= Len(content)
  /\ SubSeq(content, 0 + 1, 0 + 4) = code /\ content[4 + 1] = p /\ content[5 + 1] = a
  /\ SubSeq(content, 6 + 1, Len(content)) = more

LEMMA HeaderPieces ==
  ASSUME NEW code \in Seq(Byte), Len(code) = 4, NEW p \in Byte, NEW a \in Byte,
         NEW more \in Seq(Byte), NEW content, content = ((code \o <<p>>) \o <<a>>) \o more
  PROVE  HeaderLies(content, code, p, a, more)
<1> DEFINE x == code \o <<p>>
           y == x \o <<a>>
           n == Len(content)
<1>1. <<p>> \in Seq(Byte) /\ <<a>> \in Seq(Byte) /\ Len(<<p>>) = 1 /\ Len(<<a>>) = 1
      /\ <<p>>[1] = p /\ <<a>>[1] = a
  OBVIOUS
<1>2. x \in Seq(Byte) /\ Len(x) = 5
  <2>1. x \in Seq(Byte) /\ Len(x) = Len(code) + 1
    BY OneMore
  <2> HIDE DEF x
  <2> QED  BY <1>1, <2>1
<1>3. y \in Seq(Byte) /\ Len(y) = 6
  <2>1. y \in Seq(Byte) /\ Len(y) = Len(x) + 1
    <3> HIDE DEF x
    <3> QED  BY <1>2, OneMore
  <2> HIDE DEF x, y
  <2> QED  BY <1>2, <2>1
<1>4. content = y \o more
  OBVIOUS
<1>5. /\ content \in Seq(Byte) /\ Holds(content, 0, y)
      /\ SubSeq(content, 6 + 1, n) = more /\ Len(y) \in 0 .. n
  <2> HIDE DEF y
  <2> QED  BY Zenon, <1>3, <1>4, FrontAndBack
<1>6. n \in Nat /\ 6 <= n
  <2>1. n \in Nat
    BY <1>5
  <2> HIDE DEF n, y
  <2> QED  BY <1>3, <1>5, <2>1
<1>7. Holds(content, 0, x) /\ Holds(content, 0 + Len(x), <<a>>)
  <2>1. Holds(content, 0, x \o <<a>>) /\ Len(content) \in Nat /\ 0 \in Nat
    BY <1>5, <1>6
  <2> HIDE DEF x, n
  <2> QED  BY <1>1, <1>2, <2>1, HoldsParts
<1>8. Holds(content, 0, code) /\ Holds(content, 0 + Len(code), <<p>>)
  <2>1. Holds(content, 0, code \o <<p>>) /\ Len(content) \in Nat /\ 0 \in Nat
    BY <1>6, <1>7
  <2> HIDE DEF n
  <2> QED  BY <1>1, <2>1, HoldsParts
<1>9. SubSeq(content, 0 + 1, 0 + Len(code)) = code
  <2>1. 0 \in Nat
    OBVIOUS
  <2> QED  BY <1>5, <1>8, <2>1, HeldIsCut
<1>10. content[4 + 1] = p
  <2>1. \A i \in 1 .. Len(<<p>>) : content[(0 + Len(code)) + i] = <<p>>[i]
    BY <1>8 DEF Holds
  <2>2. 1 \in 1 .. Len(<<p>>) /\ (0 + Len(code)) + 1 = 4 + 1
    BY <1>1
  <2> QED  BY <1>1, <2>1, <2>2
<1>11. content[5 + 1] = a
  <2>1. \A i \in 1 .. Len(<<a>>) : content[(0 + Len(x)) + i] = <<a>>[i]
    BY <1>7 DEF Holds
  <2> HIDE DEF x
  <2>2. 1 \in 1 .. Len(<<a>>) /\ (0 + Len(x)) + 1 = 5 + 1
    BY <1>1, <1>2
  <2> QED  BY <1>1, <2>1, <2>2
<1> QED  BY <1>5, <1>6, <1>9, <1>10, <1>11 DEF HeaderLies

SequenceHeaderIsRead(content, code, p, a, more) ==
  ReadIaSequenceHeader(Cursor(content))
    = Between(content, Len(content),
              <<[ia_code |-> code, primary_profile |-> p, additional_profile |-> a,
                 trailing |-> more]>>)

LEMMA SequenceHeaderRead ==
  ASSUME NEW content, NEW code, NEW p, NEW a, NEW more, HeaderLies(content, code, p, a, more)
  PROVE  SequenceHeaderIsRead(content, code, p, a, more)
<1> DEFINE r     == Cursor(content)
           n     == Len(content)
           value == [ia_code |-> code, primary_profile |-> p, additional_profile |-> a,
                     trailing |-> more]
           out   == <<code, p, a, more>>
           left  == Between(content, n, out)
           steps == <<Span(4), Bits(8), Bits(8), Rest>>
<1>1. /\ content \in Seq(Byte) /\ n \in Nat /\ 6 <= n
      /\ SubSeq(content, 0 + 1, 0 + 4) = code /\ content[4 + 1] = p /\ content[5 + 1] = a
      /\ SubSeq(content, 6 + 1, n) = more
  BY DEF HeaderLies
<1>2. /\ 0 \in 0 .. n /\ 4 \in 0 .. n - 1 /\ 5 \in 0 .. n - 1 /\ 6 \in 0 .. n /\ 0 + 4 <= n
      /\ 0 + 4 = 4 /\ 4 + 1 = 5 /\ 5 + 1 = 6 /\ 4 \in Nat
  <2> HIDE DEF n
  <2> QED  BY <1>1
<1>3. Fresh(r) = Between(content, 0, <<>>)
  BY DEF Fresh, Cursor, Between
<1>4. Read(Fresh(r), steps) = left
  <2>1. ReadStep(Between(content, 0, <<>>), Span(4)) = Between(content, 4, <<code>>)
    <3>1. ReadStep(Between(content, 0, <<>>), Span(4))
            = Between(content, 0 + 4, Append(<<>>, SubSeq(content, 0 + 1, 0 + 4)))
      BY <1>1, <1>2, SpanTaken
    <3>2. Append(<<>>, code) = <<code>>
      OBVIOUS
    <3> QED  BY <1>1, <1>2, <3>1, <3>2
  <2>2. ReadStep(Between(content, 4, <<code>>), Bits(8)) = Between(content, 5, <<code, p>>)
    <3>1. ReadStep(Between(content, 4, <<code>>), Bits(8))
            = Between(content, 4 + 1, Append(<<code>>, content[4 + 1]))
      BY <1>1, <1>2, ByteTaken
    <3>2. Append(<<code>>, p) = <<code, p>>
      BY PairAppended
    <3> QED  BY <1>1, <1>2, <3>1, <3>2
  <2>3. ReadStep(Between(content, 5, <<code, p>>), Bits(8)) = Between(content, 6, <<code, p, a>>)
    <3>1. ReadStep(Between(content, 5, <<code, p>>), Bits(8))
            = Between(content, 5 + 1, Append(<<code, p>>, content[5 + 1]))
      BY <1>1, <1>2, ByteTaken
    <3>2. Append(<<code, p>>, a) = <<code, p, a>>
      BY TripleAppended
    <3> QED  BY <1>1, <1>2, <3>1, <3>2
  <2>4. ReadStep(Between(content, 6, <<code, p, a>>), Rest) = left
    <3>1. ReadStep(Between(content, 6, <<code, p, a>>), Rest)
            = Between(content, n, Append(<<code, p, a>>, SubSeq(content, 6 + 1, n)))
      BY <1>1, <1>2, RestTaken
    <3>2. Append(<<code, p, a>>, more) = out
      BY QuadAppended
    <3> HIDE DEF n, out
    <3> QED  BY <1>1, <3>1, <3>2
  <2> HIDE DEF r, left
  <2>5. Read(Fresh(r), steps)
          = ReadStep(ReadStep(ReadStep(ReadStep(Fresh(r), Span(4)), Bits(8)), Bits(8)), Rest)
    BY ReadFour
  <2> HIDE DEF steps
  <2> QED  BY <1>3, <2>1, <2>2, <2>3, <2>4, <2>5
<1>5. r.out = <<>> /\ left.err = Ok /\ left.out = out
  BY DEF Cursor, Between
<1>6. out[1] = code /\ out[2] = p /\ out[3] = a /\ out[4] = more
  OBVIOUS
<1> HIDE DEF r, out, left, n, steps
<1>7. PICK built : built = [left EXCEPT !.out = Append(r.out, value)]
  OBVIOUS
<1>8. built = Between(content, n, <<value>>)
  <2> DEFINE now == Append(r.out, value)
  <2>1. now = <<value>>
    <3> HIDE DEF value
    <3>1. Append(<<>>, value) = <<value>>
      OBVIOUS
    <3> QED  BY <1>5, <3>1
  <2>2. left = Between(content, n, out)
    BY DEF left
  <2> HIDE DEF now
  <2>3. built = [left EXCEPT !.out = now]
    BY <1>7 DEF now
  <2>4. built = Between(content, n, now)
    BY <2>2, <2>3, Replaced
  <2> QED  BY <2>1, <2>4
<1>9. ReadIaSequenceHeader(r)
        = [left EXCEPT !.out = Append(r.out,
             [ia_code |-> left.out[1], primary_profile |-> left.out[2],
              additional_profile |-> left.out[3], trailing |-> left.out[4]])]
  BY <1>4, <1>5 DEF ReadIaSequenceHeader, ReadAs, Built, steps
<1>10. ReadIaSequenceHeader(r) = built
  BY <1>5, <1>6, <1>7, <1>9
<1> QED  BY <1>8, <1>10 DEF r, n, SequenceHeaderIsRead

LEMMA SequenceHeaderReadsAs ==
  ASSUME NEW obu, SequenceHeaderTyped(obu)
  PROVE  ReadsBackAs(obu)
           = ObuWith("sequence_header", AsRead(obu.header),
                     [ia_code |-> obu.payload.ia_code, primary_profile |-> obu.payload.primary_profile,
                      additional_profile |-> obu.payload.additional_profile, trailing |-> <<>>],
                     obu.payload.trailing \o obu.trailing)
<1> DEFINE header == obu.header
           code   == obu.payload.ia_code
           p      == obu.payload.primary_profile
           a      == obu.payload.additional_profile
           own    == obu.payload.trailing
           rest   == obu.trailing
           tail   == own \o rest
           none   == <<>>
           h      == AsRead(header)
           bare   == [ia_code |-> code, primary_profile |-> p, additional_profile |-> a,
                      trailing |-> none]
<1>1. /\ obu.kind = "sequence_header"
      /\ obu = ObuWith("sequence_header", header,
                       [ia_code |-> code, primary_profile |-> p, additional_profile |-> a,
                        trailing |-> own], rest)
  BY DEF SequenceHeaderTyped, Whole, SequenceHeaderOf
<1> HIDE DEF header, code, p, a, own, rest, none, h
<1> HIDE DEF tail
<1>2. PICK owned : owned = [obu EXCEPT !.payload.trailing = none, !.trailing = tail]
  OBVIOUS
<1>3. owned = ObuWith("sequence_header", header, bare, tail)
  BY <1>1, <1>2 DEF ObuWith
<1>4. Merged(obu) = owned
  <2>1. /\ obu.kind \in Descriptors /\ obu.kind # "codec_config" /\ obu.kind # "audio_element"
        /\ obu.kind # "audio_frame"
    BY <1>1 DEF Descriptors
  <2>2. obu.payload.trailing \o obu.trailing = tail
    BY DEF tail, own, rest
  <2>3. Merged(obu) = [obu EXCEPT !.payload.trailing = <<>>,
                                  !.trailing = obu.payload.trailing \o obu.trailing]
    BY <2>1, Zenon DEF Merged
  <2> QED  BY <1>2, <2>2, <2>3 DEF none
<1>5. obu.kind # "parameter_block" /\ owned.header = header
  BY <1>1, <1>3 DEF ObuWith
<1>6. ReadsBackAs(obu) = [owned EXCEPT !.header = AsRead(owned.header)]
  BY <1>4, <1>5 DEF ReadsBackAs
<1>7. [owned EXCEPT !.header = AsRead(owned.header)] = ObuWith("sequence_header", h, bare, tail)
  <2> HIDE DEF bare
  <2>1. PICK b : b = [owned EXCEPT !.header = h]
    OBVIOUS
  <2>2. b = ObuWith("sequence_header", h, bare, tail)
    BY <1>3, <2>1 DEF ObuWith
  <2> QED  BY <1>5, <2>1, <2>2 DEF h
<1> QED  BY <1>6, <1>7 DEF header, code, p, a, own, rest, none, tail, h

\* Lists of steps are joined in any order.
Regroups(a, b, c) == (a \o b) \o c = a \o (b \o c) /\ b \o c \in Seq(Steps)

LEMMA Regrouped ==
  ASSUME NEW a \in Seq(Steps), NEW b \in Seq(Steps), NEW c \in Seq(Steps)
  PROVE  Regroups(a, b, c)
<1> DEFINE S == Steps
<1>1. a \in Seq(S) /\ b \in Seq(S) /\ c \in Seq(S)
  OBVIOUS
<1> HIDE DEF S
<1>2. (a \o b) \o c = a \o (b \o c)
  BY <1>1, ConcatAssociative
<1>3. b \o c \in Seq(S)
  BY <1>1, ConcatProperties
<1> QED  BY <1>2, <1>3 DEF S, Regroups

\* Written, a header is its bytes and those that trail it.
LEMMA SequenceHeaderIsPut ==
  ASSUME NEW obu, SequenceHeaderTyped(obu),
         Written(PutIaSequenceHeader(obu.payload)).err = Ok
  PROVE  Written(PutIaSequenceHeader(obu.payload)).bytes
           = HeaderBytes(obu.payload) \o obu.payload.trailing
<1> DEFINE v     == obu.payload
           code  == v.ia_code
           p     == v.primary_profile
           a     == v.additional_profile
           own   == v.trailing
           cond  == a < p
           kind  == "AdditionalProfileBelowPrimary"
           span  == PutSpan(code)
           first == Put(p, 8)
           next1 == Put(a, 8)
           last  == PutSpan(own)
           r     == Refuse(cond, kind)
           chain == ((span \o first) \o next1) \o last
           whole == PutIaSequenceHeader(v)
<1>1. code \in Seq(Byte) /\ p \in Byte /\ a \in Byte /\ own \in Seq(Byte)
  BY DEF SequenceHeaderTyped
<1>2. kind \in ErrorKinds /\ kind # Ok
  BY DEF ErrorKinds, Ok
<1>3. Wrote(span, code) /\ Wrote(first, <<p>>) /\ Wrote(next1, <<a>>) /\ Wrote(last, own)
  BY <1>1, SpanWrote, ByteWrote
<1>4. whole = ((r \o span) \o first) \o next1 \o last
  BY DEF PutIaSequenceHeader
<1>5. r \in Seq(Steps)
  <2> HIDE DEF cond, kind
  <2> QED  BY <1>2, RefusalSteps, Zenon
<1>6. span \in Seq(Steps) /\ first \in Seq(Steps) /\ next1 \in Seq(Steps) /\ last \in Seq(Steps)
  <2> HIDE DEF span, first, next1, last
  <2> QED  BY <1>3 DEF Wrote
<1> HIDE DEF span, first, next1, last, r, whole
<1>7. whole = r \o chain
  <2> DEFINE x == span \o first
             y == x \o next1
  <2>1. (r \o span) \o first = r \o x /\ x \in Seq(Steps)
    <3>1. Regroups(r, span, first)
      BY <1>5, <1>6, Regrouped
    <3> QED  BY <3>1 DEF Regroups
  <2>2. (r \o x) \o next1 = r \o y /\ y \in Seq(Steps)
    <3> HIDE DEF x
    <3>1. Regroups(r, x, next1)
      BY <1>5, <1>6, <2>1, Regrouped
    <3> QED  BY <3>1 DEF Regroups
  <2>3. (r \o y) \o last = r \o (y \o last)
    <3> HIDE DEF y
    <3>1. Regroups(r, y, last)
      BY <1>5, <1>6, <2>2, Regrouped
    <3> QED  BY <3>1 DEF Regroups
  <2> QED  BY <1>4, <2>1, <2>2, <2>3
<1> DEFINE b1 == code \o <<p>>
           b2 == b1 \o <<a>>
           bytes == b2 \o own
<1>8. Wrote(chain, bytes)
  <2>1. Wrote(span \o first, b1)
    BY <1>3, BothWrote
  <2>2. Wrote((span \o first) \o next1, b2)
    <3> HIDE DEF b1
    <3> QED  BY <1>3, <2>1, BothWrote
  <2> HIDE DEF b2
  <2> QED  BY <1>3, <2>2, BothWrote
<1>9. Written(whole).err = Ok
  BY DEF whole
<1>10. Written(whole) = [err |-> Ok, bytes |-> bytes]
  <2>1. whole = Refuse(cond, kind) \o chain
    BY <1>7 DEF r
  <2>2. chain \in Seq(Steps) /\ Writes(chain, bytes) /\ bytes \in Seq(Byte)
    BY <1>8 DEF Wrote
  <2> HIDE DEF cond, kind, chain, bytes
  <2>3. ~ cond
    <3>1. Written(r \o chain).err = Ok
      BY <1>7, <1>9
    <3> QED  BY <1>2, <2>2, <3>1, NotRefused, Zenon DEF r
  <2>4. whole = chain
    BY <2>1, <2>2, <2>3, NoRefusal, Zenon
  <2> QED  BY <1>9, <2>2, <2>4, WrittenWrites
<1>11. bytes = HeaderBytes(v) \o v.trailing
  BY DEF HeaderBytes
<1> HIDE DEF bytes, v
<1>12. Written(whole).bytes = bytes
  BY <1>10
<1> QED  BY <1>11, <1>12 DEF whole, v

LEMMA SequenceHeaderReadsBack ==
  ASSUME NEW known, NEW obu, SequenceHeaderTyped(obu)
  PROVE  PayloadReadsBack(known, obu)
<1> DEFINE code  == obu.payload.ia_code
           p     == obu.payload.primary_profile
           a     == obu.payload.additional_profile
           own   == obu.payload.trailing
           rest  == obu.trailing
           more  == own \o rest
           h     == AsRead(obu.header)
           front == (code \o <<p>>) \o <<a>>
           content == Content(known, obu)
           n     == Len(content)
           value == [ia_code |-> code, primary_profile |-> p, additional_profile |-> a,
                     trailing |-> more]
<1> SUFFICES ASSUME Written(PutPayload(known, obu)).err = Ok
             PROVE  PayloadIsRead(known, obu, content)
  BY DEF PayloadReadsBack
<1>1. /\ obu.kind = "sequence_header" /\ obu.header \in Headers
      /\ obu.header.obu_type.raw = SequenceHeaderType
      /\ code \in Seq(Byte) /\ Len(code) = 4 /\ p \in Byte /\ a \in Byte
      /\ own \in Seq(Byte) /\ rest \in Seq(Byte)
  BY DEF SequenceHeaderTyped
<1>2. PutPayload(known, obu) = PutIaSequenceHeader(obu.payload)
  BY <1>1 DEF PutPayload
<1>3. Written(PutPayload(known, obu)).bytes = front \o own
  <2>1. Written(PutPayload(known, obu)).bytes = HeaderBytes(obu.payload) \o obu.payload.trailing
    BY <1>2, SequenceHeaderIsPut
  <2> QED  BY <2>1 DEF HeaderBytes
<1>4. content = front \o more /\ more \in Seq(Byte)
  <2>1. content = (front \o own) \o rest
    BY <1>3 DEF Content
  <2>2. front \in Seq(Byte)
    <3> DEFINE x == code \o <<p>>
    <3>1. x \in Seq(Byte)
      BY <1>1
    <3> HIDE DEF x
    <3>2. x \o <<a>> \in Seq(Byte)
      BY <1>1, <3>1
    <3> QED  BY <3>2 DEF x
  <2> HIDE DEF front, own, rest, content
  <2>3. (front \o own) \o rest = front \o (own \o rest) /\ own \o rest \in Seq(Byte)
    BY <1>1, <2>2, ConcatAssociative, ConcatProperties
  <2> QED  BY <2>1, <2>3
<1>5. h.obu_type.raw = SequenceHeaderType
  <2> HIDE DEF h
  <2>1. h.obu_type = obu.header.obu_type
    BY <1>1, TypeKept DEF h
  <2> QED  BY <1>1, <2>1
<1> HIDE DEF h, content, code, p, a, own, rest, more, n
<1>6. KindOf(h.obu_type.raw) = "sequence_header"
  BY <1>5 DEF KindOf, SequenceHeaderType, AudioFrameTypes
<1>7. HeaderLies(content, code, p, a, more)
  <2>1. content = ((code \o <<p>>) \o <<a>>) \o more
    BY <1>4
  <2> QED  BY <1>1, <1>4, <2>1, HeaderPieces
<1>8. content \in Seq(Byte) /\ ReadIaSequenceHeader(Cursor(content)) = Between(content, n, <<value>>)
  <2>1. SequenceHeaderIsRead(content, code, p, a, more)
    BY <1>7, SequenceHeaderRead
  <2> QED  BY <1>7, <2>1 DEF SequenceHeaderIsRead, HeaderLies, n
<1>9. ReadPayload(Cursor(content), h, known) = <<"sequence_header", Between(content, n, <<value>>)>>
  <2> HIDE DEF value
  <2> QED  BY <1>6, <1>8 DEF ReadPayload
<1> DEFINE none == <<>>
           bare == [ia_code |-> code, primary_profile |-> p, additional_profile |-> a,
                    trailing |-> none]
<1>10. \A next : ObuInFrame(FrameHolding(obu.header, content, next), known)
         = [err |-> Ok, next |-> next, obu |-> ObuWith("sequence_header", h, bare, more)]
  <2>1. value.trailing = more
    OBVIOUS
  <2>2. [value EXCEPT !.trailing = none] = bare
    <3> HIDE DEF none
    <3> QED  OBVIOUS
  <2> HIDE DEF value, bare
  <2>3. "sequence_header" \in Descriptors
    BY DEF Descriptors
  <2>4. \A next : ObuInFrame(FrameHolding(obu.header, content, next), known)
         = [err |-> Ok, next |-> next,
            obu |-> ObuWith("sequence_header", AsRead(obu.header), [value EXCEPT !.trailing = <<>>],
                            value.trailing)]
    BY <1>8, <1>9, <2>3, DescriptorThenRest DEF n, h
  <2> QED  BY <2>1, <2>2, <2>4 DEF h
<1>11. ReadsBackAs(obu) = ObuWith("sequence_header", h, bare, more)
  BY SequenceHeaderReadsAs DEF h, code, p, a, own, rest, more
<1> QED  BY <1>10, <1>11 DEF PayloadIsRead

----------------------------------------------------------------------------
(* OBUs that read back by themselves, and streams of them                  *)

\* An OBU of a kind whose payload is bytes, an Audio Frame or a sequence header.
Plain(known, obu) ==
  \/ /\ Whole(obu) /\ obu.kind \in Bare /\ obu.header \in Headers /\ obu.trailing \in Seq(Byte)
     /\ Typed(obu) /\ BarePayload(known, obu)
  \/ AudioFrameTyped(obu)
  \/ SequenceHeaderTyped(obu)

LEMMA PlainReadsBack ==
  ASSUME CrateLimits, NEW known, NEW obu, Plain(known, obu)
  PROVE  PayloadReadsBack(known, obu) /\ Observe(known, ReadsBackAs(obu)) = Observe(known, obu)
<1>1. ASSUME NEW kind, NEW header, NEW payload, NEW trailing, obu.kind = kind,
             kind # "audio_element", kind # "mix_presentation",
             ReadsBackAs(obu) = ObuWith(kind, header, payload, trailing)
      PROVE  Observe(known, ReadsBackAs(obu)) = Observe(known, obu)
  <2>1. ReadsBackAs(obu).kind = kind
    BY <1>1 DEF ObuWith
  <2> QED  BY <1>1, <2>1, Zenon DEF Observe
<1>2. CASE /\ Whole(obu) /\ obu.kind \in Bare /\ obu.header \in Headers /\ obu.trailing \in Seq(Byte)
           /\ Typed(obu) /\ BarePayload(known, obu)
  <2>1. PayloadReadsBack(known, obu)
    BY <1>2, BareReadsBack
  <2>2. ReadsBackAs(obu) = ObuWith(obu.kind, AsRead(obu.header), obu.payload, obu.trailing)
    BY <1>2, BareReadsAs
  <2>3. obu.kind # "audio_element" /\ obu.kind # "mix_presentation"
    BY <1>2 DEF Bare
  <2> QED  BY <1>1, <2>1, <2>2, <2>3
<1>3. CASE AudioFrameTyped(obu)
  <2>1. PayloadReadsBack(known, obu)
    BY <1>3, AudioFrameReadsBack
  <2>2. obu.kind = "audio_frame"
    BY <1>3 DEF AudioFrameTyped
  <2> QED  BY <1>1, <1>3, <2>1, <2>2, FrameReadsAs
<1>4. CASE SequenceHeaderTyped(obu)
  <2>1. PayloadReadsBack(known, obu)
    BY <1>4, SequenceHeaderReadsBack
  <2>2. obu.kind = "sequence_header"
    BY <1>4 DEF SequenceHeaderTyped
  <2> QED  BY <1>1, <1>4, <2>1, <2>2, SequenceHeaderReadsAs
<1> QED  BY <1>2, <1>3, <1>4 DEF Plain

\* Plain, and no larger than its writer frames.
PlainFramed(known, obu, padding) ==
  Plain(known, obu) /\ Framable(obu.header, Content(known, obu), padding)

\* Whatever an Audio Frame, a sequence header, a Temporal Delimiter, a reserved
\* OBU or a block without a definition holds, and whoever frames it, it reads
\* back (write_obu_with_header and SequenceReader::next_obu): the id an obu_type
\* implies is not read from the payload, and the trailing bytes are not lost.
THEOREM PlainReadsAlone ==
  ASSUME CrateLimits, NEW known, NEW obu, NEW padding, PlainFramed(known, obu, padding)
  PROVE  ReadsAlone(known, obu, padding)
<1>1. PayloadReadsBack(known, obu) /\ Observe(known, ReadsBackAs(obu)) = Observe(known, obu)
  BY PlainReadsBack DEF PlainFramed
<1> QED  BY <1>1, PayloadsDecide DEF PlainFramed

\* What may be written next reads back by itself, if it is not plain.
OthersReadAlone ==
  \A obu \in Candidates :
    /\ PlainFramed(registry, obu, 0) \/ ReadsAlone(registry, obu, 0)
    /\ obu \in ForeignObus => PlainFramed(registry, obu, 1) \/ ReadsAlone(registry, obu, 1)

\* Only the Codec Configs, Audio Elements, Mix Presentations and Parameter Blocks
\* of a stream have to read back by themselves for all of it to.
THEOREM OthersDecide ==
  ASSUME CrateLimits
  PROVE  Spec /\ []OthersReadAlone => [](WrittenReadsBack /\ CutIsReported)
<1>1. OthersReadAlone => EachReadsAlone
  BY PlainReadsAlone DEF OthersReadAlone, EachReadsAlone
<1> QED  BY <1>1, StreamReadsBack, CutStreamIsReported, PTL

\* Every OBU of the stream is plain, also as another encoder frames it.
AllPlain(obus) ==
  \A i \in DOMAIN obus :
    /\ PlainFramed(<<>>, obus[i], 0)
    /\ obus[i] \in ForeignObus => PlainFramed(<<>>, obus[i], 1)

PlainHeld ==
  /\ \E V : written \in Seq(V)
  /\ AllPlain(written) => AsWritten /\ registry = <<>>

\* A plain OBU publishes nothing.
LEMMA PlainIsSilent ==
  ASSUME NEW known, NEW obu, Plain(known, obu)
  PROVE  Observe(known, obu) = known
<1>1. obu.kind # "audio_element" /\ obu.kind # "mix_presentation"
  BY DEF Plain, Bare, AudioFrameTyped, SequenceHeaderTyped
<1> QED  BY <1>1, Zenon DEF Observe

LEMMA PlainAppended ==
  ASSUME CrateLimits, PlainHeld, Writable, NEW obu, NEW padding \in {0, 1},
         padding = 1 => obu \in ForeignObus,
         AppendBytes(obu, WriteObu(registry, obu, padding))
  PROVE  PlainHeld'
<1>1. PICK V : written \in Seq(V)
  BY DEF PlainHeld
<1> DEFINE W == V \cup {obu}
           n == Len(written)
<1>2. written \in Seq(W) /\ obu \in W
  BY <1>1
<1> HIDE DEF W
<1>3. /\ written' = Append(written, obu) /\ Append(written, obu) \in Seq(W)
      /\ DOMAIN Append(written, obu) = 1 .. n + 1 /\ n \in Nat /\ DOMAIN written = 1 .. n
      /\ Append(written, obu)[n + 1] = obu
      /\ \A i \in 1 .. n : Append(written, obu)[i] = written[i]
  BY <1>2, AppendProperties DEF AppendBytes
<1> HIDE DEF n
<1>4. ASSUME AllPlain(written') PROVE AsWritten' /\ registry' = <<>>
  <2>1. n + 1 \in 1 .. n + 1 /\ \A i \in 1 .. n : i \in 1 .. n + 1
    BY <1>3
  <2>2. /\ PlainFramed(<<>>, obu, 0)
        /\ obu \in ForeignObus => PlainFramed(<<>>, obu, 1)
    BY <1>3, <1>4, <2>1 DEF AllPlain
  <2>3. AllPlain(written)
    BY <1>3, <1>4, <2>1 DEF AllPlain
  <2>4. AsWritten /\ registry = <<>>
    BY <2>3 DEF PlainHeld
  <2>5. PlainFramed(registry, obu, padding)
    BY <2>2, <2>4
  <2>6. ReadsAlone(registry, obu, padding)
    BY <2>5, PlainReadsAlone
  <2>7. AsWritten'
    BY <2>4, <2>6, AppendHolds
  <2>8. registry' = registry
    BY <2>5, PlainIsSilent DEF AppendBytes, PlainFramed
  <2> QED  BY <2>4, <2>7, <2>8
<1> QED  BY <1>3, <1>4 DEF PlainHeld

\* A stream of Audio Frames, sequence headers, Temporal Delimiters, reserved OBUs
\* and blocks without a definition, whoever framed each, reads back as it was
\* written, and cut at any byte, yields those before the cut, and an error
\* unless the cut is between two.
THEOREM PlainStreamsReadBack ==
  ASSUME CrateLimits
  PROVE  Spec => [](AllPlain(written) => WrittenReadsBack /\ CutIsReported)
<1>1. Init => PlainHeld
  <2> SUFFICES ASSUME Init PROVE PlainHeld
    OBVIOUS
  <2>1. AsWritten /\ registry = <<>>
    BY NothingIsHeld DEF Init
  <2> QED  BY <2>1 DEF PlainHeld, AsWritten
<1>2. PlainHeld /\ [Next]_vars => PlainHeld'
  <2> SUFFICES ASSUME PlainHeld, [Next]_vars PROVE PlainHeld'
    OBVIOUS
  <2>1. CASE WriteOwn
    <3>1. Writable
      BY <2>1 DEF WriteOwn
    <3>2. PICK obu \in Candidates : AppendBytes(obu, WriteObu(registry, obu, 0))
      BY <2>1 DEF WriteOwn, AppendObu
    <3> QED  BY <3>1, <3>2, PlainAppended
  <2>2. CASE WriteForeign
    <3>1. Writable
      BY <2>2 DEF WriteForeign
    <3>2. PICK obu \in Candidates \cap ForeignObus : AppendBytes(obu, WriteObu(registry, obu, 1))
      BY <2>2 DEF WriteForeign, AppendObu
    <3> QED  BY <3>1, <3>2, PlainAppended
  <2>3. CASE Cut \/ Garble \/ ReadBack \/ UNCHANGED vars
    <3>1. written' = written /\ registry' = registry
      BY <2>3 DEF Cut, Garble, ReadBack, vars
    <3>2. AsWritten => AsWritten'
      BY <2>3, OthersHold
    <3> QED  BY <3>1, <3>2 DEF PlainHeld, AllPlain
  <2> QED  BY <2>1, <2>2, <2>3 DEF Next
<1>3. PlainHeld /\ AllPlain(written) => WrittenReadsBack /\ CutIsReported
  BY HeldIsReadBack, HeldReportsCut DEF PlainHeld
<1> QED  BY <1>1, <1>2, <1>3, PTL DEF Spec

----------------------------------------------------------------------------
(* The frame plan                                                          *)

\* A quotient and a remainder make up the number they are of.
LEMMA Division ==
  ASSUME NEW total \in Nat, NEW per \in Nat \ {0}
  PROVE  /\ total \div per \in Nat
         /\ total % per \in 0 .. per - 1
         /\ total = (total \div per) * per + (total % per)
  BY SMT

\* The frames of a plan hold exactly the samples and what the last one trims,
\* which is less than a frame, for every length and every size of a frame; and
\* no stream is refused that leaves room for a frame in a word.
THEOREM PlanHoldsTheStream ==
  ASSUME NEW total \in Nat, NEW per \in Nat \ {0}
  PROVE  LET plan == PlanFrames(total, per)
         IN  /\ total + per <= WordLimit => plan.err = Ok
             /\ plan.err = Ok =>
                  /\ plan.frame_count \in Nat
                  /\ plan.trim_at_end \in 0 .. per - 1
                  /\ plan.frame_count * per - plan.trim_at_end = total
<1> DEFINE quotient  == total \div per
           remainder == total % per
<1>1. /\ quotient \in Nat
      /\ remainder \in 0 .. per - 1
      /\ total = quotient * per + remainder
  BY Division
<1>2. FrameCount(total, per) = quotient + (IF remainder = 0 THEN 0 ELSE 1)
  BY DEF FrameCount
<1> HIDE DEF quotient, remainder
<1> DEFINE count == FrameCount(total, per)
<1>3. count \in Nat /\ count * per - total \in 0 .. per - 1 /\ count * per < total + per
  <2>1. CASE remainder = 0
    BY <1>1, <1>2, <2>1
  <2>2. CASE remainder # 0
    <3>1. (quotient + 1) * per = quotient * per + per
      BY <1>1
    <3>2. quotient * per \in Nat
      BY <1>1
    <3> QED
      BY <1>1, <1>2, <2>2, <3>1, <3>2
  <2> QED
    BY <2>1, <2>2
<1>4. PlanFrames(total, per) = PlanOf(count, total, per)
  BY DEF PlanFrames
<1> HIDE DEF count
<1> DEFINE capacity == count * per
<1>5. capacity \in Nat
  BY <1>3
<1>6. /\ capacity - total \in 0 .. per - 1
      /\ capacity < total + per
  BY <1>3
<1>7. PlanOf(count, total, per) =
        IF capacity >= WordLimit THEN Fails("FramePlanOverflow")
        ELSE [err |-> Ok, frame_count |-> count, num_samples_per_frame |-> per,
              trim_at_end |-> capacity - total]
  BY DEF PlanOf
<1>8. count * per - (capacity - total) = total
  BY <1>5
<1> HIDE DEF capacity
<1>9. CASE capacity >= WordLimit
  BY <1>4, <1>5, <1>6, <1>7, <1>9, WordAssumption DEF Fails, Ok
<1>10. CASE ~(capacity >= WordLimit)
  BY <1>3, <1>4, <1>6, <1>7, <1>8, <1>10 DEF Ok
<1> QED
  BY <1>9, <1>10

----------------------------------------------------------------------------
(* Packing                                                                 *)

\* The bytes taken as a sample lie inside the input.
Inside(interleaved, width, bytes, sample, channel) ==
  LET start == sample * width * bytes + channel * bytes
      taken == SampleBytes(interleaved, width, bytes, sample, channel)
  IN  /\ start \in Nat /\ start + bytes <= Len(interleaved)
      /\ taken \in Seq(Byte) /\ Len(taken) = bytes
      /\ \A i \in 1 .. bytes : taken[i] = interleaved[start + i]

LEMMA SampleInside ==
  ASSUME NEW interleaved \in Seq(Byte), NEW width \in Nat \ {0}, NEW bytes \in Nat \ {0},
         NEW samples \in Nat, samples * width * bytes <= Len(interleaved),
         NEW sample \in 0 .. samples - 1, NEW channel \in 0 .. width - 1
  PROVE  Inside(interleaved, width, bytes, sample, channel)
<1> DEFINE start == sample * width * bytes + channel * bytes
           taken == SampleBytes(interleaved, width, bytes, sample, channel)
<1>1. start \in Nat
  OBVIOUS
<1>2. start + bytes <= samples * width * bytes
  <2>1. start + bytes = (sample * width + channel + 1) * bytes
    OBVIOUS
  <2>2. sample * width + channel + 1 <= samples * width
    <3>1. (sample + 1) * width = sample * width + width
      OBVIOUS
    <3>2. (sample + 1) * width <= samples * width
      <4>1. samples = (sample + 1) + (samples - sample - 1) /\ samples - sample - 1 \in Nat
        OBVIOUS
      <4>2. samples * width = (sample + 1) * width + (samples - sample - 1) * width
        BY <4>1
      <4> QED  BY <4>1, <4>2
    <3> QED  BY <3>1, <3>2
  <2> DEFINE low  == sample * width + channel + 1
             high == samples * width
  <2>3. low \in Nat /\ high - low \in Nat /\ high = low + (high - low)
    BY <2>2
  <2> HIDE DEF low, high
  <2>4. high * bytes = low * bytes + (high - low) * bytes
    BY <2>3
  <2>5. low * bytes <= high * bytes
    BY <2>3, <2>4
  <2> QED  BY <2>1, <2>5 DEF low, high
<1>3. taken = SubSeq(interleaved, start + 1, start + bytes)
  BY DEF SampleBytes
<1>4. start + bytes <= Len(interleaved)
  <2>1. samples * width * bytes \in Nat /\ Len(interleaved) \in Nat
    OBVIOUS
  <2> HIDE DEF start
  <2> QED  BY <1>1, <1>2, <2>1
<1> HIDE DEF start, taken
<1>5. /\ taken \in Seq(Byte) /\ Len(taken) = bytes
      /\ \A i \in 1 .. bytes : taken[i] = interleaved[start + i]
  BY <1>1, <1>3, <1>4
<1> QED  BY <1>1, <1>4, <1>5 DEF start, taken, Inside

\* A substream holds its channels sample by sample: what is found at a place of
\* it are the bytes that the channel of that place has in the input.
HoldsSamples(packed, channels, interleaved, width, bytes) ==
  LET samples == Len(interleaved) \div (width * bytes)
      count   == Len(channels)
  IN  /\ packed \in Seq(Byte)
      /\ Len(packed) = samples * count * bytes
      /\ \A sample \in 0 .. samples - 1 : \A place \in 1 .. count :
           SampleBytes(packed, count, bytes, sample, place - 1)
             = SampleBytes(interleaved, width, bytes, sample, channels[place])

\* The place of a sample among those of its substream.
LEMMA PlaceOfSample ==
  ASSUME NEW count \in Nat \ {0}, NEW samples \in Nat,
         NEW sample \in 0 .. samples - 1, NEW place \in 1 .. count
  PROVE  LET k == sample * count + place
         IN  /\ k \in 1 .. samples * count
             /\ (k - 1) \div count = sample
             /\ ((k - 1) % count) + 1 = place
<1> DEFINE k == sample * count + place
<1>1. k \in Nat /\ k >= 1 /\ k - 1 = sample * count + (place - 1)
  <2>1. sample * count \in Nat
    OBVIOUS
  <2> QED  BY <2>1
<1>2. k <= samples * count
  <2>1. samples = (sample + 1) + (samples - sample - 1) /\ samples - sample - 1 \in Nat
    OBVIOUS
  <2>2. samples * count = sample * count + count + (samples - sample - 1) * count
    BY <2>1
  <2>3. (samples - sample - 1) * count \in Nat /\ sample * count \in Nat
    BY <2>1
  <2> DEFINE rest == (samples - sample - 1) * count
             before == sample * count
             all == samples * count
  <2>4. all = before + count + rest /\ rest \in Nat /\ before \in Nat /\ k = before + place
    BY <2>2, <2>3
  <2> HIDE DEF rest, before, all, k
  <2>5. k <= all
    BY <2>4
  <2> QED  BY <2>5 DEF all
<1> DEFINE quotient == (k - 1) \div count
           remainder == (k - 1) % count
<1>3. quotient \in Nat /\ remainder \in 0 .. count - 1 /\ k - 1 = quotient * count + remainder
  <2>1. k - 1 \in Nat
    BY <1>1
  <2> HIDE DEF k
  <2> QED  BY <2>1, Division
<1> HIDE DEF k, quotient, remainder
<1>4. quotient * count + remainder = sample * count + (place - 1)
  BY <1>1, <1>3
<1>5. ~ (quotient < sample)
  <2> SUFFICES ASSUME quotient < sample PROVE FALSE
    OBVIOUS
  <2>1. sample = quotient + 1 + (sample - quotient - 1) /\ sample - quotient - 1 \in Nat
    BY <1>3
  <2>2. sample * count = quotient * count + count + (sample - quotient - 1) * count
    BY <1>3, <2>1
  <2>3. (sample - quotient - 1) * count \in Nat /\ quotient * count \in Nat
    BY <1>3, <2>1
  <2> QED  BY <1>3, <1>4, <2>2, <2>3
<1>6. ~ (sample < quotient)
  <2> SUFFICES ASSUME sample < quotient PROVE FALSE
    OBVIOUS
  <2>1. quotient = sample + 1 + (quotient - sample - 1) /\ quotient - sample - 1 \in Nat
    BY <1>3
  <2>2. quotient * count = sample * count + count + (quotient - sample - 1) * count
    BY <1>3, <2>1
  <2>3. (quotient - sample - 1) * count \in Nat /\ sample * count \in Nat
    BY <2>1
  <2> QED  BY <1>3, <1>4, <2>2, <2>3
<1>7. quotient = sample
  BY <1>3, <1>5, <1>6
<1>8. remainder = place - 1
  <2>1. quotient * count = sample * count /\ sample * count \in Nat
    BY <1>7
  <2> QED  BY <1>3, <1>4, <2>1
<1>9. remainder + 1 = place
  BY <1>8
<1> QED  BY <1>1, <1>2, <1>7, <1>9 DEF k, quotient, remainder

\* Packing keeps every sample: whatever the channels a substream takes, in
\* whatever order, how wide a sample is and how many bytes it has, every
\* channel of the substream has the bytes of its own channel in the input.
THEOREM PackingKeepsSamples ==
  ASSUME NEW interleaved \in Seq(Byte), NEW width \in Nat \ {0}, NEW bytes \in Nat \ {0},
         NEW channels \in Seq(0 .. width - 1), channels # <<>>
  PROVE  HoldsSamples(PackOne(channels, interleaved, width, bytes),
                      channels, interleaved, width, bytes)
<1> DEFINE samples == Len(interleaved) \div (width * bytes)
           count   == Len(channels)
           At(k)   == SampleBytes(interleaved, width, bytes, (k - 1) \div count,
                                  channels[((k - 1) % count) + 1])
           lists   == [k \in 1 .. samples * count |-> At(k)]
           packed  == PackOne(channels, interleaved, width, bytes)
<1>1. count \in Nat \ {0} /\ \A place \in 1 .. count : channels[place] \in 0 .. width - 1
  OBVIOUS
<1>2. samples \in Nat /\ samples * width * bytes <= Len(interleaved)
  <2> DEFINE size  == width * bytes
             total == Len(interleaved)
             rest  == total % size
  <2>1. size \in Nat \ {0} /\ total \in Nat /\ samples = total \div size
    OBVIOUS
  <2> HIDE DEF size, total, samples
  <2>2. /\ samples \in Nat
        /\ rest \in 0 .. size - 1
        /\ total = samples * size + rest
    BY <2>1, Division
  <2> HIDE DEF rest
  <2>3. samples * width * bytes = samples * size
    BY <2>2 DEF size
  <2>4. samples * size \in Nat /\ samples * size <= total
    BY <2>1, <2>2
  <2> QED  BY <2>2, <2>3, <2>4 DEF total
<1>3. packed = FlattenSeq(lists)
  BY DEF PackOne
<1> HIDE DEF samples, count
<1>4. samples * count \in Nat
  BY <1>1, <1>2
<1>5. ASSUME NEW k \in 1 .. samples * count
      PROVE  At(k) \in Seq(Byte) /\ Len(At(k)) = bytes
  <2>1. k - 1 \in Nat
    BY <1>4
  <2>2. /\ (k - 1) \div count \in Nat
        /\ (k - 1) % count \in 0 .. count - 1
        /\ k - 1 = ((k - 1) \div count) * count + ((k - 1) % count)
    BY <1>1, <2>1, Division
  <2> DEFINE quotient == (k - 1) \div count
             remainder == (k - 1) % count
  <2>3. remainder + 1 \in 1 .. count
    BY <1>1, <2>2
  <2>4. quotient < samples
    <3> HIDE DEF quotient, remainder
    <3> SUFFICES ASSUME ~ (quotient < samples) PROVE FALSE
      OBVIOUS
    <3>1. quotient \in Nat /\ remainder \in Nat /\ k - 1 = quotient * count + remainder
      BY <1>1, <2>2 DEF quotient, remainder
    <3>2. quotient = samples + (quotient - samples) /\ quotient - samples \in Nat
      BY <1>2, <3>1
    <3>3. quotient * count = samples * count + (quotient - samples) * count
      BY <1>1, <1>2, <3>1, <3>2
    <3>4. (quotient - samples) * count \in Nat
      BY <1>1, <3>2
    <3> QED  BY <1>4, <3>1, <3>3, <3>4
  <2>5. quotient \in 0 .. samples - 1 /\ channels[remainder + 1] \in 0 .. width - 1
    BY <1>1, <1>2, <2>2, <2>3, <2>4
  <2> HIDE DEF quotient, remainder
  <2>6. Inside(interleaved, width, bytes, quotient, channels[remainder + 1])
    BY <1>2, <2>5, SampleInside
  <2>7. /\ SampleBytes(interleaved, width, bytes, quotient, channels[remainder + 1]) \in Seq(Byte)
        /\ Len(SampleBytes(interleaved, width, bytes, quotient, channels[remainder + 1])) = bytes
    BY <2>6 DEF Inside
  <2> QED  BY <2>7 DEF quotient, remainder
<1>6. /\ lists \in Seq(Seq(Byte)) /\ Len(lists) = samples * count
      /\ \A k \in 1 .. samples * count : lists[k] = At(k)
  <2> HIDE DEF At
  <2>1. \A k \in 1 .. samples * count : At(k) \in Seq(Byte)
    BY <1>5
  <2> QED  BY <1>4, <2>1
<1> HIDE DEF lists, packed
<1>7. EvenlyPlaced(Byte, bytes, lists)
  BY <1>5, <1>6, FlattenEven
<1>8. packed \in Seq(Byte) /\ Len(packed) = samples * count * bytes
  BY <1>3, <1>6, <1>7 DEF EvenlyPlaced
<1>9. ASSUME NEW sample \in 0 .. samples - 1, NEW place \in 1 .. count
      PROVE  SampleBytes(packed, count, bytes, sample, place - 1)
               = SampleBytes(interleaved, width, bytes, sample, channels[place])
  <2> DEFINE k     == sample * count + place
             here  == SampleBytes(packed, count, bytes, sample, place - 1)
             there == SampleBytes(interleaved, width, bytes, sample, channels[place])
             start == sample * count * bytes + (place - 1) * bytes
  <2>1. /\ k \in 1 .. samples * count
        /\ (k - 1) \div count = sample /\ ((k - 1) % count) + 1 = place
    BY ZenonT(30), <1>1, <1>2, PlaceOfSample
  <2>2. lists[k] = there
    BY <1>6, <2>1
  <2>3. (k - 1) * bytes = start
    <3>1. sample * count \in Nat
      BY <1>1, <1>2
    <3> DEFINE before == sample * count
    <3> HIDE DEF before
    <3>2. before \in Nat /\ (before + place - 1) * bytes = before * bytes + (place - 1) * bytes
      BY <1>1, <3>1 DEF before
    <3> QED  BY <3>2 DEF before
  <2>4. place - 1 \in 0 .. count - 1 /\ samples * count * bytes <= Len(packed)
    BY <1>1, <1>2, <1>8
  <2>5. /\ here \in Seq(Byte) /\ Len(here) = bytes
        /\ \A i \in 1 .. bytes : here[i] = packed[start + i]
    <3>1. Inside(packed, count, bytes, sample, place - 1)
      <4> HIDE DEF here, start
      <4>1. packed \in Seq(Byte) /\ count \in Nat \ {0} /\ samples \in Nat
        BY <1>1, <1>2, <1>8
      <4> QED  BY <2>4, <4>1, SampleInside
    <3> QED  BY <3>1 DEF Inside
  <2>6. there \in Seq(Byte) /\ Len(there) = bytes
    BY <1>5, <1>6, <2>1, <2>2
  <2> HIDE DEF k, here, there, start
  <2>7. \A i \in 1 .. bytes : packed[start + i] = there[i]
    BY <1>3, <1>6, <1>7, <2>1, <2>2, <2>3 DEF EvenlyPlaced
  <2>8. \A i \in 1 .. bytes : here[i] = there[i]
    BY <2>5, <2>7
  <2>9. here = there
    BY <2>5, <2>6, <2>8
  <2> QED  BY <2>9 DEF here, there
<1> QED  BY <1>8, <1>9 DEF HoldsSamples, samples, count, packed

----------------------------------------------------------------------------
(* Samples: the frames of a substream                                      *)

\* A place in rows of n, of which there are as many as rows.
LEMMA InRows ==
  ASSUME NEW n \in Nat \ {0}, NEW rows \in Nat, NEW f \in 0 .. rows - 1, NEW j \in 1 .. n
  PROVE  f * n + j \in 1 .. rows * n
BY PlaceOfSample

\* s is the members at one place of every row.
IsColumn(s, units, i) == s = [k \in 1 .. Len(units) |-> units[k][i]]

\* A unit has a frame of each substream, in the order of their ids.
InUnits(n, units) ==
  \A k \in 1 .. Len(units) :
    Len(units[k]) = n /\ \A j \in 1 .. n : units[k][j].payload.substream_id = j - 1

\* The frames with the id of a substream are those of the units, one of each.
LEMMA Demuxed ==
  ASSUME NEW S, NEW n \in Nat \ {0}, NEW units \in Seq(Seq(S)), InUnits(n, units), NEW i \in 1 .. n
  PROVE  IsColumn(OfSubstream(FlattenSeq(units), i - 1), units, i)
<1> DEFINE obus    == FlattenSeq(units)
           F       == Len(units)
           total   == F * n
           List(m) == IF obus[m].payload.substream_id = i - 1 THEN <<obus[m]>> ELSE <<>>
           lists   == [m \in DOMAIN obus |-> List(m)]
           s       == OfSubstream(obus, i - 1)
<1>1. EvenlyPlaced(S, n, units)
  <2>1. \A k \in 1 .. Len(units) : Len(units[k]) = n
    BY DEF InUnits
  <2> QED  BY <2>1, FlattenEven
<1>2. /\ obus \in Seq(S) /\ Len(obus) = total /\ F \in Nat /\ DOMAIN obus = 1 .. total
      /\ total \in Nat
      /\ \A k \in 1 .. F : \A j \in 1 .. n : obus[(k - 1) * n + j] = units[k][j]
  BY <1>1 DEF EvenlyPlaced
<1>3. s = FlattenSeq(lists)
  BY DEF OfSubstream
<1> HIDE DEF obus, F, total, s
<1>4. /\ lists \in Seq(Seq(S)) /\ Len(lists) = total
      /\ \A m \in 1 .. total : lists[m] = List(m)
  <2>1. \A m \in 1 .. total : obus[m] \in S
    BY <1>2
  <2>2. ASSUME NEW m \in 1 .. total PROVE List(m) \in Seq(S)
    <3>1. <<obus[m]>> \in Seq(S) /\ <<>> \in Seq(S)
      BY <2>1
    <3> QED  BY <3>1, Zenon
  <2> HIDE DEF List
  <2> QED  BY <1>2, <2>2
<1>5. PICK b : Places(lists, b)
  BY <1>4, FlattenPlaces
<1> HIDE DEF lists
<1>6. /\ b[1] = 0 /\ b[total + 1] = Len(s)
      /\ \A m \in 1 .. total :
           b[m + 1] = b[m] + Len(lists[m]) /\ \A j \in 1 .. Len(lists[m]) : s[b[m] + j] = lists[m][j]
  BY <1>3, <1>4, <1>5 DEF Places
<1>7. ASSUME NEW f \in 0 .. F - 1, NEW j \in 1 .. n
      PROVE  /\ f * n + j \in 1 .. total
             /\ j = i => lists[f * n + j] = <<units[f + 1][i]>>
             /\ j # i => lists[f * n + j] = <<>>
  <2> DEFINE m == f * n + j
  <2>1. m \in 1 .. total
    BY <1>2, InRows DEF total
  <2>2. f + 1 \in 1 .. F /\ (f + 1) - 1 = f
    BY <1>2
  <2>3. obus[m] = units[f + 1][j]
    <3> HIDE DEF m
    <3>1. obus[((f + 1) - 1) * n + j] = units[f + 1][j]
      BY <1>2, <2>2
    <3> QED  BY <2>2, <3>1 DEF m
  <2>4. units[f + 1][j].payload.substream_id = j - 1
    BY <2>2 DEF InUnits, F
  <2> HIDE DEF m
  <2>5. lists[m] = List(m)
    BY <1>4, <2>1
  <2>6. j = i => lists[m] = <<units[f + 1][i]>>
    BY <2>3, <2>4, <2>5
  <2>7. j # i => lists[m] = <<>>
    <3>1. j # i => j - 1 # i - 1
      OBVIOUS
    <3> QED  BY <2>3, <2>4, <2>5, <3>1, Zenon
  <2> QED  BY <2>1, <2>6, <2>7 DEF m
<1> HIDE DEF List
<1> DEFINE Seen(f, j) == f + (IF j >= i THEN 1 ELSE 0)
           Reach == {m \in Nat : \A f \in 0 .. F - 1, j \in 0 .. n :
                                   m = f * n + j => b[m + 1] = Seen(f, j)}
<1>8. 0 \in Reach
  <2> SUFFICES ASSUME NEW f \in 0 .. F - 1, NEW j \in 0 .. n, 0 = f * n + j
               PROVE  b[1] = Seen(f, j)
    OBVIOUS
  <2>1. f = 0 /\ j = 0
    <3>1. f * n \in Nat
      BY <1>2
    <3>2. f * n = 0 /\ j = 0
      <4> DEFINE a == f * n
      <4>1. a \in Nat /\ 0 = a + j
        BY <3>1
      <4> HIDE DEF a
      <4>2. a = 0 /\ j = 0
        BY <4>1
      <4> QED  BY <4>2 DEF a
    <3>3. f # 0 => f * n # 0
      BY <1>2
    <3> QED  BY <3>2, <3>3
  <2> QED  BY <1>6, <2>1
<1>9. ASSUME NEW m \in Nat, m \in Reach PROVE m + 1 \in Reach
  <2>1. ASSUME NEW f \in 0 .. F - 1, NEW j \in 1 .. n, m + 1 = f * n + j
        PROVE  b[(m + 1) + 1] = Seen(f, j)
    <3>1. m = f * n + (j - 1) /\ j - 1 \in 0 .. n
      <4> DEFINE a == f * n
      <4>1. a \in Nat
        BY <1>2
      <4> HIDE DEF a
      <4> QED  BY <2>1, <4>1 DEF a
    <3>2. b[m + 1] = Seen(f, j - 1)
      BY <1>9, <3>1
    <3>3. m + 1 \in 1 .. total /\ Len(lists[m + 1]) = IF j = i THEN 1 ELSE 0
      <4>1. CASE j = i
        <5>1. lists[m + 1] = <<units[f + 1][i]>> /\ m + 1 \in 1 .. total
          BY <1>7, <2>1, <4>1
        <5> QED  BY <4>1, <5>1
      <4>2. CASE j # i
        <5>1. lists[m + 1] = <<>> /\ m + 1 \in 1 .. total
          BY <1>7, <2>1, <4>2
        <5> QED  BY <4>2, <5>1
      <4> QED  BY <4>1, <4>2
    <3>4. b[(m + 1) + 1] = b[m + 1] + (IF j = i THEN 1 ELSE 0)
      BY <1>6, <3>3
    <3>5. Seen(f, j) = Seen(f, j - 1) + (IF j = i THEN 1 ELSE 0)
      OBVIOUS
    <3> HIDE DEF Seen
    <3> QED  BY <3>2, <3>4, <3>5
  <2> SUFFICES ASSUME NEW f \in 0 .. F - 1, NEW j \in 0 .. n, m + 1 = f * n + j
               PROVE  b[(m + 1) + 1] = Seen(f, j)
    OBVIOUS
  <2>2. CASE j # 0
    BY <2>1, <2>2
  <2>3. CASE j = 0
    <3>1. f # 0
      BY <2>3
    <3>2. f - 1 \in 0 .. F - 1 /\ n \in 1 .. n
      BY <1>2, <3>1
    <3>3. m + 1 = (f - 1) * n + n
      <4>1. f * n = (f - 1) * n + n
        BY <1>2
      <4> QED  BY <2>3, <4>1
    <3>4. b[(m + 1) + 1] = Seen(f - 1, n)
      BY <2>1, <3>2, <3>3
    <3>5. Seen(f - 1, n) = Seen(f, j)
      BY <1>2, <2>3
    <3> QED  BY <3>4, <3>5
  <2> QED  BY <2>2, <2>3
<1> HIDE DEF Seen
<1>10. \A f \in 0 .. F - 1, j \in 0 .. n : b[f * n + j + 1] = Seen(f, j)
  <2> HIDE DEF Reach
  <2>1. Nat \subseteq Reach
    BY <1>8, <1>9, NaturalSteps
  <2> SUFFICES ASSUME NEW f \in 0 .. F - 1, NEW j \in 0 .. n
               PROVE  b[f * n + j + 1] = Seen(f, j)
    OBVIOUS
  <2> DEFINE m == f * n + j
  <2>2. m \in Nat
    BY <1>2
  <2>3. m \in Reach
    BY <2>1, <2>2
  <2> HIDE DEF m
  <2>4. \A g \in 0 .. F - 1, k \in 0 .. n : m = g * n + k => b[m + 1] = Seen(g, k)
    BY <2>3 DEF Reach
  <2>5. b[m + 1] = Seen(f, j)
    BY <2>4 DEF m
  <2> QED  BY <2>5 DEF m
<1> HIDE DEF Reach
<1>11. Len(s) = F
  <2>1. CASE F = 0
    <3>1. total = 0
      BY <2>1 DEF total
    <3> QED  BY <1>6, <2>1, <3>1
  <2>2. CASE F # 0
    <3>1. F - 1 \in 0 .. F - 1 /\ n \in 0 .. n
      BY <1>2, <2>2
    <3>2. (F - 1) * n + n = total
      BY <1>2 DEF total
    <3>3. b[(F - 1) * n + n + 1] = Seen(F - 1, n)
      BY <1>10, <3>1
    <3>4. Seen(F - 1, n) = F
      BY <1>2 DEF Seen
    <3> QED  BY <1>6, <3>2, <3>3, <3>4
  <2> QED  BY <2>1, <2>2
<1>12. ASSUME NEW k \in 1 .. F PROVE s[k] = units[k][i]
  <2> DEFINE f == k - 1
             m == f * n + i
  <2>1. f \in 0 .. F - 1 /\ f + 1 = k /\ i - 1 \in 0 .. n
    BY <1>2
  <2>2. m \in 1 .. total /\ lists[m] = <<units[k][i]>>
    BY <1>7, <2>1
  <2>3. m = f * n + (i - 1) + 1
    BY <1>2
  <2>4. b[m] = k - 1
    <3>1. b[f * n + (i - 1) + 1] = Seen(f, i - 1)
      BY <1>10, <2>1
    <3>2. Seen(f, i - 1) = f
      BY DEF Seen
    <3> QED  BY <2>3, <3>1, <3>2
  <2> HIDE DEF m
  <2>5. s[b[m] + 1] = lists[m][1]
    <3>1. 1 \in 1 .. Len(lists[m])
      BY <2>2
    <3> QED  BY <1>6, <2>2, <3>1
  <2> QED  BY <2>2, <2>4, <2>5
<1>13. s \in Seq(S)
  BY <1>3, <1>4, FlattenMembers
<1> DEFINE t == [k \in 1 .. F |-> units[k][i]]
<1>14. t \in Seq(S) /\ Len(t) = F /\ \A k \in 1 .. F : t[k] = units[k][i]
  <2>1. \A k \in 1 .. F : units[k][i] \in S
    BY DEF InUnits, F
  <2> QED  BY <1>2, <2>1
<1> HIDE DEF t
<1>15. s = t
  BY <1>11, <1>12, <1>13, <1>14, SeqEqual
<1> QED  BY <1>15 DEF t, s, F, obus, IsColumn

----------------------------------------------------------------------------
(* Samples: the layouts                                                    *)

\* The plan of a layout takes every channel into a substream, and as many into
\* each as its layer declares.
PlanFits(substreams, counts) ==
  LET width == ChannelCount(substreams)
  IN  /\ width \in Nat \ {0}
      /\ Len(substreams) = counts[1] /\ Len(substreams) \in 1 .. 4
      /\ DOMAIN substreams = 1 .. Len(substreams)
      /\ \A i \in 1 .. Len(substreams) :
           /\ substreams[i] \in Seq(0 .. width - 1)
           /\ Len(substreams[i]) = IF i <= counts[2] THEN 2 ELSE 1
      /\ \A channel \in 0 .. width - 1 :
           \E i \in 1 .. Len(substreams) : \E at \in 1 .. Len(substreams[i]) :
             substreams[i][at] = channel

LEMMA OneList ==
  ASSUME NEW S, NEW list \in Seq(S)
  PROVE  ChannelCount(<<list>>) = Len(list)
<1> DEFINE lists == <<list>>
<1>1. lists \in Seq(Seq(S)) /\ Len(lists) = 1 /\ lists[1] = list
  OBVIOUS
<1> HIDE DEF lists
<1>2. PICK b : Places(lists, b)
  BY <1>1, FlattenPlaces
<1>3. b[1] = 0 /\ b[2] = Len(FlattenSeq(lists)) /\ b[2] = b[1] + Len(list)
  <2>1. 1 \in 1 .. Len(lists)
    BY <1>1
  <2> QED  BY <1>1, <1>2, <2>1 DEF Places
<1>4. Len(list) \in Nat
  OBVIOUS
<1>5. ChannelCount(lists) = Len(list)
  BY <1>3, <1>4 DEF ChannelCount
<1> QED  BY <1>5 DEF lists

LEMMA FourLists ==
  ASSUME NEW S, NEW lists \in Seq(Seq(S)), Len(lists) = 4
  PROVE  ChannelCount(lists) = Len(lists[1]) + Len(lists[2]) + Len(lists[3]) + Len(lists[4])
<1>2. PICK b : Places(lists, b)
  BY FlattenPlaces
<1>3. /\ b[1] = 0 /\ b[5] = Len(FlattenSeq(lists))
      /\ \A i \in 1 .. 4 : b[i + 1] = b[i] + Len(lists[i])
  BY <1>2 DEF Places
<1>4. /\ b[2] = b[1] + Len(lists[1]) /\ b[3] = b[2] + Len(lists[2])
      /\ b[4] = b[3] + Len(lists[3]) /\ b[5] = b[4] + Len(lists[4])
  BY <1>3
<1>5. /\ Len(lists[1]) \in Nat /\ Len(lists[2]) \in Nat
      /\ Len(lists[3]) \in Nat /\ Len(lists[4]) \in Nat
  <2>1. /\ lists[1] \in Seq(S) /\ lists[2] \in Seq(S)
        /\ lists[3] \in Seq(S) /\ lists[4] \in Seq(S)
    <3> DEFINE T == Seq(S)
    <3>1. lists \in Seq(T)
      OBVIOUS
    <3> HIDE DEF T
    <3>2. lists \in [1 .. Len(lists) -> T]
      BY <3>1, LenProperties
    <3>3. lists \in [1 .. 4 -> T]
      BY <3>2
    <3>4. lists[1] \in T /\ lists[2] \in T /\ lists[3] \in T /\ lists[4] \in T
      BY <3>3
    <3> QED  BY <3>4 DEF T
  <2> QED  BY <2>1
<1> QED  BY <1>3, <1>4, <1>5 DEF ChannelCount

LEMMA PlanOfLayout ==
  ASSUME NEW layout \in DOMAIN LayoutPlans
  PROVE  PlanFits(LayoutPlans[layout], SingleLayerSubstreamCounts[layout])
<1>1. layout \in {0, 1, 2, 9}
  BY DEF LayoutPlans
<1>2. CASE layout = 0
  <2> DEFINE plan == <<<<0>>>>
  <2>1. LayoutPlans[layout] = plan /\ SingleLayerSubstreamCounts[layout] = <<1, 0>>
    BY <1>2 DEF LayoutPlans, SingleLayerSubstreamCounts
  <2>2. <<0>> \in Seq(0 .. 0) /\ Len(<<0>>) = 1
    OBVIOUS
  <2>3. ChannelCount(plan) = 1
    BY <2>2, OneList
  <2>4. Len(plan) = 1 /\ plan[1] = <<0>> /\ DOMAIN plan = 1 .. 1
    OBVIOUS
  <2> HIDE DEF plan
  <2>5. PlanFits(plan, <<1, 0>>)
    <3> DEFINE list == <<0>>
    <3>1. /\ list \in Seq(0 .. 0) /\ Len(list) = 1 /\ list[1] = 0
          /\ plan[1] = list
      BY <2>2, <2>4
    <3> HIDE DEF list
    <3>2. \A channel \in 0 .. 0 : \E at \in 1 .. Len(list) : list[at] = channel
      <4>1. 1 \in 1 .. Len(list)
        BY <3>1
      <4>2. \A channel \in 0 .. 0 : channel = 0
        OBVIOUS
      <4> QED  BY <3>1, <4>1, <4>2
    <3> QED  BY <2>3, <2>4, <3>1, <3>2 DEF PlanFits
  <2> QED  BY <2>1, <2>5
<1>3. CASE layout \in {1, 9}
  <2> DEFINE plan == <<<<0, 1>>>>
  <2>1. LayoutPlans[layout] = plan /\ SingleLayerSubstreamCounts[layout] = <<1, 1>>
    BY <1>3 DEF LayoutPlans, SingleLayerSubstreamCounts
  <2>2. /\ <<0, 1>> \in Seq(0 .. 1) /\ Len(<<0, 1>>) = 2
        /\ <<0, 1>>[1] = 0 /\ <<0, 1>>[2] = 1
    OBVIOUS
  <2>3. ChannelCount(plan) = 2
    BY <2>2, OneList
  <2>4. Len(plan) = 1 /\ plan[1] = <<0, 1>> /\ DOMAIN plan = 1 .. 1
    OBVIOUS
  <2> HIDE DEF plan
  <2>5. PlanFits(plan, <<1, 1>>)
    <3> DEFINE list == <<0, 1>>
    <3>1. /\ list \in Seq(0 .. 1) /\ Len(list) = 2 /\ list[1] = 0 /\ list[2] = 1
          /\ plan[1] = list
      BY <2>2, <2>4
    <3> HIDE DEF list
    <3>2. \A channel \in 0 .. 1 : \E at \in 1 .. Len(list) : list[at] = channel
      <4>1. 1 \in 1 .. Len(list) /\ 2 \in 1 .. Len(list)
        BY <3>1
      <4>2. \A channel \in 0 .. 1 : channel = 0 \/ channel = 1
        OBVIOUS
      <4> QED  BY <3>1, <4>1, <4>2
    <3> QED  BY <2>3, <2>4, <3>1, <3>2 DEF PlanFits
  <2> QED  BY <2>1, <2>5
<1>4. CASE layout = 2
  <2> DEFINE p == <<0, 1>>
             q == <<4, 5>>
             r == <<2>>
             s == <<3>>
             plan == <<p, q, r, s>>
  <2>1. LayoutPlans[layout] = plan /\ SingleLayerSubstreamCounts[layout] = <<4, 2>>
    BY <1>4 DEF LayoutPlans, SingleLayerSubstreamCounts
  <2>2. /\ p \in Seq(0 .. 5) /\ Len(p) = 2 /\ p[1] = 0 /\ p[2] = 1
        /\ q \in Seq(0 .. 5) /\ Len(q) = 2 /\ q[1] = 4 /\ q[2] = 5
        /\ r \in Seq(0 .. 5) /\ Len(r) = 1 /\ r[1] = 2
        /\ s \in Seq(0 .. 5) /\ Len(s) = 1 /\ s[1] = 3
    OBVIOUS
  <2>3. ChannelCount(plan) = Len(p) + Len(q) + Len(r) + Len(s)
    <3> DEFINE S == 0 .. 5
    <3>1. p \in Seq(S) /\ q \in Seq(S) /\ r \in Seq(S) /\ s \in Seq(S)
      BY <2>2
    <3> HIDE DEF p, q, r, s, S
    <3>2. /\ plan \in Seq(Seq(S)) /\ Len(plan) = 4
          /\ plan[1] = p /\ plan[2] = q /\ plan[3] = r /\ plan[4] = s
      BY <3>1
    <3> HIDE DEF plan
    <3>3. ChannelCount(plan) = Len(plan[1]) + Len(plan[2]) + Len(plan[3]) + Len(plan[4])
      BY <3>2, FourLists
    <3> QED  BY <3>2, <3>3
  <2>4. /\ Len(plan) = 4 /\ DOMAIN plan = 1 .. 4
        /\ plan[1] = p /\ plan[2] = q /\ plan[3] = r /\ plan[4] = s
    OBVIOUS
  <2> HIDE DEF plan, p, q, r, s
  <2>5. ChannelCount(plan) = 6
    BY <2>2, <2>3
  <2>6. \A i \in 1 .. 4 : i = 1 \/ i = 2 \/ i = 3 \/ i = 4
    OBVIOUS
  <2>7. /\ plan[1] \in Seq(0 .. 5) /\ Len(plan[1]) = 2
        /\ plan[2] \in Seq(0 .. 5) /\ Len(plan[2]) = 2
        /\ plan[3] \in Seq(0 .. 5) /\ Len(plan[3]) = 1
        /\ plan[4] \in Seq(0 .. 5) /\ Len(plan[4]) = 1
    BY <2>2, <2>4
  <2>11. \A i \in 1 .. 4 : plan[i] \in Seq(0 .. 5) /\ Len(plan[i]) = IF i <= 2 THEN 2 ELSE 1
    <3> DEFINE l(i) == Len(plan[i])
    <3>1. l(1) = 2 /\ l(2) = 2 /\ l(3) = 1 /\ l(4) = 1
      BY <2>7
    <3> HIDE DEF l
    <3>2. \A i \in 1 .. 4 : l(i) = IF i <= 2 THEN 2 ELSE 1
      BY <2>6, <3>1
    <3>3. \A i \in 1 .. 4 : plan[i] \in Seq(0 .. 5)
      BY <2>6, <2>7, Zenon
    <3> QED  BY <3>2, <3>3 DEF l
  <2>8. \A channel \in 0 .. 5 :
          \E i \in 1 .. 4 : \E at \in 1 .. Len(plan[i]) : plan[i][at] = channel
    <3>1. \A i \in 1 .. 4 : 1 \in 1 .. Len(plan[i])
      BY <2>2, <2>4, <2>6
    <3>2. 2 \in 1 .. Len(plan[1]) /\ 2 \in 1 .. Len(plan[2])
      <4> DEFINE m == Len(plan[1])
                 n == Len(plan[2])
      <4>1. m = 2 /\ n = 2
        BY <2>7
      <4> HIDE DEF m, n
      <4>2. 2 \in 1 .. m /\ 2 \in 1 .. n
        BY <4>1
      <4> QED  BY <4>2 DEF m, n
    <3>3. 1 \in 1 .. 4 /\ 2 \in 1 .. 4 /\ 3 \in 1 .. 4 /\ 4 \in 1 .. 4
      OBVIOUS
    <3>4. /\ plan[1][1] = 0 /\ plan[1][2] = 1 /\ plan[2][1] = 4 /\ plan[2][2] = 5
          /\ plan[3][1] = 2 /\ plan[4][1] = 3
      BY <2>2, <2>4
    <3>5. \A channel \in 0 .. 5 :
            \/ channel = 0 \/ channel = 1 \/ channel = 2
            \/ channel = 3 \/ channel = 4 \/ channel = 5
      OBVIOUS
    <3> QED  BY <3>1, <3>2, <3>3, <3>4, <3>5
  <2>9. <<4, 2>>[1] = 4 /\ <<4, 2>>[2] = 2
    OBVIOUS
  <2>10. PlanFits(plan, <<4, 2>>)
    <3> DEFINE counts == <<4, 2>>
    <3>1. counts[1] = 4 /\ counts[2] = 2
      BY <2>9
    <3> HIDE DEF counts
    <3>2. PlanFits(plan, counts)
      BY <2>4, <2>5, <2>8, <2>11, <3>1 DEF PlanFits
    <3> QED  BY <3>2 DEF counts
  <2> QED  BY <2>1, <2>10 DEF plan, p, q, r, s
<1> QED  BY <1>1, <1>2, <1>3, <1>4

----------------------------------------------------------------------------
(* Samples: a unit is played                                               *)

\* A place in rows of size members is in one of the rows.
LEMMA RowOfPlace ==
  ASSUME NEW size \in Nat \ {0}, NEW rows \in Nat, NEW p \in 1 .. rows * size
  PROVE  \E k \in 1 .. rows, j \in 1 .. size : p = (k - 1) * size + j
<1> DEFINE quotient  == (p - 1) \div size
           remainder == (p - 1) % size
<1>1. p - 1 \in Nat
  OBVIOUS
<1>2. /\ quotient \in Nat /\ remainder \in 0 .. size - 1
      /\ p - 1 = quotient * size + remainder
  BY <1>1, Division
<1> HIDE DEF quotient, remainder
<1>3. ~ (quotient >= rows)
  <2> SUFFICES ASSUME quotient >= rows PROVE FALSE
    OBVIOUS
  <2>1. quotient - rows \in Nat /\ quotient = rows + (quotient - rows)
    BY <1>2
  <2> DEFINE more == quotient - rows
  <2> HIDE DEF more
  <2>2. more \in Nat /\ quotient = rows + more
    BY <2>1 DEF more
  <2>3. quotient * size = rows * size + more * size
    BY <2>2
  <2>4. more * size \in Nat /\ rows * size \in Nat
    BY <2>2
  <2> DEFINE a == rows * size
             b == more * size
             q == quotient * size
  <2>5. a \in Nat /\ b \in Nat /\ q = a + b /\ p - 1 = q + remainder /\ p \in 1 .. a
    BY <1>2, <2>3, <2>4
  <2> HIDE DEF a, b, q
  <2> QED  BY <1>2, <2>5
<1>4. quotient + 1 \in 1 .. rows /\ remainder + 1 \in 1 .. size /\ (quotient + 1) - 1 = quotient
  BY <1>2, <1>3
<1>5. p = ((quotient + 1) - 1) * size + (remainder + 1)
  <2> DEFINE a == quotient * size
  <2>1. a \in Nat /\ p - 1 = a + remainder
    BY <1>2
  <2> HIDE DEF a
  <2>2. p = a + (remainder + 1)
    BY <1>2, <2>1
  <2> QED  BY <1>4, <2>2 DEF a
<1> QED  BY <1>4, <1>5

\* s is the first n members of whole.
Opens(s, whole, n) ==
  Len(s) = n /\ s \in Seq(Byte) /\ \A p \in 1 .. n : s[p] = whole[p]

\* Pieces of one size that follow each other in a whole make up its beginning.
InTurn(lists, whole, size) ==
  \A k \in 1 .. Len(lists) :
    Len(lists[k]) = size /\ \A j \in 1 .. size : lists[k][j] = whole[(k - 1) * size + j]

LEMMA PiecesOpen ==
  ASSUME NEW whole, NEW size \in Nat \ {0}, NEW lists \in Seq(Seq(Byte)), InTurn(lists, whole, size)
  PROVE  Opens(FlattenSeq(lists), whole, Len(lists) * size)
<1> DEFINE s == FlattenSeq(lists)
           n == Len(lists)
<1>1. EvenlyPlaced(Byte, size, lists)
  <2>1. \A k \in 1 .. Len(lists) : Len(lists[k]) = size
    BY DEF InTurn
  <2> QED  BY <2>1, FlattenEven
<1>2. /\ s \in Seq(Byte) /\ Len(s) = n * size /\ n \in Nat
      /\ \A k \in 1 .. n : \A j \in 1 .. size : s[(k - 1) * size + j] = lists[k][j]
  BY <1>1 DEF EvenlyPlaced
<1>3. \A k \in 1 .. n : \A j \in 1 .. size : lists[k][j] = whole[(k - 1) * size + j]
  BY DEF InTurn
<1> HIDE DEF s, n
<1>4. ASSUME NEW p \in 1 .. n * size PROVE s[p] = whole[p]
  <2>1. PICK k \in 1 .. n, j \in 1 .. size : p = (k - 1) * size + j
    BY <1>2, RowOfPlace
  <2> QED  BY <1>2, <1>3, <2>1
<1> QED  BY <1>2, <1>4 DEF s, n, Opens

\* A chunk of per samples holds as many.
LEMMA SamplesOfChunk ==
  ASSUME NEW per \in Nat, NEW channels \in Nat \ {0}, NEW bytes \in Nat \ {0}
  PROVE  (per * channels * bytes) \div (channels * bytes) = per
<1> DEFINE d == channels * bytes
           t == per * channels * bytes
<1>1. d \in Nat \ {0} /\ t = per * d /\ t \in Nat
  OBVIOUS
<1> HIDE DEF d, t
<1> DEFINE q == t \div d
           r == t % d
<1>2. q \in Nat /\ r \in 0 .. d - 1 /\ t = q * d + r
  BY <1>1, Division
<1> HIDE DEF q, r
<1>3. ASSUME q < per PROVE FALSE
  <2> DEFINE more == per - q - 1
  <2>1. more \in Nat /\ per = q + 1 + more
    BY <1>2, <1>3
  <2> HIDE DEF more
  <2>2. per * d = q * d + d + more * d /\ more * d \in Nat /\ q * d \in Nat
    BY <1>1, <1>2, <2>1
  <2> DEFINE a == q * d
             b == more * d
             c == per * d
  <2>3. c = a + d + b /\ b \in Nat /\ a \in Nat /\ c = a + r
    BY <1>1, <1>2, <2>2
  <2> HIDE DEF a, b, c
  <2> QED  BY <1>1, <1>2, <2>3
<1>4. ASSUME q > per PROVE FALSE
  <2> DEFINE more == q - per - 1
  <2>1. more \in Nat /\ q = per + 1 + more
    BY <1>2, <1>4
  <2> HIDE DEF more
  <2>2. q * d = per * d + d + more * d /\ more * d \in Nat /\ per * d \in Nat
    BY <1>1, <1>2, <2>1
  <2> DEFINE a == q * d
             b == more * d
             c == per * d
  <2>3. a = c + d + b /\ b \in Nat /\ c \in Nat /\ c = a + r
    BY <1>1, <1>2, <2>2
  <2> HIDE DEF a, b, c
  <2> QED  BY <1>1, <1>2, <2>3
<1>5. q = per
  BY <1>2, <1>3, <1>4
<1> QED  BY <1>5 DEF q, t, d

\* What an application has to write fits the layout it is written in.
PcmFits(pcm, substreams) ==
  /\ PlanFits(substreams, SingleLayerSubstreamCounts[pcm.layout])
  /\ pcm.channels = ChannelCount(substreams)
  /\ pcm.bytes_per_sample \in Nat \ {0} /\ pcm.num_samples_per_frame \in Nat

\* The frames of a unit are what packing made of a chunk.
PackedUnit(pcm, substreams, unit, chunk) ==
  \A i \in 1 .. Len(substreams) :
    unit[i].payload.payload = PackOne(substreams[i], chunk, pcm.channels, pcm.bytes_per_sample)

\* The samples of its end are trimmed, if any.
CutBy(unit, cut) ==
  LET trim == unit[1].header.type_specific.trim
  IN  (trim = None /\ cut = 0) \/ (trim # None /\ trim[1][1] = cut /\ trim[1][2] = 0)

\* A decoder plays the samples of a unit that are not trimmed, as they were in
\* the chunk that was packed.
LEMMA UnitIsPlayed ==
  ASSUME NEW pcm, NEW substreams, PcmFits(pcm, substreams), NEW chunk \in Seq(Byte),
         Len(chunk) = pcm.num_samples_per_frame * pcm.channels * pcm.bytes_per_sample,
         NEW unit, PackedUnit(pcm, substreams, unit, chunk),
         NEW cut \in 0 .. pcm.num_samples_per_frame, CutBy(unit, cut)
  PROVE  Opens(PlayedUnit(pcm, substreams, unit), chunk,
               (pcm.num_samples_per_frame - cut) * pcm.channels * pcm.bytes_per_sample)
<1> DEFINE per  == pcm.num_samples_per_frame
           c    == pcm.channels
           size == pcm.bytes_per_sample
           n    == Len(substreams)
           trim == unit[1].header.type_specific.trim
           last  == per - (IF trim = None THEN 0 ELSE trim[1][1])
           first == IF trim = None THEN 0 ELSE trim[1][2]
           counts == SingleLayerSubstreamCounts[pcm.layout]
           Width(i) == IF i <= counts[2] THEN 2 ELSE 1
           Carrier(channel) == CHOOSE i \in DOMAIN substreams : channel \in Range(substreams[i])
           Place(channel) == CHOOSE at \in DOMAIN substreams[Carrier(channel)] :
                               substreams[Carrier(channel)][at] = channel
           Played(sample, channel) ==
             SampleBytes(unit[Carrier(channel)].payload.payload, Width(Carrier(channel)), size,
                         sample, Place(channel) - 1)
           lists == [k \in 1 .. (last - first) * c |->
                       Played(first + (k - 1) \div c, (k - 1) % c)]
           rows == per - cut
<1>1. PlayedUnit(pcm, substreams, unit) = FlattenSeq(lists)
  BY DEF PlayedUnit
<1>2. first = 0 /\ last = rows
  BY DEF CutBy
<1>3. /\ per \in Nat /\ c \in Nat \ {0} /\ size \in Nat \ {0} /\ rows \in Nat /\ rows <= per
      /\ c = ChannelCount(substreams) /\ PlanFits(substreams, counts)
  <2>1. /\ per \in Nat /\ size \in Nat \ {0}
        /\ c = ChannelCount(substreams) /\ PlanFits(substreams, counts)
    BY DEF PcmFits
  <2>2. c \in Nat \ {0}
    BY <2>1 DEF PlanFits
  <2>3. rows \in Nat /\ rows <= per
    BY <2>1
  <2> QED  BY <2>1, <2>2, <2>3
<1>4. /\ n \in 1 .. 4 /\ DOMAIN substreams = 1 .. n
      /\ \A i \in 1 .. n : substreams[i] \in Seq(0 .. c - 1) /\ Len(substreams[i]) = Width(i)
      /\ \A channel \in 0 .. c - 1 : \E i \in 1 .. n : \E at \in 1 .. Len(substreams[i]) :
           substreams[i][at] = channel
  BY <1>3 DEF PlanFits
<1>5. ASSUME NEW channel \in 0 .. c - 1
      PROVE  /\ Carrier(channel) \in 1 .. n
             /\ Place(channel) \in 1 .. Width(Carrier(channel))
             /\ substreams[Carrier(channel)][Place(channel)] = channel
  <2>1. PICK i \in 1 .. n : \E at \in 1 .. Len(substreams[i]) : substreams[i][at] = channel
    BY <1>4
  <2>2. \A j \in 1 .. n : DOMAIN substreams[j] = 1 .. Len(substreams[j])
    BY <1>4
  <2>3. channel \in Range(substreams[i])
    BY <2>1, <2>2 DEF Range
  <2>4. Carrier(channel) \in 1 .. n /\ channel \in Range(substreams[Carrier(channel)])
    BY <1>4, <2>3
  <2> HIDE DEF Carrier
  <2>5. \E at \in DOMAIN substreams[Carrier(channel)] :
          substreams[Carrier(channel)][at] = channel
    BY <2>4 DEF Range
  <2>6. /\ Place(channel) \in DOMAIN substreams[Carrier(channel)]
        /\ substreams[Carrier(channel)][Place(channel)] = channel
    BY <2>5
  <2>7. DOMAIN substreams[Carrier(channel)] = 1 .. Width(Carrier(channel))
    BY <1>4, <2>2, <2>4
  <2> QED  BY <2>4, <2>6, <2>7
<1>6. Len(chunk) = per * c * size /\ Len(chunk) \div (c * size) = per
  <2>1. Len(chunk) = per * c * size
    OBVIOUS
  <2> HIDE DEF per, c, size
  <2>2. (per * c * size) \div (c * size) = per
    BY <1>3, SamplesOfChunk
  <2> QED  BY <2>1, <2>2
<1>7. \A i \in 1 .. n : unit[i].payload.payload = PackOne(substreams[i], chunk, c, size)
  BY DEF PackedUnit
<1> HIDE DEF per, c, size, n, trim, last, first, counts, Carrier, Place, rows
<1>8. ASSUME NEW i \in 1 .. n
      PROVE  HoldsSamples(unit[i].payload.payload, substreams[i], chunk, c, size)
  <2>1. substreams[i] # <<>>
    <3>1. Width(i) = 1 \/ Width(i) = 2
      OBVIOUS
    <3> HIDE DEF Width
    <3>2. Len(substreams[i]) # 0
      BY <1>4, <3>1
    <3> QED  BY <3>2
  <2>2. substreams[i] \in Seq(0 .. c - 1)
    BY <1>4
  <2> HIDE DEF Width
  <2>3. HoldsSamples(PackOne(substreams[i], chunk, c, size), substreams[i], chunk, c, size)
    BY <1>3, <2>1, <2>2, PackingKeepsSamples
  <2> QED  BY <1>7, <2>3
<1>9. ASSUME NEW sample \in 0 .. per - 1, NEW channel \in 0 .. c - 1
      PROVE  Played(sample, channel) = SampleBytes(chunk, c, size, sample, channel)
  <2> DEFINE i == Carrier(channel)
             at == Place(channel)
             packed == unit[i].payload.payload
  <2>1. i \in 1 .. n /\ at \in 1 .. Width(i) /\ substreams[i][at] = channel
    BY <1>5
  <2>2. HoldsSamples(packed, substreams[i], chunk, c, size) /\ Len(substreams[i]) = Width(i)
    BY <1>4, <1>8, <2>1
  <2>3. Played(sample, channel) = SampleBytes(packed, Width(i), size, sample, at - 1)
    OBVIOUS
  <2> HIDE DEF i, at, packed, Played, Width
  <2>4. \A s \in 0 .. per - 1 : \A place \in 1 .. Len(substreams[i]) :
          SampleBytes(packed, Len(substreams[i]), size, s, place - 1)
            = SampleBytes(chunk, c, size, s, substreams[i][place])
    BY <1>6, <2>2, Zenon DEF HoldsSamples
  <2> QED  BY <2>1, <2>2, <2>3, <2>4
<1> HIDE DEF Played
<1> DEFINE List(k) == Played((k - 1) \div c, (k - 1) % c)
           count == rows * c
<1>10. count \in Nat /\ lists = [k \in 1 .. count |-> List(k)]
  <2>1. (last - first) * c = count
    BY <1>2, <1>3
  <2>2. ASSUME NEW k \in 1 .. count
        PROVE  Played(first + (k - 1) \div c, (k - 1) % c) = List(k)
    <3>1. (k - 1) \div c \in Nat
      <4>1. k - 1 \in Nat
        OBVIOUS
      <4> QED  BY <1>3, <4>1, Division
    <3> DEFINE q == (k - 1) \div c
    <3>2. first + q = q
      <4> HIDE DEF q
      <4>1. q \in Nat
        BY <3>1 DEF q
      <4> QED  BY <1>2, <4>1
    <3> QED  BY <3>2
  <2>3. count \in Nat
    BY <1>3
  <2> HIDE DEF count, List
  <2> QED  BY <2>1, <2>2, <2>3
<1>11. ASSUME NEW k \in 1 .. count
       PROVE  /\ List(k) \in Seq(Byte) /\ Len(List(k)) = size
              /\ \A j \in 1 .. size : List(k)[j] = chunk[(k - 1) * size + j]
  <2> DEFINE sample == (k - 1) \div c
             channel == (k - 1) % c
             start == sample * c * size + channel * size
  <2>1. sample \in Nat /\ channel \in 0 .. c - 1 /\ k - 1 = sample * c + channel
    <3>1. k - 1 \in Nat
      OBVIOUS
    <3> QED  BY <1>3, <3>1, Division
  <2>2. sample \in 0 .. per - 1
    <3>1. PICK r \in 1 .. rows, j \in 1 .. c : k = (r - 1) * c + j
      BY ZenonT(30), <1>3, RowOfPlace
    <3>2. (k - 1) \div c = r - 1
      <4>1. r - 1 \in 0 .. rows - 1 /\ k = (r - 1) * c + j
        BY <1>3, <3>1
      <4> DEFINE s == r - 1
      <4> HIDE DEF s
      <4>2. s \in 0 .. rows - 1 /\ k = s * c + j
        BY <4>1 DEF s
      <4>3. (k - 1) \div c = s
        BY ZenonT(30), <1>3, <4>2, PlaceOfSample
      <4> QED  BY <4>3 DEF s
    <3>3. r - 1 \in 0 .. per - 1
      BY <1>3, <3>1
    <3> QED  BY <3>2, <3>3
  <2>3. start = (k - 1) * size
    <3> HIDE DEF sample, channel
    <3>1. sample * c * size + channel * size = (sample * c + channel) * size
      BY <1>3, <2>1
    <3> QED  BY <2>1, <3>1
  <2>4. List(k) = SampleBytes(chunk, c, size, sample, channel)
    BY <1>9, <2>1, <2>2
  <2> HIDE DEF sample, channel, List
  <2>5. Inside(chunk, c, size, sample, channel)
    <3>1. per * c * size <= Len(chunk)
      <4> DEFINE t == per * c * size
      <4>1. t \in Nat /\ Len(chunk) = t
        BY <1>3, <1>6
      <4> HIDE DEF t
      <4>2. t <= Len(chunk)
        BY <4>1
      <4> QED  BY <4>2 DEF t
    <3> QED  BY <1>3, <2>1, <2>2, <3>1, SampleInside
  <2> QED  BY <2>3, <2>4, <2>5 DEF Inside
<1> HIDE DEF List
<1>12. /\ lists \in Seq(Seq(Byte)) /\ Len(lists) = count
       /\ \A k \in 1 .. count : lists[k] = List(k)
  <2>1. lists = [k \in 1 .. count |-> List(k)] /\ count \in Nat
    BY <1>10
  <2> HIDE DEF lists, count
  <2>2. \A k \in 1 .. count : List(k) \in Seq(Byte)
    BY <1>11
  <2> QED  BY <2>1, <2>2
<1> HIDE DEF lists, count
<1>13. InTurn(lists, chunk, size)
  BY <1>11, <1>12 DEF InTurn
<1>14. Opens(FlattenSeq(lists), chunk, count * size)
  BY <1>3, <1>12, <1>13, PiecesOpen
<1> QED  BY <1>1, <1>14 DEF count, rows, per, c, size

----------------------------------------------------------------------------
(* Samples: the units of a stream are played                               *)

\* Silence follows a stream.
Sounding(whole, at) == IF at > Len(whole) THEN 0 ELSE whole[at]

\* Pieces of one size that follow each other in a whole, of which the last is
\* short.
InFrames(lists, whole, size, short) ==
  \A f \in 1 .. Len(lists) :
    /\ Len(lists[f]) = IF f = Len(lists) THEN size - short ELSE size
    /\ \A j \in 1 .. Len(lists[f]) : lists[f][j] = Sounding(whole, (f - 1) * size + j)

LEMMA FramesJoin ==
  ASSUME NEW whole \in Seq(Byte), NEW size \in Nat \ {0}, NEW short \in 0 .. size - 1,
         NEW lists \in Seq(Seq(Byte)), InFrames(lists, whole, size, short),
         Len(whole) = Len(lists) * size - short
  PROVE  FlattenSeq(lists) = whole
<1> DEFINE s == FlattenSeq(lists)
           n == Len(lists)
           total == Len(whole)
           List(f) == lists[f]
           length(f) == Len(List(f))
<1>1. PICK b : Places(lists, b)
  BY FlattenPlaces
<1>2. n \in Nat /\ total \in Nat /\ total = n * size - short /\ s \in Seq(Byte)
  BY FlattenMembers
<1>3. /\ b[1] = 0 /\ b[n + 1] = Len(s)
      /\ \A f \in 1 .. n : /\ b[f + 1] = b[f] + length(f)
                           /\ \A j \in 1 .. length(f) : s[b[f] + j] = List(f)[j]
  BY <1>1 DEF Places
<1>4. /\ \A f \in 1 .. n : length(f) = IF f = n THEN size - short ELSE size
      /\ \A f \in 1 .. n : \A j \in 1 .. length(f) :
           List(f)[j] = Sounding(whole, (f - 1) * size + j)
  BY DEF InFrames
<1>5. \A p \in 1 .. total : Sounding(whole, p) = whole[p]
  BY <1>2 DEF Sounding
<1> HIDE DEF s, n, total, List, length
<1> DEFINE Reach == {m \in Nat : m < n => b[m + 1] = m * size}
<1>6. 0 \in Reach
  BY <1>3
<1>7. ASSUME NEW m \in Nat, m \in Reach PROVE m + 1 \in Reach
  <2> SUFFICES ASSUME m + 1 < n PROVE b[(m + 1) + 1] = (m + 1) * size
    OBVIOUS
  <2>1. m + 1 \in 1 .. n /\ m + 1 # n /\ m < n
    BY <1>2
  <2>2. b[(m + 1) + 1] = b[m + 1] + size
    BY <1>3, <1>4, <2>1
  <2>3. b[m + 1] = m * size
    BY <1>7, <2>1
  <2>4. (m + 1) * size = m * size + size
    OBVIOUS
  <2> QED  BY <2>2, <2>3, <2>4
<1>8. \A f \in 1 .. n : b[f] = (f - 1) * size
  <2> HIDE DEF Reach
  <2>1. Nat \subseteq Reach
    BY <1>6, <1>7, NaturalSteps
  <2> SUFFICES ASSUME NEW f \in 1 .. n PROVE b[f] = (f - 1) * size
    OBVIOUS
  <2> DEFINE m == f - 1
  <2>2. m \in Nat /\ m < n /\ f = m + 1
    BY <1>2
  <2>3. m \in Reach
    BY <2>1, <2>2
  <2> HIDE DEF m
  <2>4. b[m + 1] = m * size
    BY <2>2, <2>3 DEF Reach
  <2> QED  BY <2>2, <2>4 DEF m
<1> HIDE DEF Reach
<1>9. Len(s) = total
  <2>1. CASE n = 0
    <3>1. n * size = 0
      BY <2>1
    <3>2. total = 0
      <4> DEFINE a == n * size
      <4>1. a = 0 /\ total = a - short /\ short \in Nat
        BY <1>2, <3>1
      <4> HIDE DEF a
      <4> QED  BY <1>2, <4>1
    <3> QED  BY <1>3, <2>1, <3>2
  <2>2. CASE n # 0
    <3>1. n \in 1 .. n /\ (n - 1) * size + size = n * size
      BY <1>2, <2>2
    <3>2. b[n] = (n - 1) * size /\ b[n + 1] = b[n] + (size - short)
      BY <1>3, <1>4, <1>8, <3>1
    <3> DEFINE a == (n - 1) * size
               d == n * size
    <3>3. a + size = d /\ b[n] = a /\ total = d - short /\ a \in Nat
      BY <1>2, <2>2, <3>1, <3>2
    <3> HIDE DEF a, d
    <3> QED  BY <1>3, <3>2, <3>3
  <2> QED  BY <2>1, <2>2
<1>10. ASSUME NEW p \in 1 .. total PROVE s[p] = whole[p]
  <2>1. p \in 1 .. n * size
    <3> DEFINE d == n * size
    <3>1. d \in Nat /\ total = d - short /\ short \in Nat
      BY <1>2
    <3> HIDE DEF d
    <3>2. p \in 1 .. d
      BY <1>2, <3>1
    <3> QED  BY <3>2 DEF d
  <2>2. PICK f \in 1 .. n, j \in 1 .. size : p = (f - 1) * size + j
    BY <1>2, <2>1, RowOfPlace
  <2>3. j \in 1 .. length(f)
    <3>1. CASE f # n
      BY <1>4, <3>1
    <3>2. CASE f = n
      <4> DEFINE a == (n - 1) * size
                 d == n * size
      <4>1. a + size = d /\ a \in Nat
        BY <1>2, <3>2
      <4>2. p = a + j /\ total = d - short /\ length(f) = size - short
        BY <1>2, <1>4, <2>2, <3>2
      <4> HIDE DEF a, d
      <4>3. j <= size - short
        BY <4>1, <4>2
      <4> QED  BY <4>2, <4>3
    <3> QED  BY <3>1, <3>2
  <2>4. s[b[f] + j] = List(f)[j] /\ List(f)[j] = Sounding(whole, (f - 1) * size + j)
    BY <1>3, <1>4, <2>3
  <2>5. b[f] + j = p
    BY <1>8, <2>2
  <2> QED  BY <1>5, <2>2, <2>4, <2>5
<1>11. s \in Seq(Byte) /\ Len(s) = Len(whole) /\ \A p \in 1 .. Len(s) : s[p] = whole[p]
  BY <1>2, <1>9, <1>10 DEF total
<1>12. s = whole
  BY <1>11, SeqEqual
<1> QED  BY <1>12 DEF s

\* A planned frame reads back as it is: nothing of it is left to its type, and no
\* bytes follow its own.
LEMMA PlannedFrameReadsAs ==
  ASSUME NEW id \in 0 .. 3, NEW trim, NEW bytes, PlainFramed(<<>>, FrameObu(id, trim, bytes), 0)
  PROVE  ReadsBackAs(FrameObu(id, trim, bytes)) = FrameObu(id, trim, bytes)
<1> DEFINE obu    == FrameObu(id, trim, bytes)
           none   == <<>>
           header == [obu_type |-> Enum(DefinedTypes, ObuTypeFor(id)), redundant |-> FALSE,
                      type_specific |-> Trimming(trim), extension |-> None]
           frame  == [substream_id |-> id, payload |-> bytes]
<1>1. /\ obu.kind = "audio_frame" /\ obu.header = header /\ obu.trailing = none
      /\ obu.payload.substream_id = id /\ obu.payload.payload = bytes
      /\ obu = ObuWith("audio_frame", header, frame, none)
  BY DEF FrameObu, ObuWith
<1>2. AudioFrameTyped(obu)
  <2>1. Plain(<<>>, obu)
    BY DEF PlainFramed
  <2> HIDE DEF obu
  <2>2. obu.kind \notin Bare /\ obu.kind # "sequence_header"
    BY <1>1 DEF Bare
  <2> QED  BY <2>1, <2>2 DEF Plain, SequenceHeaderTyped
<1>3. bytes \in Seq(Byte)
  BY <1>1, <1>2 DEF AudioFrameTyped
<1>4. AsRead(header) = header
  <2> DEFINE type == Enum(DefinedTypes, ObuTypeFor(id))
             special == Trimming(trim)
             other == IF special.trim # None THEN special
                      ELSE IF header.obu_type.raw \in AudioFrameTypes THEN Trimming(None)
                      ELSE ReservedBit
  <2>1. header.obu_type.raw \in AudioFrameTypes
    BY DEF Enum, ObuTypeFor, MaxImplicitSubstreamId, AudioFrameTypes
  <2>2. special.trim = trim
    BY DEF Trimming
  <2>3. other = special
    BY <2>1, <2>2
  <2>4. header.type_specific = special
    OBVIOUS
  <2>5. AsRead(header) = [header EXCEPT !.type_specific = other]
    BY <2>4 DEF AsRead
  <2> DEFINE first == None
             same  == [obu_type |-> type, redundant |-> FALSE, type_specific |-> special,
                       extension |-> first]
  <2>6. header = same
    OBVIOUS
  <2> HIDE DEF special, type, first
  <2>7. PICK h : h = [same EXCEPT !.type_specific = special]
    OBVIOUS
  <2>8. h = same
    BY <2>7
  <2> HIDE DEF header, same
  <2> QED  BY <2>3, <2>5, <2>6, <2>7, <2>8
<1> HIDE DEF obu
<1>5. ReadsBackAs(obu)
        = ObuWith("audio_frame", AsRead(header), [substream_id |-> id, payload |-> bytes \o none], none)
  BY <1>1, <1>2, FrameReadsAs
<1>6. bytes \o none = bytes
  BY <1>3
<1>7. ReadsBackAs(obu) = ObuWith("audio_frame", header, frame, none)
  BY <1>4, <1>5, <1>6
<1> QED  BY <1>1, <1>7 DEF obu

\* An application has samples, whole ones, and its stream can be framed.
StreamTyped(pcm) ==
  /\ FramesOf(pcm).err = Ok
  /\ pcm.interleaved \in Seq(Byte)
  /\ pcm.channels \in Nat \ {0} /\ pcm.bytes_per_sample \in Nat \ {0}
  /\ pcm.num_samples_per_frame \in Nat
  /\ Len(pcm.interleaved) % (pcm.channels * pcm.bytes_per_sample) = 0

\* The frame of a substream in a unit, and the unit.
TrimOf(index, count, short) == When(index = count /\ short > 0, <<short, 0>>)
UnitOf(pcm, substreams, count, short, k) ==
  [i \in 1 .. Len(substreams) |->
     FrameObu(i - 1, TrimOf(k, count, short),
              PackOne(substreams[i], Chunk(pcm, k - 1), pcm.channels, pcm.bytes_per_sample))]

\* A stream is framed in count units, of which the last is short.
FramedIn(pcm, substreams, count, short) ==
  /\ substreams = ForLayout(pcm.layout).substreams
  /\ PlanFits(substreams, SingleLayerSubstreamCounts[pcm.layout])
  /\ pcm.num_samples_per_frame \in Nat \ {0}
  /\ count \in Nat /\ short \in 0 .. pcm.num_samples_per_frame - 1
  /\ Len(pcm.interleaved)
       = (count * pcm.num_samples_per_frame - short) * (pcm.channels * pcm.bytes_per_sample)
  /\ count > 0 => PcmFits(pcm, substreams)
  /\ FramesOf(pcm).obus
       = FlattenSeq([k \in 1 .. count |-> UnitOf(pcm, substreams, count, short, k)])

LEMMA StreamIsFramed ==
  ASSUME NEW pcm, StreamTyped(pcm)
  PROVE  \E substreams, count, short : FramedIn(pcm, substreams, count, short)
<1> DEFINE layout     == ForLayout(pcm.layout)
           substreams == layout.substreams
           c          == pcm.channels
           size       == pcm.bytes_per_sample
           per        == pcm.num_samples_per_frame
           all        == Len(pcm.interleaved)
           total      == all \div (c * size)
           plan       == PlanFrames(total, per)
           count      == plan.frame_count
           short      == plan.trim_at_end
           Packed(index) == PackChannels(substreams, Chunk(pcm, index), c, size)
           Planned(k) == UnitObus(TrimmingFor(plan, k - 1), Packed(k - 1).packed)
<1>1. /\ c \in Nat \ {0} /\ size \in Nat \ {0} /\ per \in Nat /\ all \in Nat
      /\ all % (c * size) = 0 /\ c * size \in Nat \ {0}
  BY DEF StreamTyped
<1>2. layout.err = Ok
  BY DEF StreamTyped, FramesOf
<1>3. pcm.layout \in DOMAIN LayoutPlans /\ substreams = LayoutPlans[pcm.layout]
  <2>1. Fails("UnsupportedLayout").err # Ok
    BY DEF Fails, Ok
  <2>2. pcm.layout \in DOMAIN LayoutPlans
    BY <1>2, <2>1 DEF ForLayout
  <2> QED  BY <2>2 DEF ForLayout
<1>4. PlanFits(substreams, SingleLayerSubstreamCounts[pcm.layout])
  BY <1>3, PlanOfLayout
<1>5. FramesOf(pcm) = PlannedObus(pcm, substreams, plan)
  BY <1>2 DEF FramesOf
<1>6. plan.err = Ok
  BY <1>5 DEF StreamTyped, PlannedObus
<1>7. per # 0
  <2>1. Fails("ZeroSamplesPerFrame").err # Ok
    BY DEF Fails, Ok
  <2> QED  BY <1>6, <2>1 DEF PlanFrames
<1>8. total \in Nat /\ all = total * (c * size)
  <2> DEFINE d == c * size
             q == all \div d
  <2>1. d \in Nat \ {0} /\ all % d = 0
    BY <1>1
  <2> HIDE DEF d
  <2> DEFINE r == all % d
             a == all
  <2>2. q \in Nat /\ a = q * d + r /\ r = 0
    BY <1>1, <2>1, Division
  <2> HIDE DEF q, r, a
  <2>3. q * d \in Nat
    BY <2>1, <2>2
  <2>4. a = q * d
    BY <2>2, <2>3
  <2> QED  BY <2>2, <2>4 DEF q, d, a
<1>9. count \in Nat /\ short \in 0 .. per - 1 /\ count * per - short = total
  <2> HIDE DEF total
  <2> QED  BY <1>1, <1>6, <1>7, <1>8, PlanHoldsTheStream
<1>10. /\ count > 0 => Packed(0).err = Ok
       /\ FramesOf(pcm).obus = FlattenSeq([k \in 1 .. count |-> Planned(k)])
  <2>1. ~ (count > 0 /\ Packed(0).err # Ok)
    BY <1>5, <1>6 DEF StreamTyped, PlannedObus
  <2>2. FramesOf(pcm) = [err |-> Ok, obus |-> FlattenSeq([k \in 1 .. count |-> Planned(k)])]
    BY <1>5, <1>6, <2>1 DEF PlannedObus
  <2> QED  BY <2>1, <2>2
<1>11. DOMAIN substreams = 1 .. Len(substreams) /\ Len(substreams) \in 1 .. 4
  BY <1>4 DEF PlanFits
<1>12. ASSUME NEW k \in 1 .. count
       PROVE  PcmFits(pcm, substreams) /\ Planned(k) = UnitOf(pcm, substreams, count, short, k)
  <2>1. /\ c = ChannelCount(substreams) /\ Len(Chunk(pcm, 0)) % (c * size) = 0
    <3>1. Packed(0).err = Ok
      BY <1>9, <1>10
    <3>2. Fails("ChannelCountMismatch").err # Ok
      BY DEF Fails, Ok
    <3> QED  BY <3>1, <3>2 DEF PackChannels
  <2>2. ASSUME NEW index \in Nat PROVE Len(Chunk(pcm, index)) = FrameBytes(pcm)
    <3>1. FrameBytes(pcm) \in Nat
      BY <1>1 DEF FrameBytes
    <3> QED  BY <3>1 DEF Chunk
  <2>3. k - 1 \in Nat /\ 0 \in Nat /\ (k - 1) + 1 = k
    BY <1>9
  <2>4. Len(Chunk(pcm, k - 1)) % (c * size) = 0
    BY <2>1, <2>2, <2>3
  <2>5. Packed(k - 1).packed
          = [i \in DOMAIN substreams |-> PackOne(substreams[i], Chunk(pcm, k - 1), c, size)]
    BY <1>1, <2>1, <2>4 DEF PackChannels
  <2> DEFINE packed == [i \in DOMAIN substreams |-> PackOne(substreams[i], Chunk(pcm, k - 1), c, size)]
  <2>6. TrimmingFor(plan, k - 1) = TrimOf(k, count, short)
    BY <2>3 DEF TrimmingFor, TrimOf
  <2>7. UnitObus(TrimOf(k, count, short), packed) = UnitOf(pcm, substreams, count, short, k)
    BY <1>11 DEF UnitObus, UnitOf
  <2>8. PcmFits(pcm, substreams)
    BY <1>1, <1>4, <2>1 DEF PcmFits
  <2> QED  BY <2>5, <2>6, <2>7, <2>8
<1>13. all = (count * per - short) * (c * size)
  BY <1>8, <1>9
<1>14. FramesOf(pcm).obus
         = FlattenSeq([k \in 1 .. count |-> UnitOf(pcm, substreams, count, short, k)])
  <2> HIDE DEF Planned, count, short, substreams
  <2> QED  BY <1>10, <1>12
<1>15. count > 0 => PcmFits(pcm, substreams)
  <2>1. count > 0 => 1 \in 1 .. count
    BY <1>9
  <2> QED  BY <1>12, <2>1
<1> HIDE DEF count, short, plan, total
<1>16. FramedIn(pcm, substreams, count, short)
  BY <1>1, <1>4, <1>7, <1>9, <1>13, <1>14, <1>15 DEF FramedIn
<1> QED  BY <1>16

\* A decoder that is given these OBUs plays the samples.
PlaysBack(pcm, obus) ==
  LET substreams == ForLayout(pcm.layout).substreams
      Of(i)   == OfSubstream(obus, i - 1)
      Unit(f) == [i \in DOMAIN substreams |-> Of(i)[f]]
  IN  /\ Len(substreams) = SingleLayerSubstreamCounts[pcm.layout][1]
      /\ FlattenSeq([f \in DOMAIN Of(1) |-> PlayedUnit(pcm, substreams, Unit(f))])
           = pcm.interleaved

LEMMA FramesPlayBack ==
  ASSUME NEW pcm, StreamTyped(pcm)
  PROVE  PlaysBack(pcm, FramesOf(pcm).obus)
<1> DEFINE substreams == ForLayout(pcm.layout).substreams
           obus    == FramesOf(pcm).obus
           Of(i)   == OfSubstream(obus, i - 1)
           Unit(f) == [i \in DOMAIN substreams |-> Of(i)[f]]
           n       == Len(substreams)
           c       == pcm.channels
           bytes   == pcm.bytes_per_sample
           per     == pcm.num_samples_per_frame
           whole   == pcm.interleaved
           size    == FrameBytes(pcm)
<1>1. PICK count, short : FramedIn(pcm, substreams, count, short)
  <2>1. PICK s, count, short : FramedIn(pcm, s, count, short)
    BY StreamIsFramed
  <2>2. s = substreams
    BY <2>1 DEF FramedIn
  <2> QED  BY <2>1, <2>2
<1> DEFINE Planned(k) == UnitOf(pcm, substreams, count, short, k)
           units      == [k \in 1 .. count |-> Planned(k)]
           cut(f)     == IF f = count THEN short ELSE 0
           lost       == short * (c * bytes)
           lists      == [f \in 1 .. count |-> PlayedUnit(pcm, substreams, Unit(f))]
<1>2. /\ n \in 1 .. 4 /\ DOMAIN substreams = 1 .. n
      /\ n = SingleLayerSubstreamCounts[pcm.layout][1]
  BY <1>1 DEF FramedIn, PlanFits
<1>3. /\ c \in Nat \ {0} /\ bytes \in Nat \ {0} /\ per \in Nat \ {0} /\ whole \in Seq(Byte)
      /\ count \in Nat /\ short \in 0 .. per - 1
      /\ Len(whole) = (count * per - short) * (c * bytes)
      /\ count > 0 => PcmFits(pcm, substreams)
      /\ obus = FlattenSeq(units)
  BY <1>1 DEF FramedIn, StreamTyped
<1>4. /\ size = per * c * bytes /\ size = per * (c * bytes) /\ size \in Nat \ {0}
      /\ lost \in 0 .. size - 1
      /\ Len(whole) = count * size - lost
  <2> DEFINE d == c * bytes
  <2>1. d \in Nat \ {0} /\ size = per * d /\ size = per * c * bytes
    <3>1. size = per * c * bytes
      BY DEF FrameBytes
    <3> HIDE DEF size, c, bytes, per
    <3>2. c * bytes \in Nat \ {0} /\ per * c * bytes = per * (c * bytes)
      BY <1>3
    <3> QED  BY <3>1, <3>2
  <2> HIDE DEF size, d, c, bytes, per
  <2>2. size \in Nat \ {0}
    BY <1>3, <2>1
  <2>3. short * d \in 0 .. size - 1
    <3> DEFINE more == per - short - 1
    <3>1. more \in Nat /\ per = short + 1 + more /\ short \in Nat
      BY <1>3
    <3> HIDE DEF more
    <3>2. per * d = short * d + d + more * d /\ more * d \in Nat /\ short * d \in Nat
      BY <2>1, <3>1
    <3> DEFINE x == short * d
               y == more * d
    <3>3. size = x + d + y /\ x \in Nat /\ y \in Nat
      BY <2>1, <3>2
    <3> HIDE DEF x, y
    <3>4. x \in 0 .. size - 1
      BY <2>1, <3>3
    <3> QED  BY <3>4 DEF x
  <2>4. (count * per - short) * d = count * (per * d) - short * d
    BY <1>3, <2>1
  <2>5. Len(whole) = (count * per - short) * d
    BY <1>3 DEF d
  <2>6. lost = short * d
    BY DEF d
  <2>7. size = per * (c * bytes)
    BY <2>1 DEF d
  <2> HIDE DEF lost, whole
  <2> QED  BY <2>1, <2>2, <2>3, <2>4, <2>5, <2>6, <2>7
<1>5. \A index : Chunk(pcm, index) = [i \in 1 .. size |-> Sounding(whole, index * size + i)]
  BY DEF Chunk, Sounding
<1>6. ASSUME NEW k \in 1 .. count, NEW i \in 1 .. n
      PROVE  /\ Planned(k)[i].payload.substream_id = i - 1
             /\ Planned(k)[i].payload.payload
                  = PackOne(substreams[i], Chunk(pcm, k - 1), c, bytes)
             /\ Planned(k)[i].header.type_specific.trim = TrimOf(k, count, short)
  <2> DEFINE packed == PackOne(substreams[i], Chunk(pcm, k - 1), c, bytes)
             trim   == TrimOf(k, count, short)
  <2>1. Planned(k)[i] = FrameObu(i - 1, trim, packed)
    BY DEF UnitOf
  <2> HIDE DEF packed, trim
  <2>2. /\ FrameObu(i - 1, trim, packed).payload.substream_id = i - 1
        /\ FrameObu(i - 1, trim, packed).payload.payload = packed
        /\ FrameObu(i - 1, trim, packed).header.type_specific.trim = trim
    BY DEF FrameObu, Trimming
  <2> QED  BY <2>1, <2>2 DEF packed, trim
<1>7. \A k : DOMAIN Planned(k) = 1 .. n
  BY DEF UnitOf
<1> HIDE DEF substreams, obus, n, c, bytes, per, whole, size, lost, Planned
<1> DEFINE S == {Planned(k)[i] : k \in 1 .. count, i \in 1 .. n}
<1>8. /\ units \in Seq(Seq(S)) /\ Len(units) = count
      /\ InUnits(n, units)
      /\ \A k \in 1 .. count : units[k] = Planned(k)
  <2>1. ASSUME NEW k \in 1 .. count PROVE Planned(k) \in Seq(S) /\ Len(Planned(k)) = n
    <3>1. \A i \in 1 .. n : Planned(k)[i] \in S
      OBVIOUS
    <3> HIDE DEF S
    <3>2. Planned(k) = [i \in 1 .. n |-> Planned(k)[i]]
      BY <1>7 DEF Planned, UnitOf, n
    <3>3. [i \in 1 .. n |-> Planned(k)[i]] \in Seq(S) /\ Len([i \in 1 .. n |-> Planned(k)[i]]) = n
      BY <1>2, <3>1
    <3> QED  BY <3>2, <3>3
  <2> HIDE DEF S
  <2>2. /\ units \in Seq(Seq(S)) /\ Len(units) = count
        /\ \A k \in 1 .. count : units[k] = Planned(k)
    BY <1>3, <2>1
  <2> HIDE DEF units
  <2>3. InUnits(n, units)
    BY <1>6, <2>1, <2>2 DEF InUnits
  <2> QED  BY <2>2, <2>3
<1> HIDE DEF S, units
<1>9. ASSUME NEW i \in 1 .. n PROVE Of(i) = [k \in 1 .. count |-> Planned(k)[i]]
  <2>1. IsColumn(OfSubstream(FlattenSeq(units), i - 1), units, i)
    <3>1. n \in Nat \ {0}
      BY <1>2
    <3> QED  BY <1>8, <3>1, Demuxed
  <2>2. Of(i) = [k \in 1 .. Len(units) |-> units[k][i]]
    BY <1>3, <2>1 DEF IsColumn
  <2> QED  BY <1>8, <2>2
<1>10. 1 \in 1 .. n /\ DOMAIN Of(1) = 1 .. count
  <2>1. 1 \in 1 .. n
    BY <1>2
  <2>2. Of(1) = [k \in 1 .. count |-> Planned(k)[1]]
    BY <1>9, <2>1
  <2> HIDE DEF Of
  <2> QED  BY <2>1, <2>2
<1>11. ASSUME NEW f \in 1 .. count, NEW i \in 1 .. n PROVE Unit(f)[i] = Planned(f)[i]
  BY <1>2, <1>9
<1>12. ASSUME NEW f \in 1 .. count
       PROVE  Opens(PlayedUnit(pcm, substreams, Unit(f)), Chunk(pcm, f - 1),
                    (per - cut(f)) * c * bytes)
  <2> DEFINE unit == Unit(f)
             chunk == Chunk(pcm, f - 1)
             short2 == cut(f)
  <2>1. PcmFits(pcm, substreams)
    BY <1>3
  <2>2. chunk \in Seq(Byte) /\ Len(chunk) = per * c * bytes
    <3> DEFINE at(i) == Sounding(whole, (f - 1) * size + i)
    <3>1. chunk = [i \in 1 .. size |-> at(i)]
      BY <1>5
    <3>2. ASSUME NEW i \in 1 .. size PROVE at(i) \in Byte
      <4> DEFINE p == (f - 1) * size + i
      <4>1. p \in Nat \ {0}
        <5>1. f - 1 \in Nat
          BY <1>3
        <5> DEFINE a == (f - 1) * size
        <5>2. a \in Nat
          BY <1>4, <5>1
        <5> HIDE DEF a
        <5>3. a + i \in Nat \ {0}
          BY <1>4, <5>2
        <5> QED  BY <5>3 DEF a
      <4> HIDE DEF p
      <4>2. Sounding(whole, p) \in Byte
        <5>1. CASE p > Len(whole)
          BY <5>1 DEF Sounding, Byte
        <5>2. CASE ~ (p > Len(whole))
          <6>1. p \in 1 .. Len(whole)
            BY <1>3, <4>1, <5>2
          <6>2. whole[p] \in Byte
            BY <1>3, <6>1
          <6> QED  BY <5>2, <6>2 DEF Sounding
        <5> QED  BY <5>1, <5>2
      <4> QED  BY <4>2 DEF p
    <3> HIDE DEF chunk, at
    <3>3. chunk \in Seq(Byte) /\ Len(chunk) = size
      BY <1>4, <3>1, <3>2
    <3> QED  BY <1>4, <3>3
  <2>3. PackedUnit(pcm, substreams, unit, chunk)
    <3>1. \A i \in 1 .. n : unit[i].payload.payload = PackOne(substreams[i], chunk, c, bytes)
      BY <1>6, <1>11
    <3> HIDE DEF unit, chunk
    <3> QED  BY <3>1 DEF PackedUnit, n, c, bytes
  <2>4. CutBy(unit, short2)
    <3>1. unit[1].header.type_specific.trim = TrimOf(f, count, short)
      BY <1>6, <1>10, <1>11
    <3> HIDE DEF unit
    <3>2. CASE f = count /\ short > 0
      <4>1. TrimOf(f, count, short) = <<<<short, 0>>>>
        BY <3>2 DEF TrimOf, When, Some
      <4>2. /\ <<<<short, 0>>>> # <<>> /\ <<<<short, 0>>>>[1][1] = short
            /\ <<<<short, 0>>>>[1][2] = 0
        OBVIOUS
      <4> QED  BY <3>1, <3>2, <4>1, <4>2 DEF CutBy, None
    <3>3. CASE ~ (f = count /\ short > 0)
      <4>1. TrimOf(f, count, short) = None
        BY <3>3 DEF TrimOf, When
      <4>2. short2 = 0
        BY <1>3, <3>3
      <4> QED  BY <3>1, <4>1, <4>2 DEF CutBy
    <3> QED  BY <3>2, <3>3
  <2>5. short2 \in 0 .. per
    BY <1>3
  <2> HIDE DEF unit, chunk, short2
  <2>6. Opens(PlayedUnit(pcm, substreams, unit), chunk, (per - short2) * c * bytes)
    BY <2>1, <2>2, <2>3, <2>4, <2>5, UnitIsPlayed DEF per, c, bytes
  <2> QED  BY <2>6 DEF unit, chunk, short2
<1>13. ASSUME NEW f \in 1 .. count
       PROVE  (per - cut(f)) * c * bytes = IF f = count THEN size - lost ELSE size
  <2>1. (per - short) * c * bytes = size - lost
    <3>1. (per - short) * c * bytes = per * (c * bytes) - short * (c * bytes)
      BY <1>3
    <3> QED  BY <1>4, <3>1 DEF lost
  <2>2. (per - 0) * c * bytes = size
    BY <1>3, <1>4
  <2> QED  BY <2>1, <2>2
<1> DEFINE played(f) == PlayedUnit(pcm, substreams, Unit(f))
<1> HIDE DEF Unit
<1>14. ASSUME NEW f \in 1 .. count
       PROVE  /\ played(f) \in Seq(Byte)
              /\ Len(played(f)) = IF f = count THEN size - lost ELSE size
              /\ \A j \in 1 .. Len(played(f)) :
                   played(f)[j] = Sounding(whole, (f - 1) * size + j)
  <2> DEFINE length == IF f = count THEN size - lost ELSE size
             chunk  == Chunk(pcm, f - 1)
  <2>1. Opens(played(f), chunk, length)
    BY <1>12, <1>13
  <2>2. length \in 0 .. size
    BY <1>4
  <2>3. \A j \in 1 .. size : chunk[j] = Sounding(whole, (f - 1) * size + j)
    BY <1>5
  <2> HIDE DEF played, length, chunk
  <2>4. played(f) \in Seq(Byte) /\ Len(played(f)) = length
    BY <2>1 DEF Opens
  <2>5. \A j \in 1 .. length : j \in 1 .. size /\ played(f)[j] = chunk[j]
    BY <1>4, <2>1, <2>2 DEF Opens
  <2>6. \A j \in 1 .. Len(played(f)) : played(f)[j] = Sounding(whole, (f - 1) * size + j)
    BY <2>3, <2>4, <2>5
  <2> QED  BY <2>4, <2>6 DEF length
<1> HIDE DEF played
<1>15. lists = [f \in 1 .. count |-> played(f)]
  BY DEF played
<1> HIDE DEF lists
<1>16. /\ lists \in Seq(Seq(Byte)) /\ Len(lists) = count
       /\ \A f \in 1 .. count : lists[f] = played(f)
  BY <1>3, <1>14, <1>15
<1>17. InFrames(lists, whole, size, lost)
  BY <1>14, <1>16 DEF InFrames
<1>18. FlattenSeq(lists) = whole
  BY <1>3, <1>4, <1>16, <1>17, FramesJoin
<1>19. FlattenSeq([f \in DOMAIN Of(1) |-> PlayedUnit(pcm, substreams, Unit(f))]) = whole
  BY <1>10, <1>18 DEF lists
<1> QED  BY <1>2, <1>19 DEF PlaysBack, substreams, obus, n, whole, Unit

\* The OBUs of a planned stream are its frames.
LEMMA PlannedFrames ==
  ASSUME NEW pcm, StreamTyped(pcm)
  PROVE  /\ \E S : FramesOf(pcm).obus \in Seq(S)
         /\ \A m \in DOMAIN FramesOf(pcm).obus : \E id \in 0 .. 3 : \E trim, bytes :
              FramesOf(pcm).obus[m] = FrameObu(id, trim, bytes)
<1> DEFINE obus == FramesOf(pcm).obus
<1>1. PICK substreams, count, short : FramedIn(pcm, substreams, count, short)
  BY StreamIsFramed
<1> DEFINE n          == Len(substreams)
           Planned(k) == UnitOf(pcm, substreams, count, short, k)
           units      == [k \in 1 .. count |-> Planned(k)]
           S          == {Planned(k)[i] : k \in 1 .. count, i \in 1 .. n}
<1>2. n \in 1 .. 4 /\ count \in Nat /\ obus = FlattenSeq(units)
  BY <1>1 DEF FramedIn, PlanFits
<1>3. ASSUME NEW k \in 1 .. count PROVE Planned(k) \in Seq(S)
  <2>1. \A i \in 1 .. n : Planned(k)[i] \in S
    OBVIOUS
  <2>2. Planned(k) = [i \in 1 .. n |-> Planned(k)[i]]
    BY DEF UnitOf
  <2> HIDE DEF S, Planned, n
  <2>3. [i \in 1 .. n |-> Planned(k)[i]] \in Seq(S)
    BY <1>2, <2>1
  <2> QED  BY <2>2, <2>3
<1>4. ASSUME NEW obu \in S PROVE \E id \in 0 .. 3 : \E trim, bytes : obu = FrameObu(id, trim, bytes)
  <2>1. PICK k \in 1 .. count, i \in 1 .. n : obu = Planned(k)[i]
    OBVIOUS
  <2>2. obu = FrameObu(i - 1, TrimOf(k, count, short),
                       PackOne(substreams[i], Chunk(pcm, k - 1), pcm.channels,
                               pcm.bytes_per_sample))
    BY <2>1 DEF UnitOf
  <2>3. i - 1 \in 0 .. 3
    <3> HIDE DEF n
    <3> QED  BY <1>2
  <2> QED  BY <2>2, <2>3
<1> HIDE DEF S, Planned, obus
<1>5. units \in Seq(Seq(S))
  BY <1>2, <1>3
<1>6. obus \in Seq(S)
  <2> HIDE DEF units
  <2> QED  BY <1>2, <1>5, FlattenMembers
<1>7. \A m \in DOMAIN obus : obus[m] \in S
  BY <1>6
<1> QED  BY <1>4, <1>6, <1>7 DEF obus

\* What a stream is planned of can be framed, and no frame is larger than its
\* writer frames.
StreamsTyped == \A pcm \in Streams : StreamTyped(pcm) /\ AllPlain(FramesOf(pcm).obus)

LEMMA PlannedSurvive ==
  ASSUME StreamsTyped, AllPlain(written) => WrittenReadsBack
  PROVE  SamplesSurvive
<1> SUFFICES ASSUME damage = NoDamage, parsed # None, NEW pcm \in Streams,
                    FramesOf(pcm).obus = written
             PROVE  PlaysBack(pcm, Result.obus)
  BY DEF SamplesSurvive, PlaysBack
<1>1. StreamTyped(pcm) /\ AllPlain(written)
  BY DEF StreamsTyped
<1>2. Result.obus = [m \in DOMAIN written |-> ReadsBackAs(written[m])]
  BY <1>1, Zenon DEF WrittenReadsBack
<1>3. /\ \E S : written \in Seq(S)
      /\ \A m \in DOMAIN written : \E id \in 0 .. 3 : \E trim, bytes :
           written[m] = FrameObu(id, trim, bytes)
  BY <1>1, PlannedFrames
<1>4. ASSUME NEW m \in DOMAIN written PROVE ReadsBackAs(written[m]) = written[m]
  <2>1. PICK id \in 0 .. 3 : \E trim, bytes : written[m] = FrameObu(id, trim, bytes)
    BY <1>3
  <2>2. PICK trim, bytes : written[m] = FrameObu(id, trim, bytes)
    BY <2>1
  <2>3. PlainFramed(<<>>, written[m], 0)
    BY <1>1 DEF AllPlain
  <2>4. PlainFramed(<<>>, FrameObu(id, trim, bytes), 0)
    BY <2>2, <2>3
  <2> QED  BY <2>2, <2>4, PlannedFrameReadsAs
<1>5. written = [m \in DOMAIN written |-> written[m]]
  BY <1>3
<1>6. Result.obus = written
  BY <1>2, <1>4, <1>5
<1>7. PlaysBack(pcm, FramesOf(pcm).obus)
  BY <1>1, FramesPlayBack
<1> QED  BY <1>6, <1>7

\* The samples an application plans, pads, packs and frames are the samples a
\* decoder of the stream plays: for every length, frame size, sample width and
\* layout that has a plan (plan_frames, pack_channels_to_substreams and
\* FramePlan::trimming_for, with everything that writes and reads the frames).
THEOREM PlannedSamplesSurvive ==
  ASSUME CrateLimits, StreamsTyped
  PROVE  Spec => []SamplesSurvive
<1>1. Spec => [](AllPlain(written) => WrittenReadsBack /\ CutIsReported)
  BY PlainStreamsReadBack
<1>2. (AllPlain(written) => WrittenReadsBack /\ CutIsReported) => SamplesSurvive
  BY PlannedSurvive
<1> QED  BY <1>1, <1>2, PTL

=============================================================================
