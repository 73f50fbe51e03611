-------------------------------- MODULE Wire --------------------------------
(***************************************************************************)
(* The bit reader, the bit writer and uleb128 (src/src/bits).              *)
(*                                                                         *)
(* A payload parser of the crate is a chain of fallible reads, each of     *)
(* which the next one follows only when it succeeded; a payload writer is  *)
(* the same chain of writes.  Both are given here as a sequence of steps   *)
(* that is run over a cursor or over a writer:                             *)
(*   cursor  [bytes, at, err, out]: the borrowed input, the bits consumed, *)
(*           the first error ("ok" when none) and the values read so far   *)
(*   writer  [bytes, part, bits, err]: the complete bytes, the pending     *)
(*           partial byte and its width, the first error                   *)
(* An error is its kind; where it is located is left out.  A byte is a     *)
(* number below 256, and a field wider than 24 bits is read and written as *)
(* the tuple of its bytes.                                                 *)
(***************************************************************************)
EXTENDS Integers, Sequences, FiniteSets, SequencesExt, FiniteSetsExt

CONSTANTS
  MaxLeb,     \* kMaxLeb128Size: the bytes a uleb128 may take, 8 in the code
  ValueLimit, \* one more than the largest value a uleb128 may carry, 2^32
  MaxString   \* kIamfMaxStringSize: a string with its terminator, 128

ASSUME WireAssumption ==
  /\ MaxLeb \in Nat \ {0}
  /\ ValueLimit \in Nat \ {0}
  /\ MaxString \in Nat \ {0}

Ok == "ok"
Byte == 0 .. 255

----------------------------------------------------------------------------
(* uleb128                                                                 *)

\* The number the groups carry, the first group the lowest seven bits.
UlebValue(groups) ==
  LET from[i \in 1 .. Len(groups) + 1] ==
        IF i > Len(groups) THEN 0 ELSE (groups[i] % 128) + 128 * from[i + 1]
  IN  from[1]

\* How many bytes from at on stop at the first one without a continuation
\* bit; no member when the cap or the input ends first.
UlebEnds(bytes, at) == {n \in 1 .. MaxLeb : at + n <= Len(bytes) /\ bytes[at + n] < 128}

UlebLength(bytes, at) ==
  CHOOSE n \in UlebEnds(bytes, at) : \A m \in UlebEnds(bytes, at) : n <= m

\* What ends at a position and carries v: only what a u32 holds.
UlebRead(v, at) ==
  [err |-> IF v \in 0 .. ValueLimit - 1 THEN Ok ELSE "Leb128ValueTooLarge", val |-> v, at |-> at]

UlebOf(bytes, at, n) == UlebRead(UlebValue(SubSeq(bytes, at + 1, at + n)), at + n)

NoUleb(bytes, at) ==
  [err |-> IF at + MaxLeb <= Len(bytes) THEN "Leb128TooLong" ELSE "UnexpectedEndOfInput",
   val |-> 0, at |-> at]

\* The value that starts after the first at bytes: at most MaxLeb groups.
ReadUleb(bytes, at) ==
  IF UlebEnds(bytes, at) = {} THEN NoUleb(bytes, at)
  ELSE UlebOf(bytes, at, UlebLength(bytes, at))

MinimalLen(v) == Min({n \in 1 .. MaxLeb : v < 128 ^ n})

\* write_uleb128_fixed for a size that holds the value: padded with
\* continuation bytes.
UlebFixed(v, size) ==
  [i \in 1 .. size |-> ((v \div 128 ^ (i - 1)) % 128) + (IF i = size THEN 0 ELSE 128)]

UlebMinimal(v) == UlebFixed(v, MinimalLen(v))

----------------------------------------------------------------------------
(* The reader                                                              *)

Cursor(bytes) == [bytes |-> bytes, at |-> 0, err |-> Ok, out |-> <<>>]

BitsRemaining(r) == 8 * Len(r.bytes) - r.at
BytesRemaining(r) == BitsRemaining(r) \div 8
IsByteAligned(r) == r.at % 8 = 0
BytePosition(r) == r.at \div 8

\* The n bits from bit position at on, most significant first.
BitsAt(bytes, at, n) ==
  LET first == at \div 8 + 1
      last  == (at + n - 1) \div 8 + 1
      whole[i \in first - 1 .. last] == IF i < first THEN 0 ELSE 256 * whole[i - 1] + bytes[i]
  IN  (whole[last] \div 2 ^ (8 * last - at - n)) % 2 ^ n

TwosComplement(v, n) == IF v < 2 ^ (n - 1) THEN v ELSE v - 2 ^ n

\* The first error stays.
Failed(r, kind) == [r EXCEPT !.err = IF @ = Ok THEN kind ELSE @]
Taken(r, n, value) == [r EXCEPT !.at = @ + n, !.out = Append(@, value)]

ReadUnsigned(r, n) ==
  IF n > BitsRemaining(r) THEN Failed(r, "UnexpectedEndOfInput")
  ELSE Taken(r, n, BitsAt(r.bytes, r.at, n))

ReadSigned(r, n) ==
  IF n > BitsRemaining(r) THEN Failed(r, "UnexpectedEndOfInput")
  ELSE Taken(r, n, TwosComplement(BitsAt(r.bytes, r.at, n), n))

ReadSpan(r, n) ==
  IF ~ IsByteAligned(r) THEN Failed(r, "NotByteAligned")
  ELSE IF n > BytesRemaining(r) THEN Failed(r, "UnexpectedEndOfInput")
  ELSE Taken(r, 8 * n, SubSeq(r.bytes, BytePosition(r) + 1, BytePosition(r) + n))

TakenUleb(r, leb) ==
  IF leb.err # Ok THEN Failed(r, leb.err) ELSE Taken(r, 8 * (leb.at - BytePosition(r)), leb.val)

\* Every uleb128 of the format starts on a byte boundary.
ReadUlebField(r) ==
  TakenUleb(r, ReadUleb(r.bytes, BytePosition(r)))

\* The bytes up to and including the terminator.
ReadString(r) ==
  LET at == BytePosition(r)
      stops == {n \in 1 .. MaxString : at + n <= Len(r.bytes) /\ r.bytes[at + n] = 0}
  IN  IF stops # {} THEN ReadSpan(r, Min(stops))
      ELSE Failed(r, IF at + MaxString <= Len(r.bytes) THEN "StringNotTerminated"
                     ELSE "UnexpectedEndOfInput")

----------------------------------------------------------------------------
(* Chains of reads                                                         *)

Bits(n)   == [kind |-> "bits", n |-> n]
Signed(n) == [kind |-> "signed", n |-> n]
Span(n)   == [kind |-> "span", n |-> n]
Uleb      == [kind |-> "uleb", n |-> 0]
Text      == [kind |-> "text", n |-> 0]
Rest      == [kind |-> "rest", n |-> 0]

ReadStep(r, step) ==
  IF r.err # Ok THEN r
  ELSE CASE step.kind = "bits"   -> ReadUnsigned(r, step.n)
         [] step.kind = "signed" -> ReadSigned(r, step.n)
         [] step.kind = "span"   -> ReadSpan(r, step.n)
         [] step.kind = "uleb"   -> ReadUlebField(r)
         [] step.kind = "text"   -> ReadString(r)
         [] step.kind = "rest"   -> ReadSpan(r, BytesRemaining(r))

\* The reads in order, up to the first that fails.
Read(r, steps) ==
  LET done[i \in 0 .. Len(steps)] == IF i = 0 THEN r ELSE ReadStep(done[i - 1], steps[i])
  IN  done[Len(steps)]

LastRead(r) == Last(r.out)

FailIf(r, condition, kind) == IF condition THEN Failed(r, kind) ELSE r

\* A value that takes no bits.
Yield(r, value) == IF r.err # Ok THEN r ELSE [r EXCEPT !.out = Append(@, value)]

\* What follows only when everything so far was read.
AndThen(r, Follow(_)) == IF r.err # Ok THEN r ELSE Follow(r)

Fresh(r) == [r EXCEPT !.out = <<>>]

\* The values read since start, as the one value Build makes of them.
Built(start, r, Build(_)) ==
  IF r.err # Ok THEN [r EXCEPT !.out = start.out]
  ELSE [r EXCEPT !.out = Append(start.out, Build(r.out))]

\* A structure of fixed syntax.
ReadAs(r, steps, Build(_)) == Built(r, Read(Fresh(r), steps), Build)

\* A size and as many bytes.
ReadSized(r) ==
  Built(r, AndThen(Read(Fresh(r), <<Uleb>>), LAMBDA c : Read(c, <<Span(LastRead(c))>>)),
        LAMBDA h : h[2])

\* A count no larger than the bytes left: every item takes a byte at least.
ReadBoundedCount(r) ==
  AndThen(Read(r, <<Uleb>>), LAMBDA c :
    FailIf(c, LastRead(c) > BytesRemaining(c), "UnexpectedEndOfInput"))

\* As many items as the last value says, as one sequence in its place.  A count
\* no input could hold stops at the first item that has no byte left, as the
\* loop does.
ReadMany(r, Item(_)) ==
  LET items[i \in 0 .. LastRead(r)] == IF i = 0 THEN Fresh(r) ELSE Item(items[i - 1])
      tries == Min({LastRead(r), BytesRemaining(r) + 1})
  IN  IF r.err # Ok THEN r
      ELSE Built([r EXCEPT !.out = Front(@)], items[tries], LAMBDA h : h)

----------------------------------------------------------------------------
(* Chains of writes                                                        *)

Put(v, n)       == <<[kind |-> "bits", n |-> n, v |-> v]>>
PutSigned(v, n) == <<[kind |-> "signed", n |-> n, v |-> v]>>
PutUleb(v)      == <<[kind |-> "uleb", n |-> 0, v |-> v]>>
PutSpan(bytes)  == <<[kind |-> "span", n |-> 0, v |-> bytes]>>
PutText(bytes)  == <<[kind |-> "text", n |-> 0, v |-> bytes]>>

\* An early return of the writer: the first condition that holds ends it.
Refuse(condition, kind) ==
  IF condition THEN <<[kind |-> "refuse", n |-> 0, v |-> kind]>> ELSE <<>>

PutEach(items, Put1(_)) == FlattenSeq([i \in DOMAIN items |-> Put1(items[i])])

Refused(w, kind) == [w EXCEPT !.err = kind]

\* n bits of v after the pending ones, whole bytes moved to the output.
WriteUnsigned(w, v, n) ==
  IF v >= 2 ^ n THEN Refused(w, "ValueExceedsWidth")
  ELSE LET all  == w.part * 2 ^ n + v
           bits == w.bits + n
           left == bits % 8
           full == bits \div 8
       IN  [w EXCEPT !.bytes = @ \o [i \in 1 .. full |-> (all \div 2 ^ (bits - 8 * i)) % 256],
                     !.part = all % 2 ^ left, !.bits = left]

WriteBytes(w, bytes) ==
  IF w.bits = 0 THEN [w EXCEPT !.bytes = @ \o bytes]
  ELSE FoldLeft(LAMBDA c, byte : WriteUnsigned(c, byte, 8), w, bytes)

WriteSigned(w, v, n) ==
  IF v < -(2 ^ (n - 1)) \/ v >= 2 ^ (n - 1) THEN Refused(w, "ValueExceedsWidth")
  ELSE WriteUnsigned(w, v % 2 ^ n, n)

WriteString(w, payload) ==
  IF Len(payload) + 1 > MaxString THEN Refused(w, "StringTooLong")
  ELSE IF 0 \in ToSet(payload) THEN Refused(w, "StringHasInteriorNul")
  ELSE WriteBytes(w, Append(payload, 0))

WriteStep(w, step) ==
  IF w.err # Ok THEN w
  ELSE CASE step.kind = "refuse" -> Refused(w, step.v)
         [] step.kind = "bits"   -> WriteUnsigned(w, step.v, step.n)
         [] step.kind = "signed" -> WriteSigned(w, step.v, step.n)
         [] step.kind = "uleb"   -> WriteBytes(w, UlebMinimal(step.v))
         [] step.kind = "span"   -> WriteBytes(w, step.v)
         [] step.kind = "text"   -> WriteString(w, step.v)

\* finish refuses a partial byte.
Finished(w) ==
  [err |-> IF w.err = Ok /\ w.bits # 0 THEN "NotByteAligned" ELSE w.err, bytes |-> w.bytes]

\* The bytes the writes leave, or the first error.
Written(steps) ==
  LET start == [bytes |-> <<>>, part |-> 0, bits |-> 0, err |-> Ok]
      done[i \in 0 .. Len(steps)] == IF i = 0 THEN start ELSE WriteStep(done[i - 1], steps[i])
  IN  Finished(done[Len(steps)])

=============================================================================
