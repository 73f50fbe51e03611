----------------------------- MODULE ObuFraming -----------------------------
(***************************************************************************)
(* The frame of an OBU (obu/header.rs, obu/mod.rs) and the structural walk *)
(* over a stream (obu/boundaries.rs).                                      *)
(*                                                                         *)
(* An OBU is byte 0, obu_size, the fields after obu_size and the payload;  *)
(* obu_size counts the last two.                                           *)
(*   header         [obu_type, redundant, type_specific, extension]        *)
(*   type_specific  [kind, trim]: "trimming" with an optional              *)
(*                  <<at_end, at_start>>, or "reserved" with none          *)
(* Positions are the bytes of the stream before them.  The readers here    *)
(* are written out read by read, not as a chain of steps, because theorems *)
(* are proved about them.                                                  *)
(*                                                                         *)
(* A name with a suffix after an underscore is a faulty form of the        *)
(* definition below it; no specification uses it.                          *)
(***************************************************************************)
EXTENDS ParameterBlocks

CONSTANT EntireObuSizeMax  \* the bytes an OBU may take in all, 2^21 in the code

ASSUME FramingAssumption == EntireObuSizeMax \in Nat

SequenceHeaderType == 31
DefinedTypes == 0 .. 23 \cup {SequenceHeaderType}
AudioFrameTypes == 5 .. 23
NeverRedundant == 3 .. 23

Trimming(trim) == [kind |-> "trimming", trim |-> trim]
ReservedBit == [kind |-> "reserved", trim |-> None]

\* What an obu_size of n bytes may say.
SizeCeiling(n) == EntireObuSizeMax - 1 - n

----------------------------------------------------------------------------
(* Writing                                                                 *)

\* validate_header, in its order.
HeaderRefusal(header) ==
  LET type == header.obu_type.raw
  IN  Refuse(Aliases(DefinedTypes, header.obu_type), "ReservedAliasesDefinedValue")
      \o Refuse(header.type_specific.trim # None /\ type \notin AudioFrameTypes,
                "TrimmingFlagNotAllowed")
      \o Refuse(header.redundant /\ type \in NeverRedundant, "RedundantCopyNotAllowed")

\* In the order they are named in the model.
PutTrim_StartFirst(trim) == PutUleb(trim[2]) \o PutUleb(trim[1])

\* The trim at the end before the one at the start.
PutTrim(trim) == PutUleb(trim[1]) \o PutUleb(trim[2])

PutFieldsAfterObuSize(header) ==
  LET PutExtension(bytes) == PutUleb(Len(bytes)) \o PutSpan(bytes)
  IN  PutEach(header.type_specific.trim, PutTrim) \o PutEach(header.extension, PutExtension)

Flag(condition) == IF condition THEN 1 ELSE 0

\* write_obu: the fields after obu_size are measured before byte 0 is written.
\* padding is 0 for the crate, which spells obu_size minimally; another encoder
\* may keep more groups for it.
PutObu(header, payload, padding) ==
  LET after    == PutFieldsAfterObuSize(header)
      obu_size == Len(Written(after).bytes) + Len(payload)
      groups   == MinimalLen(obu_size) + padding
  IN  HeaderRefusal(header)
      \o Refuse(obu_size > SizeCeiling(groups), "ObuTooLarge")
      \o Put(header.obu_type.raw, 5) \o Put(Flag(header.redundant), 1)
      \o Put(Flag(header.type_specific.trim # None), 1)
      \o Put(Flag(header.extension # None), 1)
      \o PutSpan(UlebFixed(obu_size, groups)) \o after \o PutSpan(payload)

----------------------------------------------------------------------------
(* Reading                                                                 *)

\* The uleb128 behind a cursor [err, at, vals]; vals are the values read so far.
NextUleb(window, c) ==
  LET leb == ReadUleb(window, c.at)
  IN  IF c.err # Ok THEN c
      ELSE [err |-> leb.err, at |-> leb.at, vals |-> Append(c.vals, leb.val)]

\* As many bytes as the last value says, none from beyond the window.
TakeSized(window, c) ==
  LET end == c.at + c.vals[Len(c.vals)]
  IN  IF c.err # Ok THEN c
      ELSE IF end > Len(window) THEN [c EXCEPT !.err = "UnexpectedEndOfInput"]
      ELSE [c EXCEPT !.at = end, !.vals = Append(@, SubSeq(window, c.at + 1, end))]

\* read_extension
ReadExtension(window, c) == TakeSized(window, NextUleb(window, c))

ReadTrim(window, c) == NextUleb(window, NextUleb(window, c))

\* The fields after obu_size: a flag of byte 0 says of each whether it is there.
ReadFieldsAfterObuSize(window, at, trimmed, extended) ==
  LET start == [err |-> Ok, at |-> at, vals |-> <<>>]
      Extend(c) == IF extended THEN ReadExtension(window, c) ELSE c
  IN  Extend(IF trimmed THEN ReadTrim(window, start) ELSE start)

Redundant(byte) == (byte \div 4) % 2 = 1
Trimmed(byte)   == (byte \div 2) % 2 = 1
Extended(byte)  == byte % 2 = 1

\* The header of byte 0 and the values read behind obu_size.
HeaderOf(byte, vals) ==
  LET type == byte \div 8
  IN  [obu_type      |-> Enum(DefinedTypes, type),
       redundant     |-> Redundant(byte),
       type_specific |-> IF Trimmed(byte) THEN Trimming(Some(<<vals[1], vals[2]>>))
                         ELSE IF type \in AudioFrameTypes THEN Trimming(None) ELSE ReservedBit,
       extension     |-> When(Extended(byte), vals[Len(vals)])]

Fails(kind) == [err |-> kind]

\* The header of an OBU that is whole in the input, or is not.  after is the
\* position behind obu_size, at the one of the payload.
HeaderParts(byte, size, whole, fields) ==
  IF fields.err = Ok
    THEN [err |-> Ok, obu_size |-> size.val, after |-> size.at, at |-> fields.at,
          header |-> HeaderOf(byte, fields.vals)]
  ELSE Fails(IF whole /\ fields.err = "UnexpectedEndOfInput" THEN "TruncatedObu"
             ELSE fields.err)

\* The fields are read inside obu_size and inside the input, whichever ends
\* first.
HeaderBehindSize(bytes, at, size) ==
  LET byte  == bytes[at + 1]
      end   == size.at + size.val
      limit == IF end <= Len(bytes) THEN end ELSE Len(bytes)
  IN  IF size.err # Ok THEN Fails(size.err)
      ELSE IF size.val > SizeCeiling(size.at - at - 1) THEN Fails("ObuTooLarge")
      ELSE HeaderParts(byte, size, end <= Len(bytes),
                       ReadFieldsAfterObuSize(SubSeq(bytes, 1, limit), size.at,
                                              Trimmed(byte), Extended(byte)))

\* read_obu_header_parts
ReadObuHeader(bytes, at) ==
  IF at >= Len(bytes) THEN Fails("UnexpectedEndOfInput")
  ELSE HeaderBehindSize(bytes, at, ReadUleb(bytes, at + 1))

\* A payload that does not fit is what there is of it.
FrameBehindHeader_Lenient(bytes, h) ==
  LET payload_len == h.obu_size - (h.at - h.after)
      next        == IF h.at + payload_len > Len(bytes) THEN Len(bytes) ELSE h.at + payload_len
  IN  IF h.err # Ok THEN h
      ELSE IF payload_len < 0 THEN Fails("TruncatedObu")
      ELSE [err |-> Ok, header |-> h.header, next |-> next,
            payload |-> SubSeq(bytes, h.at + 1, next)]

\* The payload goes on into the next OBU.
FrameBehindHeader_Unbounded(bytes, h) ==
  LET payload_len == h.obu_size - (h.at - h.after)
      next        == h.at + payload_len
  IN  IF h.err # Ok THEN h
      ELSE IF payload_len < 0 THEN Fails("TruncatedObu")
      ELSE IF next > Len(bytes) THEN Fails("UnexpectedEndOfInput")
      ELSE [err |-> Ok, header |-> h.header, next |-> next,
            payload |-> SubSeq(bytes, h.at + 1, Len(bytes))]

\* The payload is what obu_size counts and the fields did not take.
FrameBehindHeader(bytes, h) ==
  LET payload_len == h.obu_size - (h.at - h.after)
      next        == h.at + payload_len
  IN  IF h.err # Ok THEN h
      ELSE IF payload_len < 0 THEN Fails("TruncatedObu")
      ELSE IF next > Len(bytes) THEN Fails("UnexpectedEndOfInput")
      ELSE [err |-> Ok, header |-> h.header, next |-> next,
            payload |-> SubSeq(bytes, h.at + 1, next)]

\* The frame of the OBU at a position, as read_obu_with_header cuts it: the
\* header, the bytes of the payload and the position of the next OBU.
ReadFrame(bytes, at) == FrameBehindHeader(bytes, ReadObuHeader(bytes, at))

----------------------------------------------------------------------------
(* The walk                                                                *)

\* obu_size is taken to be as short as its value allows.
WalkBehindSize_Minimal(bytes, at, size) ==
  LET next == at + 1 + MinimalLen(size.val) + size.val
  IN  IF size.err = "UnexpectedEndOfInput" THEN Fails("TruncatedObu")
      ELSE IF size.err # Ok THEN Fails(size.err)
      ELSE IF size.val > SizeCeiling(size.at - at - 1) THEN Fails("ObuTooLarge")
      ELSE IF next > Len(bytes) THEN Fails("TruncatedObu")
      ELSE [err |-> Ok, next |-> next]

\* What byte 0 and obu_size say of the next position.
WalkBehindSize(bytes, at, size) ==
  LET next == size.at + size.val
  IN  IF size.err = "UnexpectedEndOfInput" THEN Fails("TruncatedObu")
      ELSE IF size.err # Ok THEN Fails(size.err)
      ELSE IF size.val > SizeCeiling(size.at - at - 1) THEN Fails("ObuTooLarge")
      ELSE IF next > Len(bytes) THEN Fails("TruncatedObu")
      ELSE [err |-> Ok, next |-> next]

\* One step of find_obu_boundaries, for a position inside the stream: byte 0
\* and obu_size and nothing else.
WalkStep(bytes, at) == WalkBehindSize(bytes, at, ReadUleb(bytes, at + 1))

=============================================================================
