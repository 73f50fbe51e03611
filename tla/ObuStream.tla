----------------------------- MODULE ObuStream ------------------------------
(***************************************************************************)
(* Whole OBUs and streams of them, byte for byte: the payload that each    *)
(* obu_type selects, the registry that grows with the descriptors, and     *)
(* sequence::SequenceReader and write_parsed_sequence over them.  The      *)
(* modules SequenceReader and ParsedSequences abstract from the bytes.     *)
(*   obu  [kind, header, payload, trailing]                                *)
(***************************************************************************)
EXTENDS CodecConfigs, AudioElements, MixPresentations, AudioFrames

----------------------------------------------------------------------------
(* Sequence headers                                                        *)

ReadIaSequenceHeader(r) ==
  ReadAs(r, <<Span(4), Bits(8), Bits(8), Rest>>, LAMBDA h :
         [ia_code |-> h[1], primary_profile |-> h[2], additional_profile |-> h[3],
          trailing |-> h[4]])

PutIaSequenceHeader(v) ==
  Refuse(v.additional_profile < v.primary_profile, "AdditionalProfileBelowPrimary")
  \o PutSpan(v.ia_code) \o Put(v.primary_profile, 8) \o Put(v.additional_profile, 8)
  \o PutSpan(v.trailing)

----------------------------------------------------------------------------
(* One OBU                                                                 *)

Descriptors == {"codec_config", "audio_element", "mix_presentation", "sequence_header"}

\* The arm of the dispatcher an obu_type takes.
KindOf(type) ==
  CASE type = 0  -> "codec_config"
    [] type = 1  -> "audio_element"
    [] type = 2  -> "mix_presentation"
    [] type = 3  -> "parameter_block"
    [] type = 4  -> "temporal_delimiter"
    [] type = SequenceHeaderType   -> "sequence_header"
    [] type \in AudioFrameTypes    -> "audio_frame"
    [] OTHER                       -> "unknown"

\* A block nothing defines is kept as bytes.
ReadIdentified(r, id, registry) ==
  IF id.err = Ok /\ GetDefinition(registry, LastRead(id)) = 0
    THEN <<"ungoverned_block", Read(r, <<Rest>>)>>
    ELSE <<"parameter_block", ReadParameterBlock(r, registry)>>

ReadBlock(r, registry) == ReadIdentified(r, Read(r, <<Uleb>>), registry)

\* The kind of the OBU and the cursor behind its payload.
ReadPayload(r, header, registry) ==
  LET kind == KindOf(header.obu_type.raw)
  IN  CASE kind = "codec_config"       -> <<kind, ReadCodecConfig(r)>>
        [] kind = "audio_element"      -> <<kind, ReadAudioElement(r)>>
        [] kind = "mix_presentation"   -> <<kind, ReadMixPresentation(r)>>
        [] kind = "sequence_header"    -> <<kind, ReadIaSequenceHeader(r)>>
        [] kind = "parameter_block"    -> ReadBlock(r, registry)
        [] kind = "temporal_delimiter" -> <<kind, [r EXCEPT !.out = <<None>>]>>
        [] kind = "audio_frame"        -> <<kind, ReadAudioFrame(r, header)>>
        [] kind = "unknown"            -> <<kind, Read(r, <<Rest>>)>>

\* The registry after an OBU.
Observe(registry, obu) ==
  CASE obu.kind = "audio_element"    -> ObserveAudioElement(registry, obu.payload)
    [] obu.kind = "mix_presentation" -> ObserveMixPresentation(registry, obu.payload)
    [] OTHER                         -> registry

\* What a payload parser leaves is the trailing of the OBU; a descriptor's
\* parser leaves nothing and hands over its own.
ObuOf(kind, frame, left) ==
  LET payload == left.out[1]
      owned   == kind \in Descriptors
  IN  IF left.err # Ok THEN Fails(left.err)
      ELSE [err |-> Ok, next |-> frame.next,
            obu |-> [kind     |-> kind,
                     header   |-> frame.header,
                     payload  |-> IF owned THEN [payload EXCEPT !.trailing = <<>>] ELSE payload,
                     trailing |-> IF owned THEN payload.trailing ELSE left.out[2]]]

ObuOfPayload(frame, read) == ObuOf(read[1], frame, Read(read[2], <<Rest>>))

ObuInFrame(frame, registry) ==
  IF frame.err # Ok THEN Fails(frame.err)
  ELSE ObuOfPayload(frame, ReadPayload(Cursor(frame.payload), frame.header, registry))

\* next_obu: the OBU at a position and the position behind it.
ReadObu(bytes, at, registry) == ObuInFrame(ReadFrame(bytes, at), registry)

PutPayload(registry, obu) ==
  CASE obu.kind = "codec_config"       -> PutCodecConfig(obu.payload)
    [] obu.kind = "audio_element"      -> PutAudioElement(obu.payload)
    [] obu.kind = "mix_presentation"   -> PutMixPresentation(obu.payload)
    [] obu.kind = "sequence_header"    -> PutIaSequenceHeader(obu.payload)
    [] obu.kind = "audio_frame"        -> PutAudioFrame(obu.header, obu.payload)
    [] obu.kind = "temporal_delimiter" -> <<>>
    [] obu.kind \in {"ungoverned_block", "unknown"} -> PutSpan(obu.payload)
    [] obu.kind = "parameter_block"    ->
         LET found == GetDefinition(registry, obu.payload.parameter_id)
         IN  IF found = 0 THEN Refuse(TRUE, "NoGoverningParamDefinition")
             ELSE PutParameterBlock(registry[found].definition, registry[found].context,
                                    obu.payload)

\* write_obu_with_header
WriteObu(registry, obu, padding) ==
  LET payload == Written(PutPayload(registry, obu))
  IN  IF payload.err # Ok THEN payload
      ELSE Written(PutObu(obu.header, payload.bytes \o obu.trailing, padding))

----------------------------------------------------------------------------
(* Streams                                                                 *)

\* The cursor of a SequenceReader: the OBUs it has yielded, the position of
\* each and, last, its own.
StreamStart == [err |-> Ok, at |-> <<0>>, obus |-> <<>>, registry |-> <<>>]

Yielded(s, one) ==
  IF one.err # Ok THEN [s EXCEPT !.err = one.err]
  ELSE [err |-> Ok, at |-> Append(s.at, one.next), obus |-> Append(s.obus, one.obu),
        registry |-> Observe(s.registry, one.obu)]

\* Where the frames of a stream start, the last of which may be none.
FrameStarts(bytes) ==
  LET from[at \in 0 .. Len(bytes)] ==
        LET frame == ReadFrame(bytes, at)
        IN  IF at = Len(bytes) THEN <<>>
            ELSE IF frame.err # Ok THEN <<at>>
            ELSE <<at>> \o from[frame.next]
  IN  from[0]

\* SequenceReader until it ends.
ReadStream(bytes) ==
  LET starts == FrameStarts(bytes)
      seen[i \in 0 .. Len(starts)] ==
        IF i = 0 THEN StreamStart
        ELSE AndThen(seen[i - 1], LAMBDA s :
               Yielded(s, ReadObu(bytes, starts[i], s.registry)))
  IN  seen[Len(starts)]

\* find_obu_boundaries.
FindObuBoundaries(bytes) ==
  LET from[at \in 0 .. Len(bytes)] ==
        LET one == WalkStep(bytes, at)
        IN  IF at = Len(bytes) THEN [err |-> Ok, at |-> <<at>>]
            ELSE IF one.err # Ok THEN [err |-> one.err, at |-> <<at>>]
            ELSE [from[one.next] EXCEPT !.at = <<at>> \o @]
  IN  from[0]

=============================================================================
