----------------------------- MODULE WireFormat -----------------------------
(***************************************************************************)
(* A stream of OBUs from the models that were written to the models that   *)
(* are read, byte for byte.                                                *)
(*                                                                         *)
(* OBUs are appended by the crate's flat writer, or by another encoder     *)
(* that pads obu_size.  The stream may then be cut or one byte of it       *)
(* changed, and is read once.                                              *)
(***************************************************************************)
EXTENDS Findings

CONSTANTS
  Scripts,      \* bound: the sequences of OBUs that may be written, in part or whole
  ForeignObus,  \* bound: the OBUs among them another encoder may frame
  Offsets,      \* bound: what a damaged byte may have been changed by
  Damageable,   \* bound: the streams that may be damaged, by the OBUs in them
  MadeConfigs,  \* the Codec Configs among them that a constructor returned
  Streams,      \* the samples that some of them carry in Audio Frames
  Sets          \* the DescriptorSets that some of them are the file of

VARIABLES
  stream,
  written,   \* the OBUs in it
  ends,      \* the position behind each
  registry,  \* of the writer
  damage,    \* [kind, at]: "none", "cut" or "byte"
  parsed     \* what was read, once it was

vars == <<stream, written, ends, registry, damage, parsed>>

NoDamage == [kind |-> "none", at |-> 0]

Init ==
  /\ stream = <<>>
  /\ written = <<>>
  /\ ends = <<>>
  /\ registry = <<>>
  /\ damage = NoDamage
  /\ parsed = None

Writable == damage = NoDamage /\ parsed = None

\* What may be written next.
Candidates ==
  {script[Len(written) + 1] :
     script \in {s \in Scripts : Len(s) > Len(written) /\ IsPrefix(written, s)}}

\* An OBU its writer refuses adds no byte.
AppendBytes(obu, own) ==
  /\ own.err = Ok
  /\ stream' = stream \o own.bytes
  /\ written' = Append(written, obu)
  /\ ends' = Append(ends, Len(stream) + Len(own.bytes))
  /\ registry' = Observe(registry, obu)
  /\ UNCHANGED <<damage, parsed>>

AppendObu(obu, padding) == AppendBytes(obu, WriteObu(registry, obu, padding))

WriteOwn == Writable /\ \E obu \in Candidates : AppendObu(obu, 0)

WriteForeign == Writable /\ \E obu \in Candidates \cap ForeignObus : AppendObu(obu, 1)

Undamaged ==
  damage = NoDamage /\ parsed = None /\ written \in Damageable

\* The input ends early.
Cut ==
  /\ Undamaged
  /\ \E n \in 0 .. Len(stream) - 1 :
       /\ stream' = SubSeq(stream, 1, n)
       /\ damage' = [kind |-> "cut", at |-> n]
  /\ UNCHANGED <<written, ends, registry, parsed>>

\* One byte is another than was written.
Garble ==
  /\ Undamaged
  /\ \E i \in DOMAIN stream, offset \in Offsets :
       /\ stream' = [stream EXCEPT ![i] = (@ + offset) % 256]
       /\ damage' = [kind |-> "byte", at |-> i]
  /\ UNCHANGED <<written, ends, registry, parsed>>

ReadBack ==
  /\ stream # <<>> /\ parsed = None
  /\ parsed' = Some(ReadStream(stream))
  /\ UNCHANGED <<stream, written, ends, registry, damage>>

Next == WriteOwn \/ WriteForeign \/ Cut \/ Garble \/ ReadBack

Spec == Init /\ [][Next]_vars

----------------------------------------------------------------------------
(* What a written OBU reads back as                                        *)

\* The parts of a model that no byte separates: a descriptor's trailing and
\* that of its OBU, and trailing bytes behind a part that takes the rest.
Merged(obu) ==
  LET tail == IF obu.kind \in Descriptors THEN obu.payload.trailing \o obu.trailing
              ELSE obu.trailing
      owned == [obu EXCEPT !.payload.trailing = <<>>, !.trailing = tail]
  IN  CASE obu.kind = "codec_config" /\ obu.payload.decoder_config.kind = "raw" ->
             [owned EXCEPT !.payload.decoder_config.fields = @ \o tail, !.trailing = <<>>]
        [] obu.kind = "audio_element" /\ obu.payload.type.kind = "reserved" ->
             [owned EXCEPT !.payload.type.body = @ \o tail, !.trailing = <<>>]
        [] obu.kind = "audio_frame" ->
             [obu EXCEPT !.payload.payload = @ \o tail, !.trailing = <<>>]
        [] OTHER -> IF obu.kind \in Descriptors THEN owned ELSE obu

\* A gain its flag does not select takes no byte and reads as zero.
SelectedOnly(data) ==
  IF data.kind # "recon_gain" THEN data
  ELSE LET Keep(e) == [e EXCEPT !.gains = [i \in Gains |-> IF Selects(e.flag, i) THEN @[i] ELSE 0]]
       IN  [data EXCEPT !.fields =
              [l \in DOMAIN @ |-> IF @[l] = None THEN None ELSE Some(Keep(@[l][1]))]]

\* What the flags leave open of a header without a trim, its type decides.
AsRead(header) ==
  [header EXCEPT !.type_specific =
     IF @.trim # None THEN @
     ELSE IF header.obu_type.raw \in AudioFrameTypes THEN Trimming(None) ELSE ReservedBit]

SubblocksRead(subblocks) ==
  [i \in DOMAIN subblocks |-> [subblocks[i] EXCEPT !.data = SelectedOnly(@)]]

ReadsBackAs(obu) ==
  LET merged == Merged(obu)
      framed == [merged EXCEPT !.header = AsRead(@)]
  IN  IF obu.kind # "parameter_block" THEN framed
      ELSE [framed EXCEPT !.payload.subblocks = SubblocksRead(@)]

----------------------------------------------------------------------------
(* Properties                                                              *)

Result == parsed[1]

\* Every OBU that was not refused reads back as it was written, whoever framed
\* it, up to what ReadsBackAs says no byte tells: the writers leave no gate,
\* count, size or id for the readers to take otherwise.
WrittenReadsBack ==
  damage = NoDamage /\ parsed # None =>
    /\ Result.err = Ok
    /\ Result.at = <<0>> \o ends
    /\ Result.obus = [i \in DOMAIN written |-> ReadsBackAs(written[i])]

\* A stream that ends early yields the OBUs that are whole, as if it had not
\* been cut, and then an error, which the walk reports too: never a shorter
\* stream without one, and never an OBU made of a part of one.
CutIsReported ==
  damage.kind = "cut" /\ parsed # None =>
    LET whole == {i \in DOMAIN ends : ends[i] <= damage.at}
        count == Cardinality(whole)
        clean == damage.at = (<<0>> \o ends)[count + 1]
        walk  == FindObuBoundaries(stream)
    IN  /\ Result.obus = [i \in 1 .. count |-> ReadsBackAs(written[i])]
        /\ Result.err = IF clean THEN Ok ELSE "UnexpectedEndOfInput"
        /\ walk.at = Result.at
        /\ walk.err = IF clean THEN Ok ELSE "TruncatedObu"

FrameOnWalk(bytes, at) ==
  LET frame == ReadFrame(bytes, at)
      walk  == WalkStep(bytes, at)
  IN  /\ frame.err = Ok => walk.err = Ok /\ walk.next = frame.next
      /\ frame.err = "UnexpectedEndOfInput" => walk.err = "TruncatedObu"

\* Wherever an OBU is framed, the walk, which looks at byte 0 and obu_size
\* only, finds the same next OBU; and where the reader runs out of input, the
\* walk does.
FramesOnWalk ==
  parsed = None => \A at \in 0 .. Len(stream) - 1 : FrameOnWalk(stream, at)

SameObu(there, alone) ==
  there.err = alone.err /\ (there.err = Ok => there.obu = alone.obu)

\* An OBU is read from its own bytes: given to a reader by itself, as
\* dump_annotated does, it is the OBU, or the error, it is in the stream.
OwnBytesOnly ==
  parsed # None =>
    LET boundaries == FindObuBoundaries(stream).at
        Own(i) == SubSeq(stream, boundaries[i] + 1, boundaries[i + 1])
    IN  \A i \in 1 .. Len(boundaries) - 1 :
          SameObu(ReadObu(stream, boundaries[i], Result.registry),
                  ReadObu(Own(i), 0, Result.registry))

\* The registry the OBU at an index was read under.
RegistryBefore(obus, i) == FoldLeft(Observe, <<>>, SubSeq(obus, 1, i - 1))

\* What a header or a profile may say when it is read and not when it is
\* written.
RefusedOnWrite(obu) ==
  \/ HeaderRefusal(obu.header) # <<>>
  \/ /\ obu.kind = "sequence_header"
     /\ obu.payload.additional_profile < obu.payload.primary_profile

\* again is what obu is written as, bytes what it was read from.
Rewritten(obu, bytes, again, own) ==
  LET Back(one) == one.err = Ok /\ one.obu = obu
  IN  IF RefusedOnWrite(obu) THEN again.err # Ok
      ELSE /\ again.err = Ok
           /\ Back(ReadObu(again.bytes, 0, own))
           /\ again.bytes = bytes \/ Len(again.bytes) < Len(bytes)

RewritesUnder(own, obu, bytes) == Rewritten(obu, bytes, WriteObu(own, obu, 0), own)

\* Whatever bytes are read as an OBU, the OBU is written as the same bytes,
\* or as fewer when a uleb128 among them took more than it had to, and then
\* it reads back the same.
RewritesAsRead ==
  parsed # None =>
    \A i \in DOMAIN Result.obus :
      RewritesUnder(RegistryBefore(Result.obus, i), Result.obus[i],
                    SubSeq(stream, Result.at[i] + 1, Result.at[i + 1]))

\* What a constructor leaves to its caller: that the frames are within the
\* limit, and that an Opus encoder has a lookahead.
Unchecked(config) ==
  Finding(config.num_samples_per_frame \notin 1 .. MaxSamplesPerFrame,
          "num_samples_per_frame")
  \cup Finding(config.decoder_config.kind = "opus" /\ config.decoder_config.fields[3] = 0,
               "pre_skip")

\* What a constructor returns has no finding when it is read back but for what
\* it left to its caller.
MadeConfigsAreClean ==
  damage = NoDamage /\ parsed # None =>
    \A i \in DOMAIN written :
      written[i].kind = "codec_config" /\ written[i].payload \in MadeConfigs =>
        LET config == Result.obus[i].payload
        IN  /\ config.decoder_config.kind # "raw"
            /\ CodecFindings(config) \subseteq Unchecked(config)

\* The frames of a substream, in the order they have in the stream.
OfSubstream(obus, id) ==
  FlattenSeq([k \in DOMAIN obus |->
                IF obus[k].payload.substream_id = id THEN <<obus[k]>> ELSE <<>>])

\* The bytes a decoder plays of a unit of frames, one for each substream: the
\* samples that are not trimmed, each channel by channel.  How many channels a
\* substream has, the decoder takes from the counts its layer declares.
PlayedUnit(pcm, substreams, unit) ==
  LET trim    == unit[1].header.type_specific.trim
      last    == pcm.num_samples_per_frame - (IF trim = None THEN 0 ELSE trim[1][1])
      first   == IF trim = None THEN 0 ELSE trim[1][2]
      Width(i) == IF i <= SingleLayerSubstreamCounts[pcm.layout][2] THEN 2 ELSE 1
      \* The sample of a channel is in the substream that carries it.
      Played(sample, channel) ==
        LET i == CHOOSE i \in DOMAIN substreams : channel \in Range(substreams[i])
            at == CHOOSE at \in DOMAIN substreams[i] : substreams[i][at] = channel
        IN  SampleBytes(unit[i].payload.payload, Width(i), pcm.bytes_per_sample,
                        sample, at - 1)
  IN  FlattenSeq([k \in 1 .. (last - first) * pcm.channels |->
        Played(first + (k - 1) \div pcm.channels, (k - 1) % pcm.channels)])

\* The samples an application planned, padded, packed and framed are the
\* samples a decoder plays: the frames are as many as it takes, the trims drop
\* the padding and nothing else, and every channel comes out where it went in.
SamplesSurvive ==
  damage = NoDamage /\ parsed # None =>
    \A pcm \in Streams :
      FramesOf(pcm).obus = written =>
        LET substreams == ForLayout(pcm.layout).substreams
            Of(i)   == OfSubstream(Result.obus, i - 1)
            Unit(f) == [i \in DOMAIN substreams |-> Of(i)[f]]
        IN  /\ Len(substreams) = SingleLayerSubstreamCounts[pcm.layout][1]
            /\ FlattenSeq([f \in DOMAIN Of(1) |-> PlayedUnit(pcm, substreams, Unit(f))])
                 = pcm.interleaved

\* A file has the findings, each as often, that its model had before it was
\* written, and that the DescriptorSet had that it was written from: the two
\* validators bind references and look for duplicates in orders of their own,
\* one of them before the writer has sorted.
FindingsAgree ==
  damage = NoDamage /\ parsed # None =>
    LET found == SequenceFindings(Result.obus)
    IN  /\ SameFindings(SequenceFindings(written), found)
        /\ \A set \in Sets :
             WriteDescriptors(set) = written => SameFindings(SetFindings(set), found)

=============================================================================
