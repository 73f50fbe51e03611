---------------------------- MODULE AudioFrames -----------------------------
(***************************************************************************)
(* Audio Frames on the wire (obu/audio_frame.rs), the plan that divides a  *)
(* stream of LPCM samples into frames, and the packing of its channels     *)
(* into substreams (packing.rs).                                           *)
(*   plan    [err, frame_count, num_samples_per_frame, trim_at_end]        *)
(*   pcm     [layout, channels, num_samples_per_frame, bytes_per_sample,   *)
(*            interleaved]: what an application has to write               *)
(* Samples, channels and frames count from zero, substreams from one.      *)
(* A name with a suffix after an underscore is a faulty form of the        *)
(* definition below it; no specification uses it.                          *)
(***************************************************************************)
EXTENDS ObuFraming

CONSTANT WordLimit  \* one more than what a u64 holds

ASSUME WordAssumption == WordLimit \in Nat \ {0}

ExplicitFrameType == 5
MaxImplicitSubstreamId == 17

\* obu_type_for
ObuTypeFor(substream_id) ==
  IF substream_id > MaxImplicitSubstreamId THEN ExplicitFrameType ELSE 6 + substream_id

\* substream_id_for: no member when the id is in the payload.
SubstreamIdFor(type) == When(type \in 6 .. 23, type - 6)

\* The type decides whether an id comes before the frame.
ReadAudioFrame(r, header) ==
  LET type     == header.obu_type.raw
      implicit == SubstreamIdFor(type)
      Frame(h) == [substream_id |-> h[1], payload |-> h[2]]
  IN  IF implicit # None
        THEN Built(r, Read([r EXCEPT !.out = implicit], <<Rest>>), Frame)
      ELSE IF type # ExplicitFrameType THEN Failed(r, "NotAnAudioFrame")
      ELSE ReadAs(r, <<Uleb, Rest>>, Frame)

PutAudioFrame(header, frame) ==
  LET type     == header.obu_type.raw
      implicit == SubstreamIdFor(type)
  IN  Refuse(implicit # None /\ implicit # Some(frame.substream_id), "SubstreamIdMismatch")
      \o Refuse(implicit = None /\ type # ExplicitFrameType, "NotAnAudioFrame")
      \o (IF implicit = None THEN PutUleb(frame.substream_id) ELSE <<>>)
      \o PutSpan(frame.payload)

----------------------------------------------------------------------------
(* The frame plan                                                          *)

FrameCount(total, per_frame) ==
  (total \div per_frame) + (IF total % per_frame = 0 THEN 0 ELSE 1)

\* The last frame trims what the frames hold beyond the total.
PlanOf(count, total, per_frame) ==
  IF count * per_frame >= WordLimit THEN Fails("FramePlanOverflow")
  ELSE [err |-> Ok, frame_count |-> count, num_samples_per_frame |-> per_frame,
        trim_at_end |-> count * per_frame - total]

\* plan_frames
PlanFrames(total, per_frame) ==
  IF per_frame = 0 THEN Fails("ZeroSamplesPerFrame")
  ELSE PlanOf(FrameCount(total, per_frame), total, per_frame)

\* Every frame trims its end.
TrimmingFor_Every(plan, index) == When(plan.trim_at_end > 0, <<plan.trim_at_end, 0>>)

\* The trim of a frame, which counts from zero: <<at_end, at_start>>.
TrimmingFor(plan, index) ==
  When(index + 1 = plan.frame_count /\ plan.trim_at_end > 0, <<plan.trim_at_end, 0>>)

----------------------------------------------------------------------------
(* Packing                                                                 *)

\* SubstreamPlan::for_layout: the channels of each substream, coupled ones
\* first.  The layouts are positions in LoudspeakerLayout.
LayoutPlans ==
  [layout \in {0, 1, 2, 9} |->
     CASE layout = 0 -> <<<<0>>>>
       [] layout \in {1, 9} -> <<<<0, 1>>>>
       [] layout = 2 -> <<<<0, 1>>, <<4, 5>>, <<2>>, <<3>>>>]

ForLayout(layout) ==
  IF layout \in DOMAIN LayoutPlans THEN [err |-> Ok, substreams |-> LayoutPlans[layout]]
  ELSE Fails("UnsupportedLayout")

ChannelCount(substreams) == Len(FlattenSeq(substreams))

\* single_layer_substream_counts: <<substreams, coupled ones>> that an element
\* of one layer declares, coupled ones first.
SingleLayerSubstreamCounts ==
  LET counts == <<<<1, 0>>, <<1, 1>>, <<4, 2>>, <<5, 3>>, <<6, 4>>, <<5, 3>>, <<6, 4>>, <<7, 5>>,
                  <<4, 2>>, <<1, 1>>>>
  IN  [layout \in 0 .. 9 |-> counts[layout + 1]]

\* The bytes of a channel's sample, both counted from zero.
SampleBytes(interleaved, width, bytes_per_sample, sample, channel) ==
  LET start == sample * width * bytes_per_sample + channel * bytes_per_sample
  IN  SubSeq(interleaved, start + 1, start + bytes_per_sample)

\* Sample by sample, and for each sample channel by channel.
PackOne(channels, interleaved, width, bytes_per_sample) ==
  LET samples == Len(interleaved) \div (width * bytes_per_sample)
  IN  FlattenSeq([k \in 1 .. samples * Len(channels) |->
        SampleBytes(interleaved, width, bytes_per_sample, (k - 1) \div Len(channels),
                    channels[((k - 1) % Len(channels)) + 1])])

\* pack_channels_to_substreams
PackChannels(substreams, interleaved, channel_count, bytes_per_sample) ==
  IF \/ channel_count # ChannelCount(substreams) \/ channel_count = 0 \/ bytes_per_sample = 0
     \/ Len(interleaved) % (channel_count * bytes_per_sample) # 0
    THEN Fails("ChannelCountMismatch")
  ELSE [err |-> Ok,
        packed |-> [i \in DOMAIN substreams |->
                      PackOne(substreams[i], interleaved, channel_count, bytes_per_sample)]]

----------------------------------------------------------------------------
(* An application that writes a stream of samples                          *)

FrameBytes(pcm) == pcm.num_samples_per_frame * pcm.channels * pcm.bytes_per_sample

\* The samples of a frame, padded with silence.
Chunk(pcm, index) ==
  [i \in 1 .. FrameBytes(pcm) |->
     LET at == index * FrameBytes(pcm) + i
     IN  IF at > Len(pcm.interleaved) THEN 0 ELSE pcm.interleaved[at]]

FrameObu(id, trim, bytes) ==
  [kind |-> "audio_frame", trailing |-> <<>>,
   header |-> [obu_type |-> Enum(DefinedTypes, ObuTypeFor(id)), redundant |-> FALSE,
               type_specific |-> Trimming(trim), extension |-> None],
   payload |-> [substream_id |-> id, payload |-> bytes]]

\* One OBU for each substream of the frame.
UnitObus(trim, packed) == [i \in DOMAIN packed |-> FrameObu(i - 1, trim, packed[i])]

PlannedObus(pcm, substreams, plan) ==
  LET Packed(index) ==
        PackChannels(substreams, Chunk(pcm, index), pcm.channels, pcm.bytes_per_sample)
  IN  IF plan.err # Ok THEN plan
      ELSE IF plan.frame_count > 0 /\ Packed(0).err # Ok THEN Packed(0)
      ELSE [err |-> Ok,
            obus |-> FlattenSeq([k \in 1 .. plan.frame_count |->
                       UnitObus(TrimmingFor(plan, k - 1), Packed(k - 1).packed)])]

\* The OBUs of a stream of samples, or why there are none.
FramesOf(pcm) ==
  LET layout == ForLayout(pcm.layout)
      total  == Len(pcm.interleaved) \div (pcm.channels * pcm.bytes_per_sample)
  IN  IF layout.err # Ok THEN layout
      ELSE PlannedObus(pcm, layout.substreams, PlanFrames(total, pcm.num_samples_per_frame))

=============================================================================
