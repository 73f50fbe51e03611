---------------------------- MODULE MCWireFormat ----------------------------
(***************************************************************************)
(* Sample OBUs: every variant of every payload, and for every gate, count  *)
(* and enumeration of the syntax values on both sides.                     *)
(***************************************************************************)
EXTENDS WireFormat

Header(type) ==
  [obu_type |-> Enum(DefinedTypes, type), redundant |-> FALSE, extension |-> None,
   type_specific |-> IF type \in AudioFrameTypes THEN Trimming(None) ELSE ReservedBit]

MakeObu(kind, type, payload) ==
  [kind |-> kind, header |-> Header(type), payload |-> payload, trailing |-> <<>>]

\* Two bytes that no parser claims.
Spare(obu) == [obu EXCEPT !.trailing = <<7, 130>>]

----------------------------------------------------------------------------
(* Definitions                                                             *)

Constant(id) == [parameter_id |-> id, parameter_rate |-> 300, reserved |-> 0,
                 duration_fields |-> Some([duration |-> 5, constant |-> 2, subblocks |-> <<>>])]
Single(id) == [parameter_id |-> id, parameter_rate |-> 1, reserved |-> 9,
               duration_fields |-> Some([duration |-> 4, constant |-> 4, subblocks |-> <<>>])]
Listed(id) == [parameter_id |-> id, parameter_rate |-> 1, reserved |-> 0,
               duration_fields |-> Some([duration |-> 3, constant |-> 0, subblocks |-> <<1, 2>>])]
Own(id) == [parameter_id |-> id, parameter_rate |-> 1, reserved |-> 127, duration_fields |-> None]

----------------------------------------------------------------------------
(* Codec Configs                                                           *)

MCMade ==
  {made.config : made \in {m \in
     {MakeLpcm(3, samples, Enum(SampleFormatFlags, 1), 16, 48000) : samples \in {0, 960}}
     \cup {MakeFlac(200, samples, rate, bits) :
             samples \in {15, 16, 65535, 65536}, rate \in {0, 655350}, bits \in {3, 4, 32}}
     \cup {MakeOpus(1, samples, rate, pre_skip) :
             samples \in {0, 1, 960, 1000, 96001}, rate \in {44100, 48000}, pre_skip \in {0, 312}}
     \cup {MakeAacLc(2, rate) : rate \in {7350, 44100, 44000}} : m.err = Ok}}

RawCodec(codec_id, bytes) ==
  [codec_config_id |-> 300, codec_id |-> codec_id, num_samples_per_frame |-> 20000,
   audio_roll_distance |-> -3, decoder_config |-> [kind |-> "raw", fields |-> bytes],
   trailing |-> <<>>]

LpcmCodec(flags) ==
  [codec_config_id |-> 1, codec_id |-> CodecId.lpcm, num_samples_per_frame |-> 8,
   audio_roll_distance |-> 2, trailing |-> <<255>>,
   decoder_config |-> [kind |-> "lpcm", fields |-> <<Enum(SampleFormatFlags, flags), 17, Zero4>>]]

\* An AAC descriptor of the right length whose reserved bit is clear.
BareDescriptor == <<4, 17, 64, 20>> \o [i \in 1 .. 11 |-> 0] \o <<5, 2, 1, 2>>

CodecObus ==
  {MakeObu("codec_config", 0, v) :
     v \in {RawCodec(<<1, 2, 3, 4>>, <<9>>), RawCodec(CodecId.aac, BareDescriptor),
            LpcmCodec(0), LpcmCodec(2)}}

\* Six bytes would be an LPCM decoder_config.
ShortCodec == MakeObu("codec_config", 0, RawCodec(CodecId.lpcm, <<1, 2, 3, 4, 5>>))

----------------------------------------------------------------------------
(* Audio Elements                                                          *)

Layer(layout, expanded, gain, recon) ==
  [layout |-> Enum(LoudspeakerLayouts \cup {ExpandedEscape}, layout), expanded |-> expanded,
   output_gain |-> gain, recon_gain |-> recon, reserved |-> 1, counts |-> <<2, 1>>]

OutputGain == [flags |-> 33, reserved |-> 2, gain |-> -129]

Demixing(definition) ==
  [type |-> ParamDemixing, definition |-> Some(definition), defaults |-> <<5, 1, 15, 2>>,
   bytes |-> <<>>]
ReconGain(definition) ==
  [type |-> ParamReconGain, definition |-> Some(definition), defaults |-> <<>>, bytes |-> <<>>]
Extension(type, bytes) ==
  [type |-> type, definition |-> None, defaults |-> <<>>, bytes |-> bytes]

Element(type, params) ==
  [audio_element_id |-> 130, reserved |-> 0, type |-> type, codec_config_id |-> 1,
   substream_ids |-> <<18, 300>>, params |-> params, trailing |-> <<>>]

Channels(layers) ==
  [value |-> ChannelBased, kind |-> "channel_based", body |-> [reserved |-> 3, layers |-> layers]]
Scene(mode, counts, entries) ==
  [value |-> SceneBased, kind |-> "scene_based",
   body |-> [mode |-> Enum({0, 1}, mode), counts |-> counts, entries |-> entries]]
OtherType(value, bytes) == [value |-> value, kind |-> "reserved", body |-> bytes]

TwoLayers ==
  Channels(<<Layer(1, None, None, TRUE), Layer(2, None, Some(OutputGain), FALSE)>>)

Elements ==
  {Element(TwoLayers, <<Demixing(Single(5)), ReconGain(Single(6))>>),
   Element(TwoLayers, <<ReconGain(Own(6)), Demixing(Own(5)), Extension(3, <<1, 2>>)>>),
   Element(Channels(<<>>), <<ReconGain(Constant(6)), Demixing(Listed(5)), Extension(0, <<>>)>>),
   Element(Channels(<<Layer(15, Some(Enum(ExpandedLayouts, 12)), None, TRUE),
                      Layer(15, Some(Enum(ExpandedLayouts, 200)), None, FALSE),
                      Layer(14, None, None, FALSE)>>), <<>>),
   Element(Scene(0, <<4, 2>>, <<0, 1, 255, 0>>), <<>>),
   Element(Scene(0, <<4, 2>>, <<0, 1, 255>>), <<>>),
   Element(Scene(1, <<1, 1, 1>>, <<-1, 32767>>), <<>>),
   Element(Scene(1, <<2, 1, 1>>, <<-1, 32767>>), <<>>),
   Element(Scene(2, <<>>, <<>>), <<>>),
   Element(OtherType(2, <<1>>), <<>>),
   Element(OtherType(1, <<1>>), <<>>),
   Element(Channels(<<>>), <<Extension(1, <<1, 0, 128>>)>>)}

ElementObus == {MakeObu("audio_element", 1, v) : v \in Elements}

----------------------------------------------------------------------------
(* Mix Presentations                                                       *)

Loudness(peak, anchored, extension) ==
  [integrated |-> -5, digital_peak |-> 300, true_peak |-> peak, anchored |-> anchored,
   extension |-> extension]

Plain == Loudness(None, None, None)
Full == Loudness(Some(-1), Some(<<<<1, -2>>, <<9, 3>>>>), Some([bits |-> 12, bytes |-> <<4>>]))
Lossy == Loudness(None, None, Some([bits |-> 5, bytes |-> <<>>]))

Layout(type, sound_system, loudness) ==
  [type |-> Enum({SoundSystemLayout, BinauralLayout}, type), sound_system |-> sound_system,
   reserved |-> 1, loudness |-> loudness]

Stereo == Layout(2, Some(Enum(SoundSystems, 0)), Plain)

MixElement(labels, mode, extension, definition) ==
  [audio_element_id |-> 130, annotations |-> labels, mode |-> Enum(HeadphonesModes, mode),
   reserved |-> 5, extension |-> extension,
   element_mix_gain |-> [definition |-> definition, default_mix_gain |-> -256]]

SubMix(elements, definition, layouts) ==
  [elements |-> elements, layouts |-> layouts,
   output_mix_gain |-> [definition |-> definition, default_mix_gain |-> 1]]

Mix(languages, annotations, sub_mixes) ==
  [mix_presentation_id |-> 7, languages |-> languages, annotations |-> annotations,
   sub_mixes |-> sub_mixes, trailing |-> <<>>]

English == <<101, 110>>

Mixes ==
  {Mix(<<>>, <<>>, <<>>),
   Mix(<<English>>, <<<<>>>>,
       <<SubMix(<<MixElement(<<English>>, 1, <<3>>, Constant(5))>>, Own(6),
                <<Stereo, Layout(3, None, Full)>>)>>),
   Mix(<<>>, <<>>,
       <<SubMix(<<MixElement(<<>>, 3, <<>>, Own(5)), MixElement(<<>>, 0, <<>>, Listed(6))>>,
                Constant(8), <<Layout(0, None, Plain),
                               Layout(2, Some(Enum(SoundSystems, 14)), Plain)>>)>>),
   Mix(<<>>, <<>>, <<SubMix(<<>>, Constant(5), <<Layout(3, None, Lossy)>>)>>),
   Mix(<<English>>, <<English>>,
       <<SubMix(<<MixElement(<<>>, 0, <<>>, Single(5))>>, Single(6), <<Stereo>>)>>),
   Mix(<<<<1, 0>>>>, <<<<>>>>, <<>>), Mix(<<<<1, 2, 3, 4>>>>, <<<<>>>>, <<>>)}

MixObus == {MakeObu("mix_presentation", 2, v) : v \in Mixes}

----------------------------------------------------------------------------
(* Parameter Blocks                                                        *)

Data(kind, fields) == [kind |-> kind, fields |-> fields]
Step == Data("step", <<-7>>)
Bezier == Data("bezier", <<1, -1, 300, 200>>)
DMix == Data("demixing", <<4, 17>>)
Recon(layers) == Data("recon_gain", layers)
Selected == [flag |-> 2 ^ 11 + 2, gains |-> [i \in Gains |-> 10 * i]]

Untimed(data) == [duration |-> None, data |-> data]
Lasting(duration, data) == [duration |-> Some(duration), data |-> data]

Block(id, durations, subblocks) ==
  [parameter_id |-> id, duration_fields |-> durations, subblocks |-> subblocks]

Spans(duration, constant) == Some([duration |-> duration, constant |-> constant])

Blocks ==
  {Block(5, None, <<Untimed(Step), Untimed(Data("linear", <<1, 2>>)), Untimed(Bezier)>>),
   Block(5, None, <<Untimed(Step), Untimed(Step)>>),
   Block(5, None, <<Untimed(DMix)>>),
   Block(5, Spans(5, 2), <<Untimed(Bezier), Untimed(Step), Untimed(Step)>>),
   Block(5, Spans(5, 2), <<Untimed(Step), Untimed(Step)>>),
   Block(5, Spans(3, 0), <<Lasting(1, Step), Lasting(2, Bezier)>>),
   Block(5, Spans(4, 0), <<Lasting(1, Step), Lasting(2, Step)>>),
   Block(5, Spans(4, 4), <<Untimed(DMix)>>),
   Block(6, None, <<Untimed(Step), Untimed(Step)>>),
   Block(6, None, <<Untimed(Recon(<<Some(Selected), None>>))>>),
   Block(6, None, <<Untimed(Recon(<<Some(Selected), Some(Selected)>>))>>),
   Block(6, None, <<Untimed(Recon(<<None, None>>))>>),
   Block(6, None, <<Untimed(Recon(<<>>))>>),
   Block(6, Spans(300, 0), <<Lasting(300, Recon(<<Some(Selected), None>>))>>),
   Block(6, Spans(3, 3), <<Untimed(Step)>>)}

BlockObus == {MakeObu("parameter_block", 3, v) : v \in Blocks}

Ungoverned == MakeObu("ungoverned_block", 3, <<99, 1, 2>>)

----------------------------------------------------------------------------
(* The other OBUs                                                          *)

SequenceHeader(primary, additional) ==
  MakeObu("sequence_header", 31,
          [ia_code |-> <<105, 97, 109, 102>>, primary_profile |-> primary,
           additional_profile |-> additional, trailing |-> <<1>>])

Frame(id, bytes) ==
  MakeObu("audio_frame", ObuTypeFor(id), [substream_id |-> id, payload |-> bytes])

Delimiter == MakeObu("temporal_delimiter", 4, None)

Unknown(type, bytes) == MakeObu("unknown", type, bytes)

WithHeader(obu, field, value) == [obu EXCEPT !.header[field] = value]

\* Payloads around the length at which obu_size takes a second byte, and
\* around the largest an OBU may have.
SizeObus == {Unknown(24, [i \in 1 .. n |-> i % 256]) : n \in {0, 127, 128, 129, 130, 131}}

HeaderObus ==
  {WithHeader(Frame(18, <<1, 2>>), "type_specific", Trimming(Some(<<200, 3>>))),
   WithHeader(Frame(0, <<>>), "type_specific", Trimming(Some(<<0, 5>>))),
   WithHeader(Frame(17, <<1>>), "type_specific", ReservedBit),
   WithHeader(Frame(1, <<1>>), "extension", Some(<<>>)),
   WithHeader(SequenceHeader(1, 1), "redundant", TRUE),
   WithHeader(WithHeader(Spare(Delimiter), "extension", Some(<<1, 200>>)), "redundant", FALSE),
   WithHeader(Delimiter, "redundant", TRUE),
   WithHeader(Delimiter, "type_specific", Trimming(None)),
   WithHeader(Delimiter, "type_specific", Trimming(Some(<<1, 1>>))),
   WithHeader(Frame(3, <<1>>), "obu_type", Enum(DefinedTypes, 10)),
   WithHeader(Unknown(24, <<1>>), "obu_type", [raw |-> 0, reserved |-> TRUE]),
   WithHeader(Unknown(24, <<1>>), "obu_type", Enum(DefinedTypes, 32))}

OtherObus ==
  {SequenceHeader(0, 1), SequenceHeader(1, 0), Frame(17, <<5>>), Frame(18, <<>>),
   Frame(300, <<255>>), Delimiter}

Definers == {obu \in ElementObus \cup MixObus : Observe(<<>>, obu) # <<>>}

\* Streams of samples: whole frames, a short last one, less than a frame; of
\* one, two and six channels and of one and two bytes a sample; none where the
\* words or the layout do not hold it.
Samples(layout, channels, per_frame, width, count) ==
  [layout |-> layout, channels |-> channels, num_samples_per_frame |-> per_frame,
   bytes_per_sample |-> width, interleaved |-> [i \in 1 .. count * channels * width |-> i]]

MCStreams ==
  {pcm \in {Samples(0, 1, 2, 1, count) : count \in {1, 3, 4}}
           \cup {Samples(1, 2, 3, 2, 4), Samples(9, 2, 1, 1, 2), Samples(2, 6, 2, 1, 3),
                 Samples(2, 5, 2, 1, 3), Samples(3, 8, 2, 1, 3), Samples(0, 1, 0, 1, 3),
                 Samples(0, 1, 40, 1, 41)} :
     FramesOf(pcm).err = Ok}

----------------------------------------------------------------------------
(* Descriptor sets: out of order, with duplicates on both sides of what    *)
(* refers to them, with references to nothing, and with every finding of   *)
(* an Audio Element and of a Mix Presentation                              *)

SetOf(codec_ids, elements, mixes) ==
  [sequence_header |-> SequenceHeader(0, 1).payload,
   codec_configs |-> [i \in DOMAIN codec_ids |->
                        [LpcmCodec(2) EXCEPT !.codec_config_id = codec_ids[i]]],
   audio_elements |-> elements, mix_presentations |-> mixes]

Carrying(id, codec_id, type) ==
  [Element(type, <<>>) EXCEPT !.audio_element_id = id, !.codec_config_id = codec_id]

OneLayer == Channels(<<Layer(1, None, None, FALSE)>>)

Playing(id) == [MixElement(<<>>, 0, <<>>, Own(id)) EXCEPT !.audio_element_id = id]
Plays(ids, layouts) ==
  SubMix([i \in DOMAIN ids |-> Playing(ids[i])], Constant(8), layouts)

Unlabelled(sub_mixes) == Mix(<<>>, <<>>, sub_mixes)
Spoken(languages, labels) ==
  Mix(languages, [i \in 1 .. labels |-> <<>>], <<Plays(<<9>>, <<Stereo>>)>>)

Binaural == Layout(3, None, Loudness(None, Some(<<<<1, 0>>, <<1, 5>>, <<2, 0>>>>), None))

MCSets ==
  {SetOf(<<1>>, <<>>, <<>>),
   \* Which of two elements is scalable tells how many layouts a sub-mix needs.
   SetOf(<<2, 1, 2>>, <<Carrying(9, 2, TwoLayers), Carrying(9, 2, OneLayer)>>,
         <<Unlabelled(<<Plays(<<9>>, <<Stereo>>)>>)>>),
   SetOf(<<2>>, <<Carrying(9, 3, OneLayer), Carrying(5, 2, TwoLayers), Carrying(9, 2, TwoLayers)>>,
         <<Unlabelled(<<Plays(<<9>>, <<Stereo>>), Plays(<<9>>, <<Binaural>>)>>),
           Unlabelled(<<Plays(<<5>>, <<Stereo>>)>>)>>),
   SetOf(<<1>>, <<Carrying(9, 1, Scene(0, <<4, 2>>, <<0, 1, 255, 0>>)), Carrying(5, 1, Channels(<<>>))>>,
         <<Unlabelled(<<Plays(<<9, 5, 9, 7>>, <<Stereo, Binaural>>)>>), Unlabelled(<<>>)>>),
   \* A parameter_id is published by two elements and a sub-mix.
   SetOf(<<1>>, <<[Carrying(9, 1, OneLayer) EXCEPT !.params = <<Demixing(Own(5))>>],
                  [Carrying(5, 1, TwoLayers) EXCEPT !.params = <<ReconGain(Own(5)), Extension(3, <<5>>)>>]>>,
         <<Unlabelled(<<Plays(<<5>>, <<Stereo, Binaural>>)>>)>>),
   SetOf(<<1>>, <<[Carrying(9, 1, OneLayer) EXCEPT !.params = <<Extension(0, <<>>), Extension(3, <<>>),
                                                               Extension(4, <<>>)>>]>>,
         <<Spoken(<<English, <<69, 110>>, <<101>>>>, 2)>>)}

MCForeign == HeaderObus \cup BlockObus \cup {Ungoverned, SequenceHeader(0, 1)}

MCScripts ==
  {<<obu>> : obu \in {MakeObu("codec_config", 0, v) : v \in MCMade} \cup CodecObus
                     \cup ElementObus \cup MixObus \cup SizeObus \cup HeaderObus \cup OtherObus
                     \cup {ShortCodec}}
  \cup {<<Spare(obu)>> : obu \in CodecObus \cup OtherObus}
  \cup {<<Spare(definer), obu>> : definer \in Definers, obu \in BlockObus}
  \cup {<<Ungoverned, Spare(Delimiter), Frame(2, <<0, 0>>)>>}
  \cup {FramesOf(pcm).obus : pcm \in MCStreams}
  \cup {WriteDescriptors(set) : set \in MCSets}

\* One of every variant, and every block that was accepted.
MCDamageable ==
  {<<obu>> : obu \in ElementObus \cup MixObus \cup HeaderObus \cup CodecObus}
  \cup {<<MakeObu("codec_config", 0, made.config)>> :
          made \in {MakeOpus(1, 960, 48000, 312), MakeAacLc(2, 44100)}}
  \cup {<<Spare(definer), obu>> : definer \in Definers, obu \in BlockObus}
  \cup {<<Ungoverned, Spare(Delimiter), Frame(2, <<0, 0>>)>>}

----------------------------------------------------------------------------
(* Layouts whose Reserved variant holds a value with a name, or the escape *)

Aliased(raw) == [raw |-> raw, reserved |-> TRUE]

AliasScripts ==
  {<<MakeObu("audio_element", 1, Element(Channels(<<layer>>), <<>>))>> :
     layer \in {[Layer(1, None, None, FALSE) EXCEPT !.layout = Aliased(raw)] : raw \in {0, 9, 15}}
              \cup {Layer(15, Some(Aliased(12)), None, FALSE)}}

=============================================================================
