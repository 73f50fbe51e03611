---------------------------- MODULE CodecConfigs ----------------------------
(***************************************************************************)
(* The Codec Config payload (codec_config.rs).                             *)
(*   config   [codec_config_id, codec_id, num_samples_per_frame,           *)
(*             audio_roll_distance, decoder_config, trailing]              *)
(*   decoder  [kind, fields], kind the variant; the fields of a typed one  *)
(*             are in the order of FixedSyntax, those of "raw" are bytes   *)
(* A codec_id is the tuple of its four bytes, and so is every 32-bit field *)
(* but the sample rates given to a constructor, which are numbers.         *)
(*                                                                         *)
(* A name with a suffix after an underscore is a faulty form of the        *)
(* definition below it; no specification uses it.                          *)
(***************************************************************************)
EXTENDS ParameterBlocks

CodecId == [lpcm |-> <<105, 112, 99, 109>>, opus |-> <<79, 112, 117, 115>>,
            flac |-> <<102, 76, 97, 67>>, aac |-> <<109, 112, 52, 97>>]

SampleFormatFlags == {0, 1}

\* One step per field.  total_samples_in_stream has 36 bits: four, and a tuple.
FixedSyntax ==
  [lpcm |-> <<Bits(8), Bits(8), Span(4)>>,
   opus |-> <<Bits(8), Bits(8), Bits(16), Span(4), Signed(16), Bits(8)>>,
   flac |-> <<Bits(1), Bits(7), Bits(24), Bits(16), Bits(16), Bits(24), Bits(24),
              Bits(20), Bits(3), Bits(5), Bits(4), Span(4), Span(16)>>,
   aac  |-> <<Bits(8), Bits(8), Bits(8), Bits(6), Bits(1), Bits(1), Bits(24), Span(4),
              Span(4), Bits(8), Bits(8), Bits(5), Bits(4), Bits(4), Bits(1), Bits(1), Bits(1)>>]

\* The bytes each of them takes.
FixedBytes == [lpcm |-> 6, opus |-> 11, flac |-> 38, aac |-> 19]

Codecs == DOMAIN FixedBytes

\* The parts of the AAC-LC descriptor that are fields of the model: its
\* tags, its lengths and the reserved bit are not among them.
AacFields == <<3, 4, 5, 7, 8, 9, 12, 13, 14, 15, 16, 17>>

----------------------------------------------------------------------------
(* Reading and writing                                                     *)

IsAacLcDescriptor(d) ==
  /\ d[1] = 4 /\ d[2] = 17
  /\ d[4] % 2 = 1
  /\ d[16] = 5 /\ d[17] = 2

\* The variant a decoder_config is read as: typed when its codec is known and
\* its bytes are complete, else the bytes.
DecoderKind(codec_id, bytes) ==
  LET complete == {k \in Codecs : CodecId[k] = codec_id /\ Len(bytes) >= FixedBytes[k]}
  IN  IF complete = {} \/ (complete = {"aac"} /\ ~ IsAacLcDescriptor(bytes)) THEN "raw"
      ELSE CHOOSE k \in complete : TRUE

\* Everything left is the decoder_config; what a typed one does not claim is
\* the trailing.
ReadDecoderConfig(r, codec_id) ==
  LET bytes == SubSeq(r.bytes, BytePosition(r) + 1, Len(r.bytes))
      kind  == DecoderKind(codec_id, bytes)
      Decoder(h) ==
        [kind   |-> kind,
         fields |-> CASE kind = "raw"  -> h[1]
                      [] kind = "lpcm" -> <<Enum(SampleFormatFlags, h[1]), h[2], h[3]>>
                      [] kind = "aac"  -> [i \in 1 .. Len(AacFields) |-> h[AacFields[i]]]
                      [] OTHER         -> h]
  IN  ReadAs(r, IF kind = "raw" THEN <<Rest>> ELSE FixedSyntax[kind], Decoder)

ReadCodecConfig(r) ==
  Built(r, AndThen(Read(Fresh(r), <<Uleb, Span(4), Uleb, Signed(16)>>), LAMBDA c :
             Read(ReadDecoderConfig(c, c.out[2]), <<Rest>>)),
        LAMBDA h : [codec_config_id |-> h[1], codec_id |-> h[2], num_samples_per_frame |-> h[3],
                    audio_roll_distance |-> h[4], decoder_config |-> h[5], trailing |-> h[6]])

PutDecoderConfig(d) ==
  LET PutField(step, v) ==
        CASE step.kind = "bits"   -> Put(v, step.n)
          [] step.kind = "signed" -> PutSigned(v, step.n)
          [] step.kind = "span"   -> PutSpan(v)
      syntax == FixedSyntax[d.kind]
      values == CASE d.kind = "lpcm" -> [d.fields EXCEPT ![1] = d.fields[1].raw]
                  [] d.kind = "aac"  ->
                       LET f == d.fields
                       IN  <<4, 17, f[1], f[2], f[3], 1, f[4], f[5], f[6], 5, 2>>
                           \o SubSeq(f, 7, 12)
                  [] OTHER           -> d.fields
      PutNth(i) == PutField(syntax[i], values[i])
  IN  IF d.kind = "raw" THEN PutSpan(d.fields)
      ELSE PutEach([i \in DOMAIN syntax |-> i], PutNth)

\* Nothing is checked: a typed decoder_config of another codec_id is written.
PutCodecConfig(v) ==
  PutUleb(v.codec_config_id) \o PutSpan(v.codec_id) \o PutUleb(v.num_samples_per_frame)
  \o PutSigned(v.audio_roll_distance, 16)
  \o PutDecoderConfig(v.decoder_config)
  \o PutSpan(v.trailing)

----------------------------------------------------------------------------
(* The encoder path                                                        *)

Unsigned32(v) == [i \in 1 .. 4 |-> (v \div 256 ^ (4 - i)) % 256]

OpusSampleRate == 48000
AacSamplesPerFrame == 1024
AacMaxBufferSize == 16777215
AacSampleRates == <<96000, 88200, 64000, 48000, 44100, 32000, 24000, 22050, 16000, 12000,
                    11025, 8000, 7350>>
FlacMaxSampleRate == 655350
Zero4 == <<0, 0, 0, 0>>
Zero16 == Zero4 \o Zero4 \o Zero4 \o Zero4

\* The frames a decoder has to roll back over, for a frame size other than 0.
RequiredOpusRoll(samples) ==
  -((3840 \div samples) + (IF 3840 % samples = 0 THEN 0 ELSE 1))

RequiredAudioRoll(kind) == IF kind = "aac" THEN -1 ELSE 0

MadeConfig(id, kind, samples, roll, fields) ==
  [err |-> Ok,
   config |-> [codec_config_id |-> id, codec_id |-> CodecId[kind],
               num_samples_per_frame |-> samples, audio_roll_distance |-> roll,
               decoder_config |-> [kind |-> kind, fields |-> fields], trailing |-> <<>>]]

NotMade(kind) == [err |-> kind]

\* CodecConfig::lpcm
MakeLpcm(id, samples, flags, size, rate) ==
  MadeConfig(id, "lpcm", samples, RequiredAudioRoll("lpcm"), <<flags, size, Unsigned32(rate)>>)

\* CodecConfig::flac
MakeFlac(id, samples, rate, bits) ==
  IF rate \notin 1 .. FlacMaxSampleRate THEN NotMade("SampleRateNotSupportedByCodec")
  ELSE IF samples < 16 \/ samples > 65535 THEN NotMade("SamplesPerFrameNotSupportedByCodec")
  ELSE IF bits \notin 4 .. 32 THEN NotMade("BitsPerSampleNotSupportedByCodec")
  ELSE MadeConfig(id, "flac", samples, RequiredAudioRoll("flac"),
                  <<1, 0, 34, samples, samples, 0, 0, rate, 1, bits - 1, 0, Zero4, Zero16>>)

\* CodecConfig::opus
MakeOpus(id, samples, rate, pre_skip) ==
  IF rate # OpusSampleRate THEN NotMade("SampleRateNotSupportedByCodec")
  ELSE IF samples = 0 THEN NotMade("ZeroSamplesPerFrame")
  ELSE MadeConfig(id, "opus", samples, RequiredOpusRoll(samples),
                  <<1, 2, pre_skip, Unsigned32(rate), 0, 0>>)

\* The table is indexed from 1.
MakeAacLc_OneBased(id, rate) ==
  LET indices == {i \in DOMAIN AacSampleRates : AacSampleRates[i] = rate} IN
  IF indices = {} THEN NotMade("SampleRateNotSupportedByCodec")
  ELSE MadeConfig(id, "aac", AacSamplesPerFrame, RequiredAudioRoll("aac"),
                  <<64, 5, 0, 0, Zero4, Zero4, 2, CHOOSE i \in indices : TRUE, 2, 0, 0, 0>>)

\* CodecConfig::aac_lc
MakeAacLc(id, rate) ==
  LET indices == {i \in DOMAIN AacSampleRates : AacSampleRates[i] = rate} IN
  IF indices = {} THEN NotMade("SampleRateNotSupportedByCodec")
  ELSE MadeConfig(id, "aac", AacSamplesPerFrame, RequiredAudioRoll("aac"),
                  <<64, 5, 0, 0, Zero4, Zero4, 2, (CHOOSE i \in indices : TRUE) - 1, 2, 0, 0, 0>>)

----------------------------------------------------------------------------
(* validate                                                                *)

MaxSamplesPerFrame == 96000
ValidSampleRates == {16000, 32000, 44100, 48000, 96000}

Finding(condition, field) == IF condition THEN {field} ELSE {}

LpcmFindings(f) ==
  Finding(f[1].reserved, "sample_format_flags")
  \cup Finding(f[2] \notin {16, 24, 32}, "sample_size")
  \cup Finding(\A rate \in ValidSampleRates : f[3] # Unsigned32(rate), "sample_rate")

FlacFindings(f, samples) ==
  Finding(f[1] # 1, "last_metadata_block")
  \cup Finding(f[2] # 0, "metadata_block_type")
  \cup Finding(f[3] # 34, "metadata_data_block_length")
  \cup Finding(f[4] # samples \/ f[4] < 16, "minimum_block_size")
  \cup Finding(f[5] # samples \/ f[5] < 16, "maximum_block_size")
  \cup Finding(f[6] # 0, "minimum_frame_size")
  \cup Finding(f[7] # 0, "maximum_frame_size")
  \cup Finding(f[8] \notin 1 .. FlacMaxSampleRate, "sample_rate")
  \cup Finding(f[9] # 1, "number_of_channels")
  \cup Finding(f[10] \notin 3 .. 31, "bits_per_sample")
  \* A total_samples_in_stream of more than 36 bits has no form here.
  \cup Finding(f[13] # Zero16, "md5_signature")

OpusFindings(f) ==
  Finding(f[1] \notin 1 .. 15, "version")
  \cup Finding(f[2] # 2, "output_channel_count")
  \cup Finding(f[3] = 0, "pre_skip")
  \cup Finding(f[4] # Unsigned32(OpusSampleRate), "input_sample_rate")
  \cup Finding(f[5] # 0, "output_gain")
  \cup Finding(f[6] # 0, "mapping_family")

AacLcFindings(f, samples) ==
  Finding(f[1] # 64, "object_type_indication")
  \cup Finding(f[2] # 5, "stream_type")
  \cup Finding(f[3] = 1, "upstream")
  \cup Finding(f[4] > AacMaxBufferSize, "buffer_size_db")
  \cup Finding(f[7] # 2, "audio_object_type")
  \cup Finding(f[8] >= Len(AacSampleRates), "sampling_frequency_index")
  \cup Finding(f[9] # 2, "channel_configuration")
  \cup Finding(f[10] = 1, "frame_length_flag")
  \cup Finding(f[11] = 1, "depends_on_core_coder")
  \cup Finding(f[12] = 1, "extension_flag")
  \cup Finding(samples # AacSamplesPerFrame, "num_samples_per_frame")

\* The names of the fields CodecConfig::validate reports.
CodecFindings(v) ==
  LET kind    == v.decoder_config.kind
      fields  == v.decoder_config.fields
      samples == v.num_samples_per_frame
      roll    == v.audio_roll_distance
  IN  Finding(\A k \in Codecs : v.codec_id # CodecId[k], "codec_id")
      \cup Finding(samples \notin 1 .. MaxSamplesPerFrame, "num_samples_per_frame")
      \cup (CASE kind = "lpcm" -> LpcmFindings(fields)
              [] kind = "flac" -> FlacFindings(fields, samples)
              [] kind = "opus" -> OpusFindings(fields)
              [] kind = "aac"  -> AacLcFindings(fields, samples)
              [] OTHER         -> {})
      \* No roll can be derived for Opus frames of no samples.
      \cup Finding(IF kind = "opus" THEN samples # 0 /\ roll # RequiredOpusRoll(samples)
                   ELSE roll # RequiredAudioRoll(kind), "audio_roll_distance")

=============================================================================
