---------------------------- MODULE AudioElements ---------------------------
(***************************************************************************)
(* The Audio Element payload (audio_element.rs, model/layout.rs).          *)
(*   element  [audio_element_id, reserved, type, codec_config_id,          *)
(*             substream_ids, params, trailing]                            *)
(*   type     [value, kind, body]: a scalable layout [reserved, layers],   *)
(*             an ambisonics configuration, or the raw bytes of a type     *)
(*             this version does not define                                *)
(*   layer    [layout, expanded, output_gain, recon_gain, reserved,        *)
(*             counts]                                                     *)
(*   ambisonics [mode, counts, entries]                                    *)
(*   param    [type, definition, defaults, bytes]                          *)
(***************************************************************************)
EXTENDS ParameterBlocks

ChannelBased == 0
SceneBased == 1

\* The loudspeaker layouts and the expanded ones that have a name; 15 says an
\* expanded layout follows.
LoudspeakerLayouts == 0 .. 9
ExpandedEscape == 15
ExpandedLayouts == 0 .. 12

ParamDemixing == 1
ParamReconGain == 2

----------------------------------------------------------------------------
(* Parameters                                                              *)

ReadTypedParam(r) ==
  CASE LastRead(r) = ParamDemixing ->
         Read(ReadParamDefinition(r), <<Bits(3), Bits(5), Bits(4), Bits(4)>>)
    [] LastRead(r) = ParamReconGain -> ReadParamDefinition(r)
    [] OTHER                        -> ReadSized(r)

ReadAudioElementParam(r) ==
  LET Decoded(h) == h[1] \in {ParamDemixing, ParamReconGain}
  IN  Built(r, AndThen(Read(Fresh(r), <<Uleb>>), ReadTypedParam), LAMBDA h :
            [type       |-> h[1],
             definition |-> When(Decoded(h), h[2]),
             defaults   |-> SubSeq(h, 3, Len(h)),
             bytes      |-> IF Decoded(h) THEN <<>> ELSE h[2]])

\* An Extension of type 1 or 2 would read back as the typed parameter.
PutAudioElementParam(p) ==
  Refuse(p.definition = None /\ p.type \in {ParamDemixing, ParamReconGain},
         "ReservedAliasesDefinedValue")
  \o PutUleb(p.type)
  \o (IF p.definition = None THEN PutUleb(Len(p.bytes)) \o PutSpan(p.bytes)
      ELSE PutParamDefinition(p.definition[1])
           \o (IF p.type # ParamDemixing THEN <<>>
               ELSE Put(p.defaults[1], 3) \o Put(p.defaults[2], 5)
                    \o Put(p.defaults[3], 4) \o Put(p.defaults[4], 4)))

----------------------------------------------------------------------------
(* Channel-based elements                                                  *)

ReadOutputGain(r) ==
  IF r.out[2] = 0 THEN Yield(r, None)
  ELSE ReadAs(r, <<Bits(6), Bits(2), Signed(16)>>, LAMBDA h :
              Some([flags |-> h[1], reserved |-> h[2], gain |-> h[3]]))

ReadExpanded(r) ==
  IF r.out[1] # ExpandedEscape THEN Yield(r, None)
  ELSE ReadAs(r, <<Bits(8)>>, LAMBDA h : Some(Enum(ExpandedLayouts, h[1])))

ReadLayer(r) ==
  Built(r, AndThen(AndThen(Read(Fresh(r), <<Bits(4), Bits(1), Bits(1), Bits(2), Bits(8), Bits(8)>>),
                           ReadOutputGain), ReadExpanded),
        LAMBDA h : [layout      |-> Enum(LoudspeakerLayouts \cup {ExpandedEscape}, h[1]),
                    expanded    |-> h[8],
                    output_gain |-> h[7],
                    recon_gain  |-> h[3] = 1,
                    reserved    |-> h[4],
                    counts      |-> <<h[5], h[6]>>])

\* The expanded byte goes with the Expanded variant, whatever value a
\* Reserved layout holds.
PutLayer(layer) ==
  LET PutGain(g) == Put(g.flags, 6) \o Put(g.reserved, 2) \o PutSigned(g.gain, 16)
      PutExpanded(e) == Put(e.raw, 8)
  IN  Put(layer.layout.raw, 4) \o Put(Len(layer.output_gain), 1)
      \o Put(IF layer.recon_gain THEN 1 ELSE 0, 1) \o Put(layer.reserved, 2)
      \o Put(layer.counts[1], 8) \o Put(layer.counts[2], 8)
      \o PutEach(layer.output_gain, PutGain)
      \o PutEach(layer.expanded, PutExpanded)

ReadScalableLayout(r) ==
  Built(r, AndThen(Read(Fresh(r), <<Bits(3), Bits(5)>>), LAMBDA c :
             IF c.out[1] > BytesRemaining(c) THEN Failed(c, "UnexpectedEndOfInput")
             ELSE ReadMany(Yield(c, c.out[1]), ReadLayer)),
        LAMBDA h : [reserved |-> h[2], layers |-> h[3]])

PutScalableLayout(config) ==
  Put(Len(config.layers), 3) \o Put(config.reserved, 5) \o PutEach(config.layers, PutLayer)

----------------------------------------------------------------------------
(* Scene-based elements                                                    *)

\* How many matrix entries a projection declares.
ProjectionEntries(counts) == (counts[2] + counts[3]) * counts[1]

\* Mono: a byte for each channel, in one span.
ReadChannelMapping(r) ==
  Built(r, AndThen(Read(Fresh(r), <<Bits(8), Bits(8)>>), LAMBDA c :
             Read(c, <<Span(c.out[1])>>)),
        LAMBDA h : <<SubSeq(h, 1, 2), h[3]>>)

\* Projection: a matrix of 16-bit entries.
ReadMatrixEntries(r, entries) ==
  IF 2 * entries > BytesRemaining(r) THEN Failed(r, "UnexpectedEndOfInput")
  ELSE Read(r, [i \in 1 .. entries |-> Signed(16)])

ReadDemixingMatrix(r) ==
  Built(r, AndThen(Read(Fresh(r), <<Bits(8), Bits(8), Bits(8)>>), LAMBDA c :
             ReadMatrixEntries(c, ProjectionEntries(c.out))),
        LAMBDA h : <<SubSeq(h, 1, 3), SubSeq(h, 4, Len(h))>>)

\* A reserved mode reads nothing further.
ReadAmbisonicsBody(r) ==
  CASE LastRead(r) = 0 -> ReadChannelMapping(r)
    [] LastRead(r) = 1 -> ReadDemixingMatrix(r)
    [] OTHER           -> Yield(r, <<<<>>, <<>>>>)

ReadAmbisonics(r) ==
  Built(r, AndThen(Read(Fresh(r), <<Uleb>>), ReadAmbisonicsBody), LAMBDA h :
        [mode |-> Enum({0, 1}, h[1]), counts |-> h[2][1], entries |-> h[2][2]])

PutAmbisonics(config) ==
  LET mode     == config.mode
      declared == IF mode.reserved THEN 0
                  ELSE IF mode.raw = 0 THEN config.counts[1]
                  ELSE ProjectionEntries(config.counts)
      PutCount(n) == Put(n, 8)
      PutEntry(n) == PutSigned(n, 16)
  IN  Refuse(Aliases({0, 1}, mode), "ReservedAliasesDefinedValue")
      \o Refuse(~ mode.reserved /\ Len(config.entries) # declared, "GatedFieldMismatch")
      \o PutUleb(mode.raw)
      \o (IF mode.reserved THEN <<>>
          ELSE PutEach(config.counts, PutCount)
               \o (IF mode.raw = 0 THEN PutSpan(config.entries)
                   ELSE PutEach(config.entries, PutEntry)))

----------------------------------------------------------------------------
(* The payload                                                             *)

ReadElementType(r, value) ==
  CASE value = ChannelBased ->
         Built(r, ReadScalableLayout(Fresh(r)), LAMBDA h :
               [value |-> value, kind |-> "channel_based", body |-> h[1]])
    [] value = SceneBased ->
         Built(r, ReadAmbisonics(Fresh(r)), LAMBDA h :
               [value |-> value, kind |-> "scene_based", body |-> h[1]])
    [] OTHER ->
         ReadAs(r, <<Rest>>, LAMBDA h : [value |-> value, kind |-> "reserved", body |-> h[1]])

ReadSubstreamIds(r) == ReadMany(ReadBoundedCount(r), LAMBDA c : Read(c, <<Uleb>>))

ReadParams(r) == ReadMany(ReadBoundedCount(r), ReadAudioElementParam)

ReadAudioElement(r) ==
  Built(r, AndThen(ReadParams(ReadSubstreamIds(Read(Fresh(r), <<Uleb, Bits(3), Bits(5), Uleb>>))),
                   LAMBDA c : Read(ReadElementType(c, c.out[2]), <<Rest>>)),
        LAMBDA h : [audio_element_id |-> h[1], type |-> h[7], reserved |-> h[3],
                    codec_config_id |-> h[4], substream_ids |-> h[5], params |-> h[6],
                    trailing |-> h[8]])

PutElementType(type) ==
  CASE type.kind = "channel_based" -> PutScalableLayout(type.body)
    [] type.kind = "scene_based"   -> PutAmbisonics(type.body)
    [] type.kind = "reserved"      -> PutSpan(type.body)

PutAudioElement(e) ==
  Refuse(e.type.kind = "reserved" /\ e.type.value \in {ChannelBased, SceneBased},
         "ReservedAliasesDefinedValue")
  \o PutUleb(e.audio_element_id) \o Put(e.type.value, 3) \o Put(e.reserved, 5)
  \o PutUleb(e.codec_config_id)
  \o PutUleb(Len(e.substream_ids)) \o PutEach(e.substream_ids, PutUleb)
  \o PutUleb(Len(e.params)) \o PutEach(e.params, PutAudioElementParam)
  \o PutElementType(e.type)
  \o PutSpan(e.trailing)

\* The definitions an Audio Element publishes: those whose bytes are decoded,
\* a Recon Gain with the gates of the element's layers.
PublishedByElement(e) ==
  LET gates == IF e.type.kind # "channel_based" THEN <<>>
               ELSE [i \in DOMAIN e.type.body.layers |-> e.type.body.layers[i].recon_gain]
      Entry(p) == IF p.definition = None THEN <<>>
                  ELSE <<[definition |-> p.definition[1],
                          context |-> IF p.type = ParamDemixing THEN DemixingContext
                                      ELSE ReconGainContext(gates)]>>
  IN  PutEach(e.params, Entry)

ObserveAudioElement(registry, e) == registry \o PublishedByElement(e)

=============================================================================
