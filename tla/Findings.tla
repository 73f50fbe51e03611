------------------------------ MODULE Findings ------------------------------
(***************************************************************************)
(* What validate reports: of each payload by itself, of a DescriptorSet    *)
(* and of a ParsedSequence.  A finding is the name of its field and the id *)
(* or value it speaks of; findings are never raised, and reading and       *)
(* writing do not ask for them.  Those about profiles are in Profiles.     *)
(*   set  [sequence_header, codec_configs, audio_elements,                 *)
(*         mix_presentations]                                              *)
(*                                                                         *)
(* A name with a suffix after an underscore is a faulty form of the        *)
(* definition below it; no specification uses it.                          *)
(***************************************************************************)
EXTENDS ObuStream, LanguageTags

CONSTANT MaxNumParameters  \* of an Audio Element, by iamf-tools (256)

Found(condition, field, id) == IF condition THEN <<<<field, id>>>> ELSE <<>>

FoundIn(items, Of(_)) == FlattenSeq([i \in DOMAIN items |-> Of(items[i])])

\* One finding for each item that is like an earlier one.
Repeated(items, Same(_, _), field) ==
  FlattenSeq([i \in DOMAIN items |->
    Found(\E j \in 1 .. i - 1 : Same(items[j], items[i]), field, items[i])])

Reserved(value, field) == Found(value # 0, field, value)

----------------------------------------------------------------------------
(* Single payloads                                                         *)

ProfileCount == 3

HeaderFindings(v) ==
  Found(v.ia_code # <<105, 97, 109, 102>>, "ia_code", v.ia_code)
  \o Found(v.primary_profile >= ProfileCount, "primary_profile", v.primary_profile)
  \o Found(v.additional_profile < v.primary_profile, "additional_profile", v.additional_profile)

ConfigFindings(v) ==
  FoundIn(SetToSeq(CodecFindings(v)), LAMBDA field : Found(TRUE, field, v.codec_config_id))

DefinitionFindings(d) == Reserved(d.reserved, "param_definition.reserved")

LayerFindings(layer) ==
  Reserved(layer.reserved, "channel_audio_layer_config.reserved")
  \o FoundIn(layer.output_gain, LAMBDA gain : Reserved(gain.reserved, "output_gain.reserved"))

LayoutFindings(config, substreams) ==
  LET declared == FoldLeft(LAMBDA sum, layer : sum + layer.counts[1], 0, config.layers)
  IN  Reserved(config.reserved, "scalable_channel_layout_config.reserved")
      \o Found(config.layers = <<>>, "num_layers", 0)
      \o Found(declared # substreams, "substream_count", declared)
      \o FoundIn(config.layers, LayerFindings)

\* A Mix Gain definition belongs to a Mix Presentation.
ParamFindings(p) ==
  FoundIn(p.definition, DefinitionFindings)
  \o (IF p.type # ParamDemixing \/ p.definition = None THEN <<>>
      ELSE Reserved(p.defaults[2], "default_demixing_info_parameter_data.reserved")
           \o Reserved(p.defaults[4], "default_w.reserved"))
  \o Found(p.type = 0, "param_definition_type", 0)

ElementFindings(e) ==
  Reserved(e.reserved, "audio_element.reserved")
  \o Found(e.substream_ids = <<>>, "num_substreams", 0)
  \o (IF e.type.kind # "channel_based" THEN <<>>
      ELSE LayoutFindings(e.type.body, Len(e.substream_ids)))
  \o FoundIn(e.params, ParamFindings)
  \o Found(Len(e.params) > MaxNumParameters, "num_parameters", e.audio_element_id)

\* Sound System A is the stereo layout every sub-mix must have.
HasStereoLayout(sub_mix) ==
  \E i \in DOMAIN sub_mix.layouts :
    LET system == sub_mix.layouts[i].sound_system
    IN  system # None /\ ~system[1].reserved /\ system[1].raw = 0

LoudnessLayoutFindings(layout) ==
  Reserved(layout.reserved, "layout.reserved")
  \o FoundIn(layout.loudness.anchored, LAMBDA anchors :
       Repeated(anchors, LAMBDA a, b : a[1] = b[1], "anchored_loudness.anchor_element"))

MixElementFindings(e, labels) ==
  Reserved(e.reserved, "rendering_config.reserved")
  \o Found(e.mode.reserved, "headphones_rendering_mode", e.mode.raw)
  \o DefinitionFindings(e.element_mix_gain.definition)
  \o Found(Len(e.annotations) # labels, "localized_element_annotations", e.audio_element_id)

SubMixFindings(sub_mix, labels) ==
  Found(~HasStereoLayout(sub_mix), "sub_mix.layouts", 0)
  \o Found(sub_mix.elements = <<>>, "sub_mix.num_audio_elements", 0)
  \o FoundIn(sub_mix.elements, LAMBDA e : MixElementFindings(e, labels))
  \o DefinitionFindings(sub_mix.output_mix_gain.definition)
  \o FoundIn(sub_mix.layouts, LoudnessLayoutFindings)

References(v) ==
  FoundIn(v.sub_mixes, LAMBDA sub_mix :
    [i \in DOMAIN sub_mix.elements |-> sub_mix.elements[i].audio_element_id])

PresentationFindings(v) ==
  LET labels == Len(v.languages)
      Equal(a, b) == a = b
  IN  Found(Len(v.annotations) # labels, "localized_presentation_annotations", labels)
      \o Repeated(v.languages, SameTag, "annotations_language.repeated")
      \o FoundIn(v.languages, LAMBDA tag :
           Found(~IsWellFormedLanguageTag(tag), "annotations_language", tag))
      \o Found(Len(v.sub_mixes) # 1, "num_sub_mixes", Len(v.sub_mixes))
      \o Repeated(References(v), Equal, "sub_mix.audio_element_id")
      \o FoundIn(v.sub_mixes, LAMBDA sub_mix : SubMixFindings(sub_mix, labels))

\* Flags above bit 11 select no gain.
FlagFindings(e) == Found(e.flag >= 2 ^ 12, "recon_gain_flag", e.flag)

DataFindings(data) ==
  CASE data.kind = "demixing"   ->
         Found(data.fields[1] \in {3, 7}, "dmixp_mode", data.fields[1])
         \o Reserved(data.fields[2], "reserved")
    [] data.kind = "recon_gain" ->
         FoundIn(data.fields, LAMBDA layer : FoundIn(layer, FlagFindings))
    [] OTHER -> <<>>

BlockFindings(v) == FoundIn(v.subblocks, LAMBDA subblock : DataFindings(subblock.data))

\* A frame could have been of an implicit type.
FrameFindings(obu) ==
  Found(obu.header.obu_type.raw = ExplicitFrameType
          /\ obu.payload.substream_id <= MaxImplicitSubstreamId,
        "audio_substream_id", obu.payload.substream_id)

----------------------------------------------------------------------------
(* References and duplicates                                               *)

\* One finding for each pair: every later occurrence with every earlier one.
PairsOf(ids, field) ==
  FlattenSeq([i \in DOMAIN ids |-> FlattenSeq([j \in DOMAIN ids |->
    Found(j < i /\ ids[j] = ids[i], field, ids[i])])])

\* The first element that carries an id, if one does.
CarriersOf(elements, id) ==
  LET first == SelectInSeq(elements, LAMBDA e : e.audio_element_id = id)
  IN  IF first = 0 THEN None ELSE Some(elements[first])

\* scalable_layout_finding: a sub-mix that plays one scalable element has a
\* layout for each of its layers.
ScalableLayoutFindings(sub_mix, elements) ==
  IF Len(sub_mix.elements) # 1 THEN <<>>
  ELSE FoundIn(CarriersOf(elements, sub_mix.elements[1].audio_element_id), LAMBDA e :
         LET layers == IF e.type.kind = "channel_based" THEN Len(e.type.body.layers) ELSE 0
         IN  Found(layers > 1 /\ Len(sub_mix.layouts) < layers, "sub_mix.num_layouts", layers))

Unresolved(elements, configs, mixes) ==
  FoundIn(elements, LAMBDA e :
    Found(\A i \in DOMAIN configs : configs[i].codec_config_id # e.codec_config_id,
          "codec_config_id", e.codec_config_id))
  \o FoundIn(mixes, LAMBDA mix :
       FoundIn(References(mix), LAMBDA id :
         Found(CarriersOf(elements, id) = <<>>, "audio_element_id", id))
       \o FoundIn(mix.sub_mixes, LAMBDA sub_mix : ScalableLayoutFindings(sub_mix, elements)))

ElementIds(elements) == [i \in DOMAIN elements |-> elements[i].audio_element_id]
ConfigIds(configs)   == [i \in DOMAIN configs |-> configs[i].codec_config_id]

\* All three descriptors publish ids, and the registry holds the rest.
DuplicateFindings(configs, elements, mixes, registry) ==
  PairsOf(ConfigIds(configs), "codec_config_id")
  \o PairsOf(ElementIds(elements), "audio_element_id")
  \o PairsOf([i \in DOMAIN mixes |-> mixes[i].mix_presentation_id], "mix_presentation_id")
  \o PairsOf([i \in DOMAIN registry |-> registry[i].definition.parameter_id], "parameter_id")

----------------------------------------------------------------------------
(* A descriptor set                                                        *)

\* A stable ascending sort by the ids of the items.
SortedBy(items, ids) ==
  LET Before(i) == {j \in DOMAIN items : ids[j] < ids[i] \/ (ids[j] = ids[i] /\ j < i)}
  IN  [k \in DOMAIN items |-> items[CHOOSE i \in DOMAIN items : Cardinality(Before(i)) = k - 1]]

SortedElements(elements) == SortedBy(elements, ElementIds(elements))
SortedConfigs(configs)   == SortedBy(configs, ConfigIds(configs))

DescriptorObu(kind, type, payload) ==
  [kind |-> kind, payload |-> payload, trailing |-> <<>>,
   header |-> [obu_type |-> Enum(DefinedTypes, type), redundant |-> FALSE,
               type_specific |-> ReservedBit, extension |-> None]]

\* Elements of one id change places.
WriteDescriptors_Unstable(set) ==
  LET Each(kind, type, payloads) ==
        [i \in DOMAIN payloads |-> DescriptorObu(kind, type, payloads[i])]
  IN  <<DescriptorObu("sequence_header", SequenceHeaderType, set.sequence_header)>>
      \o Each("codec_config", 0, SortedConfigs(set.codec_configs))
      \o Each("audio_element", 1, SortedElements(Reverse(set.audio_elements)))
      \o Each("mix_presentation", 2, set.mix_presentations)

\* write_descriptors: presentations are not sorted.
WriteDescriptors(set) ==
  LET Each(kind, type, payloads) ==
        [i \in DOMAIN payloads |-> DescriptorObu(kind, type, payloads[i])]
  IN  <<DescriptorObu("sequence_header", SequenceHeaderType, set.sequence_header)>>
      \o Each("codec_config", 0, SortedConfigs(set.codec_configs))
      \o Each("audio_element", 1, SortedElements(set.audio_elements))
      \o Each("mix_presentation", 2, set.mix_presentations)

\* ParamDefinitionRegistry::from_descriptors
FromDescriptors(set) ==
  FoundIn(SortedElements(set.audio_elements), PublishedByElement)
  \o FoundIn(set.mix_presentations, PublishedByPresentation)

\* DescriptorSet::validate, up to the profiles.
SetFindings(set) ==
  HeaderFindings(set.sequence_header)
  \o FoundIn(set.codec_configs, ConfigFindings)
  \o FoundIn(set.audio_elements, ElementFindings)
  \o FoundIn(set.mix_presentations, PresentationFindings)
  \o DuplicateFindings(set.codec_configs, set.audio_elements, set.mix_presentations,
                       FromDescriptors(set))
  \o Unresolved(set.audio_elements, set.codec_configs, set.mix_presentations)

----------------------------------------------------------------------------
(* A parsed sequence                                                       *)

ObuFindings(obu) ==
  CASE obu.kind = "sequence_header"  -> HeaderFindings(obu.payload)
    [] obu.kind = "codec_config"     -> ConfigFindings(obu.payload)
    [] obu.kind = "audio_element"    -> ElementFindings(obu.payload)
    [] obu.kind = "mix_presentation" -> PresentationFindings(obu.payload)
    [] obu.kind = "parameter_block"  -> BlockFindings(obu.payload)
    [] obu.kind = "audio_frame"      -> FrameFindings(obu)
    [] OTHER                         -> <<>>

\* The parameter an OBU needs a definition of, if it can be told.
Unidentified(id) == IF id.err = Ok THEN id.out ELSE <<>>

\* What refers to descriptors without being one.
TemporalFindings(obu, elements, registry) ==
  CASE obu.kind = "parameter_block" ->
         Found(GetDefinition(registry, obu.payload.parameter_id) = 0, "parameter_id",
               obu.payload.parameter_id)
    [] obu.kind = "ungoverned_block" ->
         FoundIn(Unidentified(Read(Cursor(obu.payload), <<Uleb>>)), LAMBDA id :
           Found(TRUE, "parameter_id", id))
    [] obu.kind = "audio_frame" ->
         Found(\A i \in DOMAIN elements :
                 obu.payload.substream_id \notin ToSet(elements[i].substream_ids),
               "audio_substream_id", obu.payload.substream_id)
    [] OTHER -> <<>>

PayloadsOf(obus, kind) ==
  FlattenSeq([i \in DOMAIN obus |-> When(obus[i].kind = kind, obus[i].payload)])

\* What the OBUs publish, in their order.
RegistryOf(obus) == FlattenSeq([i \in DOMAIN obus |-> Observe(<<>>, obus[i])])

\* ParsedSequence::validate, up to the profiles.
SequenceFindings(obus) ==
  LET configs  == PayloadsOf(obus, "codec_config")
      elements == PayloadsOf(obus, "audio_element")
      mixes    == PayloadsOf(obus, "mix_presentation")
      registry == RegistryOf(obus)
  IN  FoundIn(obus, ObuFindings)
      \o DuplicateFindings(configs, elements, mixes, registry)
      \o Unresolved(elements, configs, mixes)
      \o FoundIn(obus, LAMBDA obu : TemporalFindings(obu, elements, registry))

\* The same findings as often, in whatever order.
SameFindings(a, b) == ToBag(a) = ToBag(b)

=============================================================================
