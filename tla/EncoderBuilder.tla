--------------------------- MODULE EncoderBuilder ---------------------------
(***************************************************************************)
(* encoder::EncoderBuilder: declarations under caller-local handles, and   *)
(* the build that validates them, allocates wire ids and freezes an        *)
(* Encoder.  Several builders are alive at once and the caller may mix up  *)
(* their handles.                                                          *)
(*                                                                         *)
(* What the caller supplies, reduced to what build looks at:               *)
(*   config        [sound, rate, frame_size, opus, pre_skip]               *)
(*   gain          [param, rate, duration, sound]: param the template id,  *)
(*                 duration <<>> or <<ticks>> in the definition            *)
(*   element       [labels, coupled, params, sound, bulk]: the template    *)
(*                 substream ids, how many of them carry two channels, and *)
(*                 whether it has parameters of its own                    *)
(*   presentation  [sub_mixes, sound, bulk]: each sub-mix its gains in     *)
(*                 wire order, one per element and the output gain         *)
(* An admitted descriptor set has fewer than OneByteIds elements and       *)
(* substreams (28 channels against 128 ids), so of the ids build puts in   *)
(* place only those of parameters and presentations can outgrow a byte.    *)
(* sound stands for the checks of one declaration by itself (topology,     *)
(* findings, languages, anchors, layouts); bulk is the size of its OBU     *)
(* when every id in it takes one byte, as the template's ids outside its   *)
(* gains and substreams do.                                                *)
(*                                                                         *)
(* A name with a suffix after an underscore is a faulty form of the        *)
(* definition below it; no specification uses it.                          *)
(***************************************************************************)
EXTENDS Descriptors

CONSTANTS
  Builders,       \* builder objects
  Configs, Gains, Elements, Presentations,
  Admitted(_, _), \* select_sequence_profile finds a profile for the
                  \* elements and presentations of a descriptor set
  OneByteIds,     \* ids below it take one byte (128)
  MaxObuSize,     \* the obu_size ceiling
  MaxReferences,  \* the longest list of handles a caller passes
  MaxDeclarations \* how many declarations a caller makes of each builder

ASSUME BuilderAssumption ==
  /\ \A config \in Configs :
       /\ config.frame_size \in Nat \ {0}
       /\ config.opus \in BOOLEAN
       /\ config.pre_skip \in Nat
  /\ \A element \in Elements : element.labels \in Seq(Nat)
  /\ MaxDeclarations \in [Builders -> Nat]

VARIABLES
  next_generation,  \* NEXT_BUILDER_GENERATION
  builders,         \* what each builder holds
  phase,            \* "unborn", "open", "built" or "rejected"
  encoders,         \* <<encoder>> that build returned, or <<>>
  manifests,        \* <<its IdManifest>>, or <<>>
  given             \* history: <<b, handle>>: the caller has this handle from b

builderVars == <<next_generation, builders, phase, encoders, manifests, given>>

Handle(kind, generation, index) == [kind |-> kind, generation |-> generation, index |-> index]

\* The caller may pass any handle it has, whoever gave it.
HandlesOf(kind) == {gift[2] : gift \in {g \in given : g[2].kind = kind}}

ReferenceLists(kind) == UNION {[1..n -> HandlesOf(kind)] : n \in 0..MaxReferences}

Empty(generation) ==
  [generation        |-> generation,
   codec_configs     |-> <<>>,
   audio_elements    |-> <<>>,    \* [codec, substreams, element]
   mix_presentations |-> <<>>,    \* [elements, parameters, presentation]
   substreams        |-> <<>>,    \* <<label>> or <<>>: implicit or explicit
   parameters        |-> <<>>]    \* [implicit, gain], implicit likewise

BuilderInit ==
  /\ next_generation = 0
  /\ builders = [b \in Builders |-> Empty(0)]
  /\ phase = [b \in Builders |-> "unborn"]
  /\ encoders = [b \in Builders |-> <<>>]
  /\ manifests = [b \in Builders |-> <<>>]
  /\ given = {}

----------------------------------------------------------------------------
(* Declarations                                                            *)

NextGeneration_Reused == next_generation

\* What fetch_add leaves behind.
NextGeneration == next_generation + 1

New(b) ==
  /\ phase[b] = "unborn"
  /\ builders' = [builders EXCEPT ![b] = Empty(next_generation)]
  /\ next_generation' = NextGeneration
  /\ phase' = [phase EXCEPT ![b] = "open"]
  /\ UNCHANGED <<encoders, manifests, given>>

Declarations(b) ==
  LET builder  == builders[b]
      explicit == SelectSeq(builder.substreams, LAMBDA label : label = <<>>)
      gains    == SelectSeq(builder.parameters, LAMBDA parameter : parameter.implicit = <<>>)
  IN  Len(builder.codec_configs) + Len(builder.audio_elements)
        + Len(builder.mix_presentations) + Len(explicit) + Len(gains)

\* Every add_ method appends a declaration and returns its handle.
Return(b, handle) ==
  /\ given' = given \cup {<<b, handle>>}
  /\ UNCHANGED <<next_generation, phase, encoders, manifests>>

Add(b, kind, field, declaration) ==
  /\ phase[b] = "open"
  /\ Declarations(b) < MaxDeclarations[b]
  /\ builders' = [builders EXCEPT ![b][field] = Append(@, declaration)]
  /\ Return(b, Handle(kind, builders[b].generation, Len(builders[b][field])))

AddCodecConfig(b, config) == Add(b, "codec_config", "codec_configs", config)

AddSubstream(b) == Add(b, "substream", "substreams", <<>>)

AddMixGainParameter(b, gain) ==
  Add(b, "parameter", "parameters", [implicit |-> <<>>, gain |-> gain])

AddAudioElementWithSubstreams(b, codec, substreams, element) ==
  Add(b, "audio_element", "audio_elements",
      [codec |-> codec, substreams |-> substreams, element |-> element])

AddMixPresentationWithParameters(b, elements, parameters, presentation) ==
  Add(b, "mix_presentation", "mix_presentations",
      [elements |-> elements, parameters |-> parameters, presentation |-> presentation])

\* The handles of n declarations behind those a builder holds.
Upcoming(b, kind, field, n) ==
  [i \in 1..n |-> Handle(kind, builders[b].generation, Len(builders[b][field]) + i - 1)]

\* An element with a fresh substream for each template id; their handles stay
\* inside until build hands out the manifest.
AddAudioElement(b, codec, element) ==
  LET fresh == Upcoming(b, "substream", "substreams", Len(element.labels))
  IN  /\ phase[b] = "open"
      /\ Declarations(b) < MaxDeclarations[b]
      /\ builders' = [builders EXCEPT
           ![b].substreams = @ \o [i \in DOMAIN element.labels |-> <<element.labels[i]>>],
           ![b].audio_elements =
              Append(@, [codec |-> codec, substreams |-> fresh, element |-> element])]
      /\ Return(b, Handle("audio_element", builders[b].generation,
                          Len(builders[b].audio_elements)))

\* The gains of a presentation in wire order.
WireGains(presentation) == FlattenSeq(presentation.sub_mixes)

TemplateGains == [param : Nat, rate : Nat, duration : Seq(Nat), sound : BOOLEAN]

ASSUME GainsAssumption ==
  /\ Gains \subseteq TemplateGains
  /\ \A presentation \in Presentations : WireGains(presentation) \in Seq(TemplateGains)

\* A presentation with a fresh parameter for each gain of its template.
AddMixPresentation(b, elements, presentation) ==
  LET gains == WireGains(presentation)
      fresh == Upcoming(b, "parameter", "parameters", Len(gains))
  IN  /\ phase[b] = "open"
      /\ Declarations(b) < MaxDeclarations[b]
      /\ builders' = [builders EXCEPT
           ![b].parameters =
              @ \o [i \in DOMAIN gains |-> [implicit |-> <<gains[i].param>>, gain |-> gains[i]]],
           ![b].mix_presentations =
              Append(@, [elements |-> elements, parameters |-> fresh,
                         presentation |-> presentation])]
      /\ Return(b, Handle("mix_presentation", builders[b].generation,
                          Len(builders[b].mix_presentations)))

----------------------------------------------------------------------------
(* Validation                                                              *)

\* A handle names a declaration of this builder: of its generation, and there.
Known_AnyGeneration(builder, field, handle) == handle.index < Len(builder[field])

Known(builder, field, handle) ==
  /\ handle.generation = builder.generation
  /\ handle.index < Len(builder[field])

UsedParameters(builder) ==
  FlattenSeq([i \in DOMAIN builder.mix_presentations |->
                builder.mix_presentations[i].parameters])

ParametersResolve_Reusable(builder) ==
  /\ \A i \in DOMAIN builder.mix_presentations :
       LET declaration == builder.mix_presentations[i]
       IN  /\ Len(declaration.parameters) = Len(WireGains(declaration.presentation))
           /\ \A k \in DOMAIN declaration.parameters :
                Known(builder, "parameters", declaration.parameters[k])
  /\ Len(UsedParameters(builder)) = Len(builder.parameters)

\* One parameter for each gain, of this builder, and each used exactly once.
ParametersResolve(builder) ==
  /\ \A i \in DOMAIN builder.mix_presentations :
       LET declaration == builder.mix_presentations[i]
       IN  /\ Len(declaration.parameters) = Len(WireGains(declaration.presentation))
           /\ \A k \in DOMAIN declaration.parameters :
                Known(builder, "parameters", declaration.parameters[k])
  /\ IsInjective(UsedParameters(builder))
  /\ Len(UsedParameters(builder)) = Len(builder.parameters)

\* Template ids that stand for fresh declarations must not repeat.
ImplicitIdsDistinct(labels) ==
  \A i, j \in DOMAIN labels : labels[i] # <<>> /\ labels[i] = labels[j] => i = j

\* Mix-gain timing agrees with the Codec Config, of which there is at most one.
TimingAgrees(builder) ==
  /\ \A i \in DOMAIN builder.parameters : builder.parameters[i].gain.sound
  /\ \A i \in DOMAIN builder.codec_configs : builder.codec_configs[i].sound
  /\ Len(builder.codec_configs) <= 1
  /\ builder.codec_configs # <<>> =>
       \A i \in DOMAIN builder.parameters :
         LET config == builder.codec_configs[1]
             gain   == builder.parameters[i].gain
         IN  /\ gain.rate = config.rate
             /\ gain.duration \in {<<>>, <<config.frame_size>>}

SubstreamChannels(element, position) == IF position <= element.coupled THEN 2 ELSE 1

SharingAgrees_ChannelsIgnored(declaration, position, other, otherPosition) ==
  declaration.substreams[position] = other.substreams[otherPosition]
    => declaration.codec = other.codec

\* Elements that share a substream agree on what it carries.
SharingAgrees(declaration, position, other, otherPosition) ==
  declaration.substreams[position] = other.substreams[otherPosition] =>
    /\ declaration.codec = other.codec
    /\ SubstreamChannels(declaration.element, position)
         = SubstreamChannels(other.element, otherPosition)

ElementAccepted(builder, declaration) ==
  /\ Known(builder, "codec_configs", declaration.codec)
  /\ declaration.element.sound
  /\ Len(declaration.substreams) = Len(declaration.element.labels)
  /\ \A i \in DOMAIN declaration.substreams :
       Known(builder, "substreams", declaration.substreams[i])
  /\ IsInjective(declaration.substreams)
  /\ \A j \in DOMAIN builder.audio_elements :
       LET other == builder.audio_elements[j]
       IN  \A i \in DOMAIN declaration.substreams : \A k \in DOMAIN other.substreams :
             SharingAgrees(declaration, i, other, k)
  /\ ~declaration.element.params

\* Exactly one sub-mix, with at least one element (MixPresentation::validate)
\* and each element at most once.
PresentationAccepted(builder, declaration) ==
  /\ \A k \in DOMAIN declaration.elements :
       Known(builder, "audio_elements", declaration.elements[k])
  /\ Len(declaration.presentation.sub_mixes) = 1
  /\ declaration.elements # <<>>
  /\ Len(declaration.elements) + 1 = Len(WireGains(declaration.presentation))
  /\ IsInjective(declaration.elements)
  /\ declaration.presentation.sound

EverySubstreamUsed(builder) ==
  \A index \in 0..(Len(builder.substreams) - 1) :
    \E i \in DOMAIN builder.audio_elements : \E k \in DOMAIN builder.audio_elements[i].substreams :
      builder.audio_elements[i].substreams[k].index = index

\* Whether an OBU stays below the ceiling with these ids in it.
Fits(bulk, ids) == bulk + Len(SelectSeq(ids, LAMBDA id : id >= OneByteIds)) <= MaxObuSize

\* The trial run of write_descriptors: on the template ids.
TemplatesFit(builder) ==
  /\ \A i \in DOMAIN builder.audio_elements :
       LET element == builder.audio_elements[i].element
       IN  Fits(element.bulk, element.labels)
  /\ \A i \in DOMAIN builder.mix_presentations :
       LET declaration == builder.mix_presentations[i]
           ids == [k \in DOMAIN declaration.parameters |->
                     builder.parameters[declaration.parameters[k].index + 1].gain.param]
       IN  Fits(declaration.presentation.bulk, ids)

ValidateDeclarations(builder) ==
  /\ ImplicitIdsDistinct(builder.substreams)
  /\ ImplicitIdsDistinct([i \in DOMAIN builder.parameters |-> builder.parameters[i].implicit])
  /\ TimingAgrees(builder)
  /\ \A i \in DOMAIN builder.audio_elements : ElementAccepted(builder, builder.audio_elements[i])
  /\ \A i \in DOMAIN builder.mix_presentations :
       PresentationAccepted(builder, builder.mix_presentations[i])
  /\ EverySubstreamUsed(builder)
  /\ TemplatesFit(builder)
  /\ builder.mix_presentations # <<>>

----------------------------------------------------------------------------
(* build                                                                   *)

\* Ids are allocated in declaration order, from 0.
AllocateIds(builder, kind, field) ==
  {[handle |-> Handle(kind, builder.generation, index), id |-> index] :
     index \in 0..(Len(builder[field]) - 1)}

Manifest(builder) ==
  [codec_config     |-> AllocateIds(builder, "codec_config", "codec_configs"),
   audio_element    |-> AllocateIds(builder, "audio_element", "audio_elements"),
   mix_presentation |-> AllocateIds(builder, "mix_presentation", "mix_presentations"),
   substream        |-> AllocateIds(builder, "substream", "substreams"),
   parameter        |-> AllocateIds(builder, "parameter", "parameters")]

Indices(references) == [k \in DOMAIN references |-> references[k].index]

LowerPresentation_Unreferenced(builder, i) ==
  LET declaration == builder.mix_presentations[i]
  IN  [id          |-> i - 1,
       bulk        |-> declaration.presentation.bulk,
       elements    |-> Indices(declaration.elements),
       definitions |-> [k \in DOMAIN declaration.parameters |->
                          [param |-> declaration.parameters[k].index,
                           shape |-> "mix_gain",
                           gain  |-> WireGains(declaration.presentation)[k]]]]

\* A presentation as it will be written: the gains are those its parameters
\* were declared with, under their wire ids.
LowerPresentation(builder, i) ==
  LET declaration == builder.mix_presentations[i]
  IN  [id          |-> i - 1,
       bulk        |-> declaration.presentation.bulk,
       elements    |-> Indices(declaration.elements),
       definitions |-> [k \in DOMAIN declaration.parameters |->
                          [param |-> declaration.parameters[k].index,
                           shape |-> "mix_gain",
                           gain  |-> builder.parameters[declaration.parameters[k].index + 1].gain]]]

LowerElement(builder, i) ==
  LET declaration == builder.audio_elements[i]
  IN  [id          |-> i - 1,
       bulk        |-> declaration.element.bulk,
       codec       |-> declaration.codec.index,
       substreams  |-> Indices(declaration.substreams),
       channels    |-> [k \in DOMAIN declaration.substreams |->
                          SubstreamChannels(declaration.element, k)],
       definitions |-> <<>>]

Lowered(builder) ==
  [codec_configs |-> [i \in DOMAIN builder.codec_configs |->
                        [id |-> i - 1, config |-> builder.codec_configs[i]]],
   elements      |-> [i \in DOMAIN builder.audio_elements |-> LowerElement(builder, i)],
   presentations |-> [i \in DOMAIN builder.mix_presentations |-> LowerPresentation(builder, i)]]

\* The Encoder in the terms of EncodingWriter.
Freeze(builder) ==
  LET config == builder.codec_configs[1]
  IN  [set        |-> Lowered(builder),
       generation |-> builder.generation,
       frame_size |-> config.frame_size,
       opus       |-> config.opus,
       pre_skip   |-> config.pre_skip]

Buildable(builder) ==
  /\ ParametersResolve(builder)
  /\ ValidateDeclarations(builder)
  /\ Admitted(Lowered(builder).elements, Lowered(builder).presentations)

\* build consumes the builder, whatever it returns.  The manifest gives the
\* caller the handles of implicit declarations too.
Build(b) ==
  /\ phase[b] = "open"
  /\ \/ /\ Buildable(builders[b])
        /\ phase' = [phase EXCEPT ![b] = "built"]
        /\ encoders' = [encoders EXCEPT ![b] = <<Freeze(builders[b])>>]
        /\ LET manifest == Manifest(builders[b])
           IN  /\ manifests' = [manifests EXCEPT ![b] = <<manifest>>]
               /\ given' = given \cup {<<b, entry.handle>> :
                                          entry \in manifest.substream \cup manifest.parameter}
     \/ /\ ~Buildable(builders[b])
        /\ phase' = [phase EXCEPT ![b] = "rejected"]
        /\ UNCHANGED <<encoders, manifests, given>>
  /\ UNCHANGED <<next_generation, builders>>

AllConsumed ==
  /\ \A b \in Builders : phase[b] \in {"built", "rejected"}
  /\ UNCHANGED builderVars

----------------------------------------------------------------------------

Declare(b) ==
  \/ \E config \in Configs : AddCodecConfig(b, config)
  \/ AddSubstream(b)
  \/ \E gain \in Gains : AddMixGainParameter(b, gain)
  \/ \E codec \in HandlesOf("codec_config"), element \in Elements :
       \/ AddAudioElement(b, codec, element)
       \/ \E substreams \in ReferenceLists("substream") :
            AddAudioElementWithSubstreams(b, codec, substreams, element)
  \/ \E elements \in ReferenceLists("audio_element"), presentation \in Presentations :
       \/ AddMixPresentation(b, elements, presentation)
       \/ \E parameters \in ReferenceLists("parameter") :
            AddMixPresentationWithParameters(b, elements, parameters, presentation)

BuilderNext ==
  \/ \E b \in Builders : New(b) \/ Declare(b) \/ Build(b)
  \/ AllConsumed

BuilderSpec == BuilderInit /\ [][BuilderNext]_builderVars

----------------------------------------------------------------------------
(* What build promises                                                     *)

Built(b) == phase[b] = "built"

Frozen(b) == encoders[b][1].set

IdOf(entries, handle) ==
  CHOOSE id \in {entry.id : entry \in entries} : [handle |-> handle, id |-> id] \in entries

\* The handles a builder's declarations refer to.
References(builder) ==
  LET elements      == builder.audio_elements
      presentations == builder.mix_presentations
  IN  {elements[i].codec : i \in DOMAIN elements}
        \cup (UNION {ToSet(elements[i].substreams) : i \in DOMAIN elements})
        \cup (UNION {ToSet(presentations[i].elements) : i \in DOMAIN presentations})
        \cup (UNION {ToSet(presentations[i].parameters) : i \in DOMAIN presentations})

\* No two builders give out the same handle, so a handle says who made it
\* (NEXT_BUILDER_GENERATION).
HandlesNameOneBuilder ==
  \A one, other \in given : one[2] = other[2] => one[1] = other[1]

\* A builder is not built on a declaration of another one: every reference
\* in it is a handle that it gave out, although the caller may pass any.
OwnHandles ==
  \A b \in Builders : Built(b) =>
    \A handle \in References(builders[b]) : <<b, handle>> \in given

\* A handle means the same in the file as it did to the caller.  Under the id
\* the manifest gives for it, the registry of the frozen descriptors binds a
\* parameter to the gain it was declared with, in the place it was passed for,
\* and the first element with the id has the declared substreams and codec.
HandlesKeepMeaning ==
  \A b \in Builders : Built(b) =>
    LET builder  == builders[b]
        set      == Frozen(b)
        manifest == manifests[b][1]
        registry == FromDescriptors(set)
        Element(id) == SelectInSeq(set.elements, LAMBDA element : element.id = id)
    IN  \A i \in DOMAIN builder.mix_presentations :
          LET declared == builder.mix_presentations[i]
              written  == set.presentations[i]
          IN  /\ \A k \in DOMAIN declared.parameters :
                   LET handle == declared.parameters[k]
                       id     == IdOf(manifest.parameter, handle)
                   IN  /\ written.definitions[k].param = id
                       /\ IsGoverned(registry, id)
                       /\ registry[Get(registry, id)].gain
                            = builder.parameters[handle.index + 1].gain
              /\ \A k \in DOMAIN declared.elements :
                   LET handle == declared.elements[k]
                       at     == Element(written.elements[k])
                       source == builder.audio_elements[handle.index + 1]
                   IN  /\ written.elements[k] = IdOf(manifest.audio_element, handle)
                       /\ at # 0
                       /\ set.elements[at].codec = IdOf(manifest.codec_config, source.codec)
                       /\ \A m \in DOMAIN source.substreams :
                            set.elements[at].substreams[m]
                              = IdOf(manifest.substream, source.substreams[m])

\* Elements that share a substream in the file read the same channels out of
\* it, with the same codec (the shared_substream check).
SharedAudioAgrees ==
  \A b \in Builders : Built(b) =>
    \A i, j \in DOMAIN Frozen(b).elements :
      LET one   == Frozen(b).elements[i]
          other == Frozen(b).elements[j]
      IN  \A m \in DOMAIN one.substreams, n \in DOMAIN other.substreams :
            one.substreams[m] = other.substreams[n] =>
              one.codec = other.codec /\ one.channels[m] = other.channels[n]

\* What EncodingWriter takes for granted of a frozen encoder: one Codec Config
\* that every element uses, substream ids 0..n-1 without gaps and none twice in
\* an element, every parameter defined once and in step with the frames.
FrozenIsCoherent ==
  \A b \in Builders : Built(b) =>
    LET set      == Frozen(b)
        encoder  == encoders[b][1]
        registry == FromDescriptors(set)
    IN  /\ Len(set.codec_configs) = 1
        /\ \A i \in DOMAIN set.elements :
             /\ set.elements[i].codec = set.codec_configs[1].id
             /\ IsInjective(set.elements[i].substreams)
        /\ UNION {ToSet(set.elements[i].substreams) : i \in DOMAIN set.elements}
             = 0..(Cardinality(manifests[b][1].substream) - 1)
        /\ IsInjective([i \in DOMAIN registry |-> registry[i].param])
        /\ \A i \in DOMAIN registry :
             /\ registry[i].gain.rate = set.codec_configs[1].config.rate
             /\ registry[i].gain.duration \in {<<>>, <<encoder.frame_size>>}

\* "Exercise every exact wire encoder before allocating the manifest or
\* accepting a sink.  Lowering only replaces validated ids afterward": what is
\* frozen can be written.  The trial writes the template ids; a parameter or
\* presentation id put in their place may be longer.
FrozenWritable ==
  \A b \in Builders : Built(b) =>
    \A i \in DOMAIN Frozen(b).presentations :
      LET presentation == Frozen(b).presentations[i]
          params == [k \in DOMAIN presentation.definitions |->
                       presentation.definitions[k].param]
      IN  Fits(presentation.bulk, <<presentation.id>> \o params)
=============================================================================
