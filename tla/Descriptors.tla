---------------------------- MODULE Descriptors ----------------------------
(***************************************************************************)
(* Descriptor sets and the parameter definitions they publish.             *)
(*                                                                         *)
(* A DescriptorSet is reduced to its order on the wire and to what decides *)
(* which definition governs a Parameter Block: its Codec Configs, its      *)
(* Audio Elements with the definitions each owns, its Mix Presentations    *)
(* with theirs, and whether the descriptor writers accept it.              *)
(*   definition   [param, shape]: the parameter_id and the data syntax it  *)
(*                imposes on a block (mode, duration fields, context)      *)
(*   config       [id]                                                     *)
(*   element      [id, definitions]                                        *)
(*   presentation [definitions]                                            *)
(*   set          [codec_configs, elements, presentations, writable]       *)
(*                                                                         *)
(* A name with a suffix after an underscore is a faulty form of the        *)
(* definition below it; no specification uses it.                          *)
(***************************************************************************)
EXTENDS Naturals, Sequences, FiniteSets, SequencesExt

\* The shape of a definition whose param_definition_type is above 2: its bytes
\* are carried and never decoded.
Extension == "extension"

----------------------------------------------------------------------------
(* Order on the wire                                                       *)

\* How many items precede item i in a stable ascending sort by id, plus one.
StableRank(items, i) ==
  Cardinality({j \in DOMAIN items :
                 \/ items[j].id < items[i].id
                 \/ items[j].id = items[i].id /\ j <= i})

\* A stable ascending sort: items sharing an id keep their relative order.
SortedById(items) ==
  [k \in DOMAIN items |-> items[CHOOSE i \in DOMAIN items : StableRank(items, i) = k]]

WriteDescriptors_AsListed(set) ==
  [codec_configs |-> set.codec_configs,
   elements      |-> set.elements,
   presentations |-> set.presentations]

\* The descriptors as write_descriptors emits them after the IA Sequence
\* Header: Codec Configs and Audio Elements ascending by id, then Mix
\* Presentations as listed.
WriteDescriptors(set) ==
  [codec_configs |-> SortedById(set.codec_configs),
   elements      |-> SortedById(set.elements),
   presentations |-> set.presentations]

----------------------------------------------------------------------------
(* The registry                                                            *)

Definitions(owners) ==
  FlattenSeq([i \in DOMAIN owners |-> owners[i].definitions])

IsDecoded(definition) == definition.shape # Extension

\* A definition whose bytes are carried opaquely governs nothing.
Decoded(definitions) ==
  FlattenSeq([i \in DOMAIN definitions |->
                IF IsDecoded(definitions[i]) THEN <<definitions[i]>> ELSE <<>>])

\* ParamDefinitionRegistry::observe_audio_element for each element.
ObserveAudioElements(elements) == Decoded(Definitions(elements))

FromDescriptors_Unsorted(set) ==
  ObserveAudioElements(set.elements) \o Definitions(set.presentations)

\* ParamDefinitionRegistry::from_descriptors, with the sort of its own that
\* has to mirror the one of WriteDescriptors.
FromDescriptors(set) ==
  ObserveAudioElements(SortedById(set.elements)) \o Definitions(set.presentations)

Get_Last(registry, param) ==
  SelectLastInSeq(registry, LAMBDA definition : definition.param = param)

\* ParamDefinitionRegistry::get binds a parameter_id to the first entry that
\* carries it; 0 when none does.
Get(registry, param) ==
  SelectInSeq(registry, LAMBDA definition : definition.param = param)

IsGoverned(registry, param) == Get(registry, param) # 0

GoverningShape(registry, param) == registry[Get(registry, param)].shape
=============================================================================
