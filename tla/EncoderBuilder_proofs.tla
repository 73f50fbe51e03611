----------------------- MODULE EncoderBuilder_proofs -----------------------
(***************************************************************************)
(* Proofs about EncoderBuilder, for any number of builders and any         *)
(* declarations: a handle's generation says which builder gave it.         *)
(***************************************************************************)
EXTENDS EncoderBuilder, SequenceLemmas, TLAPS

Alive(b) == phase[b] # "unborn"

\* A record with the fields of an EncoderBuilder.
IsBuilder(builder) ==
  builder = [generation        |-> builder.generation,
             codec_configs     |-> builder.codec_configs,
             audio_elements    |-> builder.audio_elements,
             mix_presentations |-> builder.mix_presentations,
             substreams        |-> builder.substreams,
             parameters        |-> builder.parameters]

Shape ==
  /\ next_generation \in Nat
  /\ builders = [b \in Builders |-> builders[b]]
  /\ phase = [b \in Builders |-> phase[b]]
  /\ \A b \in Builders : IsBuilder(builders[b])

\* Generations below the counter have been taken, each by one builder.
GenerationsTaken ==
  /\ \A b \in Builders :
       Alive(b) => builders[b].generation \in Nat /\ builders[b].generation < next_generation
  /\ \A b, c \in Builders :
       Alive(b) /\ Alive(c) /\ builders[b].generation = builders[c].generation => b = c

\* A handle carries the generation of the builder that gave it.
GivenBySelf ==
  \A gift \in given :
    /\ gift = <<gift[1], gift[2]>>
    /\ gift[1] \in Builders
    /\ Alive(gift[1])
    /\ gift[2].generation = builders[gift[1]].generation

GenInv == Shape /\ GenerationsTaken /\ GivenBySelf

\* The next-state relation when b declares or builds: generations stay, and
\* what is given comes from b.
Gives(b) ==
  /\ next_generation' = next_generation
  /\ Alive(b)
  /\ phase' = [phase EXCEPT ![b] = phase'[b]] /\ phase'[b] # "unborn"
  /\ builders' = [builders EXCEPT ![b] = builders'[b]]
  /\ builders'[b].generation = builders[b].generation
  /\ IsBuilder(builders'[b])
  /\ \A gift \in given' \ given :
       gift = <<b, gift[2]>> /\ gift[2].generation = builders[b].generation

LEMMA GivesKeepsGenInv ==
  ASSUME GenInv, NEW b \in Builders, Gives(b)
  PROVE  GenInv'
<1>1. \A c \in Builders : c # b => builders'[c] = builders[c] /\ phase'[c] = phase[c]
  BY DEF GenInv, Shape, Gives
<1>2. \A c \in Builders : /\ builders'[c].generation = builders[c].generation
                          /\ Alive(c)' <=> Alive(c)
  BY <1>1 DEF Gives, Alive
<1>3. Shape'
  <2>1. builders' = [c \in Builders |-> builders'[c]] /\ phase' = [c \in Builders |-> phase'[c]]
    BY DEF GenInv, Shape, Gives
  <2>2. \A c \in Builders : IsBuilder(builders'[c])
    <3> TAKE c \in Builders
    <3>1. CASE c = b
      BY <3>1 DEF Gives
    <3>2. CASE c # b
      BY <3>2, <1>1 DEF GenInv, Shape
    <3> QED  BY <3>1, <3>2
  <2> QED  BY <2>1, <2>2 DEF GenInv, Shape, Gives, IsBuilder
<1>4. GenerationsTaken'
  BY <1>2 DEF GenInv, GenerationsTaken, Gives
<1>5. GivenBySelf'
  <2> SUFFICES ASSUME NEW gift \in given'
               PROVE  /\ gift = <<gift[1], gift[2]>>
                      /\ gift[1] \in Builders
                      /\ Alive(gift[1])'
                      /\ gift[2].generation = builders'[gift[1]].generation
    BY DEF GivenBySelf
  <2>1. CASE gift \in given
    BY <2>1, <1>2 DEF GenInv, GivenBySelf
  <2>2. CASE gift \notin given
    <3>1. gift = <<b, gift[2]>> /\ gift[2].generation = builders[b].generation
      BY <2>2 DEF Gives
    <3>2. gift[1] = b
      BY <3>1
    <3> QED  BY <3>1, <3>2, <1>2 DEF Gives
  <2> QED  BY <2>1, <2>2
<1> QED  BY <1>3, <1>4, <1>5 DEF GenInv

\* Appending to a list of a builder leaves the rest of it alone.
LEMMA AddGives ==
  ASSUME GenInv, NEW b \in Builders, NEW kind, NEW declaration,
         NEW field \in {"codec_configs", "audio_elements", "mix_presentations",
                        "substreams", "parameters"},
         Add(b, kind, field, declaration)
  PROVE  Gives(b)
<1> DEFINE handle == Handle(kind, builders[b].generation, Len(builders[b][field]))
<1>1. /\ phase[b] = "open" /\ phase' = phase /\ next_generation' = next_generation
      /\ given' = given \cup {<<b, handle>>}
  BY DEF Add, Return
<1>2. handle.generation = builders[b].generation
  BY DEF Handle
<1> DEFINE longer == Append(builders[b][field], declaration)
<1>3. builders' = [builders EXCEPT ![b] = [builders[b] EXCEPT ![field] = longer]]
  BY DEF Add
<1> HIDE DEF longer
<1>4. b \in DOMAIN builders /\ b \in DOMAIN phase /\ IsBuilder(builders[b])
  BY DEF GenInv, Shape
<1>5. builders'[b] = [builders[b] EXCEPT ![field] = longer]
  BY <1>3, <1>4
<1>6. builders'[b].generation = builders[b].generation /\ IsBuilder(builders'[b])
  BY <1>4, <1>5 DEF IsBuilder
<1>7. builders' = [builders EXCEPT ![b] = builders'[b]]
  BY <1>3, <1>4
<1>8. phase' = [phase EXCEPT ![b] = phase'[b]] /\ phase'[b] # "unborn" /\ Alive(b)
  BY <1>1, <1>4 DEF Alive, GenInv, Shape
<1>9. \A gift \in given' \ given :
        gift = <<b, gift[2]>> /\ gift[2].generation = builders[b].generation
  BY <1>1, <1>2
<1> QED  BY <1>1, <1>6, <1>7, <1>8, <1>9 DEF Gives

LEMMA DeclareGives ==
  ASSUME GenInv, NEW b \in Builders, Declare(b)
  PROVE  Gives(b)
<1>1. CASE \E config \in Configs : AddCodecConfig(b, config)
  BY <1>1, AddGives DEF AddCodecConfig
<1>2. CASE AddSubstream(b)
  BY <1>2, AddGives DEF AddSubstream
<1>3. CASE \E gain \in Gains : AddMixGainParameter(b, gain)
  BY <1>3, AddGives DEF AddMixGainParameter
<1>4. CASE \E codec \in HandlesOf("codec_config"), element \in Elements :
             \/ AddAudioElement(b, codec, element)
             \/ \E substreams \in ReferenceLists("substream") :
                  AddAudioElementWithSubstreams(b, codec, substreams, element)
  <2>1. PICK codec \in HandlesOf("codec_config"), element \in Elements :
             \/ AddAudioElement(b, codec, element)
             \/ \E substreams \in ReferenceLists("substream") :
                  AddAudioElementWithSubstreams(b, codec, substreams, element)
    BY <1>4
  <2>2. CASE AddAudioElement(b, codec, element)
    <3> DEFINE labels == [i \in DOMAIN element.labels |-> <<element.labels[i]>>]
               fresh  == Upcoming(b, "substream", "substreams", Len(element.labels))
               held   == builders[b]
    <3>1. /\ phase[b] = "open" /\ phase' = phase /\ next_generation' = next_generation
          /\ given' = given \cup {<<b, Handle("audio_element", builders[b].generation,
                                             Len(builders[b].audio_elements))>>}
      BY <2>2 DEF AddAudioElement, Return
    <3>2. b \in DOMAIN builders /\ b \in DOMAIN phase /\ IsBuilder(held)
      BY DEF GenInv, Shape
    <3>3. builders' = [builders EXCEPT
             ![b].substreams = @ \o labels,
             ![b].audio_elements =
                Append(@, [codec |-> codec, substreams |-> fresh, element |-> element])]
      BY <2>2 DEF AddAudioElement
    <3> HIDE DEF labels, fresh
    <3>4. builders'[b] = [held EXCEPT
             !.substreams = @ \o labels,
             !.audio_elements =
                Append(@, [codec |-> codec, substreams |-> fresh, element |-> element])]
      BY <3>2, <3>3
    <3>5. builders' = [builders EXCEPT ![b] = builders'[b]]
      BY <3>2, <3>3
    <3>6. builders'[b].generation = builders[b].generation /\ IsBuilder(builders'[b])
      BY <3>2, <3>4 DEF IsBuilder
    <3>7. phase' = [phase EXCEPT ![b] = phase'[b]] /\ phase'[b] # "unborn" /\ Alive(b)
      BY <3>1, <3>2 DEF Alive, GenInv, Shape
    <3>8. \A gift \in given' \ given :
            gift = <<b, gift[2]>> /\ gift[2].generation = builders[b].generation
      BY <3>1 DEF Handle
    <3> QED  BY <3>1, <3>5, <3>6, <3>7, <3>8 DEF Gives
  <2>3. CASE ~AddAudioElement(b, codec, element)
    BY <2>1, <2>3, AddGives DEF AddAudioElementWithSubstreams
  <2> QED  BY <2>2, <2>3
<1>5. CASE \E elements \in ReferenceLists("audio_element"), presentation \in Presentations :
             \/ AddMixPresentation(b, elements, presentation)
             \/ \E parameters \in ReferenceLists("parameter") :
                  AddMixPresentationWithParameters(b, elements, parameters, presentation)
  <2>1. PICK elements \in ReferenceLists("audio_element"), presentation \in Presentations :
             \/ AddMixPresentation(b, elements, presentation)
             \/ \E parameters \in ReferenceLists("parameter") :
                  AddMixPresentationWithParameters(b, elements, parameters, presentation)
    BY <1>5
  <2>2. CASE AddMixPresentation(b, elements, presentation)
    <3> DEFINE gains == WireGains(presentation)
               ours  == [i \in DOMAIN gains |->
                           [implicit |-> <<gains[i].param>>, gain |-> gains[i]]]
               fresh == Upcoming(b, "parameter", "parameters", Len(gains))
               held  == builders[b]
    <3>1. /\ phase[b] = "open" /\ phase' = phase /\ next_generation' = next_generation
          /\ given' = given \cup {<<b, Handle("mix_presentation", builders[b].generation,
                                             Len(builders[b].mix_presentations))>>}
      BY <2>2 DEF AddMixPresentation, Return
    <3>2. b \in DOMAIN builders /\ b \in DOMAIN phase /\ IsBuilder(held)
      BY DEF GenInv, Shape
    <3>3. builders' = [builders EXCEPT
             ![b].parameters = @ \o ours,
             ![b].mix_presentations =
                Append(@, [elements |-> elements, parameters |-> fresh,
                           presentation |-> presentation])]
      BY <2>2 DEF AddMixPresentation
    <3> HIDE DEF gains, ours, fresh
    <3>4. builders'[b] = [held EXCEPT
             !.parameters = @ \o ours,
             !.mix_presentations =
                Append(@, [elements |-> elements, parameters |-> fresh,
                           presentation |-> presentation])]
      BY <3>2, <3>3
    <3>5. builders' = [builders EXCEPT ![b] = builders'[b]]
      BY <3>2, <3>3
    <3>6. builders'[b].generation = builders[b].generation /\ IsBuilder(builders'[b])
      BY <3>2, <3>4 DEF IsBuilder
    <3>7. phase' = [phase EXCEPT ![b] = phase'[b]] /\ phase'[b] # "unborn" /\ Alive(b)
      BY <3>1, <3>2 DEF Alive, GenInv, Shape
    <3>8. \A gift \in given' \ given :
            gift = <<b, gift[2]>> /\ gift[2].generation = builders[b].generation
      BY <3>1 DEF Handle
    <3> QED  BY <3>1, <3>5, <3>6, <3>7, <3>8 DEF Gives
  <2>3. CASE ~AddMixPresentation(b, elements, presentation)
    BY <2>1, <2>3, AddGives DEF AddMixPresentationWithParameters
  <2> QED  BY <2>2, <2>3
<1> QED  BY <1>1, <1>2, <1>3, <1>4, <1>5 DEF Declare

LEMMA BuildGives ==
  ASSUME GenInv, NEW b \in Builders, Build(b)
  PROVE  Gives(b)
<1>1. phase[b] = "open" /\ next_generation' = next_generation /\ builders' = builders
  BY DEF Build
<1>2. /\ phase' = [phase EXCEPT ![b] = "built"] \/ phase' = [phase EXCEPT ![b] = "rejected"]
      /\ b \in DOMAIN phase /\ b \in DOMAIN builders
  BY DEF Build, GenInv, Shape
<1>3. builders' = [builders EXCEPT ![b] = builders'[b]] /\ IsBuilder(builders'[b])
  BY <1>1 DEF GenInv, Shape
<1>4. \A gift \in given' \ given :
        gift = <<b, gift[2]>> /\ gift[2].generation = builders[b].generation
  <2>1. CASE given' = given
    BY <2>1
  <2>2. CASE given' # given
    <3> DEFINE entries == Manifest(builders[b]).substream \cup Manifest(builders[b]).parameter
    <3>1. given' = given \cup {<<b, entry.handle>> : entry \in entries}
      BY <2>2 DEF Build
    <3>2. \A entry \in entries : entry.handle.generation = builders[b].generation
      BY DEF Manifest, AllocateIds, Handle
    <3> HIDE DEF entries
    <3> QED  BY <3>1, <3>2
  <2> QED  BY <2>1, <2>2
<1> QED  BY <1>1, <1>2, <1>3, <1>4 DEF Gives, Alive

LEMMA NewKeepsGenInv ==
  ASSUME GenInv, NEW b \in Builders, New(b)
  PROVE  GenInv'
<1>1. /\ phase[b] = "unborn" /\ phase' = [phase EXCEPT ![b] = "open"]
      /\ builders' = [builders EXCEPT ![b] = Empty(next_generation)]
      /\ next_generation' = next_generation + 1
      /\ given' = given
  BY DEF New, NextGeneration
<1>2. \A c \in Builders : c # b => builders'[c] = builders[c] /\ phase'[c] = phase[c]
  BY <1>1 DEF GenInv, Shape
<1>3. builders'[b] = Empty(next_generation) /\ phase'[b] = "open"
  BY <1>1 DEF GenInv, Shape
<1>4. builders'[b].generation = next_generation /\ IsBuilder(builders'[b])
  BY <1>3 DEF Empty, IsBuilder
<1>5. Shape'
  <2>1. \A c \in Builders : IsBuilder(builders'[c])
    <3> TAKE c \in Builders
    <3>1. CASE c = b
      BY <3>1, <1>4
    <3>2. CASE c # b
      BY <3>2, <1>2 DEF GenInv, Shape
    <3> QED  BY <3>1, <3>2
  <2>2. builders' = [c \in Builders |-> builders'[c]] /\ phase' = [c \in Builders |-> phase'[c]]
    BY <1>1 DEF GenInv, Shape
  <2>3. next_generation' \in Nat
    BY <1>1 DEF GenInv, Shape
  <2> QED  BY <2>1, <2>2, <2>3 DEF Shape, IsBuilder
<1>6. GenerationsTaken'
  <2>1. \A c \in Builders : Alive(c)' /\ c # b =>
          /\ builders'[c].generation \in Nat
          /\ builders'[c].generation < next_generation
    BY <1>2 DEF GenInv, GenerationsTaken, Alive
  <2>2. next_generation \in Nat
    BY DEF GenInv, Shape
  <2>3. \A c, d \in Builders : c # b /\ d # b =>
          (Alive(c)' /\ Alive(d)' /\ builders'[c].generation = builders'[d].generation => c = d)
    BY <1>2 DEF GenInv, GenerationsTaken, Alive
  <2> QED  BY <1>1, <1>4, <2>1, <2>2, <2>3 DEF GenerationsTaken
<1>7. GivenBySelf'
  <2>1. \A gift \in given : gift[1] # b
    BY <1>1 DEF GenInv, GivenBySelf, Alive
  <2> QED  BY <1>1, <1>2, <2>1 DEF GenInv, GivenBySelf, Alive
<1> QED  BY <1>5, <1>6, <1>7 DEF GenInv

LEMMA GenInvInductive == BuilderSpec => []GenInv
<1>1. BuilderInit => GenInv
  BY DEF BuilderInit, GenInv, Shape, GenerationsTaken, GivenBySelf, Alive, Empty, IsBuilder
<1>2. GenInv /\ [BuilderNext]_builderVars => GenInv'
  <2> SUFFICES ASSUME GenInv, [BuilderNext]_builderVars PROVE GenInv'
    OBVIOUS
  <2>1. CASE \E b \in Builders : New(b)
    BY <2>1, NewKeepsGenInv
  <2>2. CASE \E b \in Builders : Declare(b)
    BY <2>2, DeclareGives, GivesKeepsGenInv
  <2>3. CASE \E b \in Builders : Build(b)
    BY <2>3, BuildGives, GivesKeepsGenInv
  <2>4. CASE AllConsumed \/ UNCHANGED builderVars
    <3>1. /\ next_generation' = next_generation /\ builders' = builders
          /\ phase' = phase /\ given' = given
      BY <2>4 DEF AllConsumed, builderVars
    <3>2. Shape'
      BY <3>1 DEF GenInv, Shape, IsBuilder
    <3>3. GenerationsTaken' /\ GivenBySelf'
      BY <3>1 DEF GenInv, GenerationsTaken, GivenBySelf, Alive
    <3> QED  BY <3>2, <3>3 DEF GenInv
  <2> QED  BY <2>1, <2>2, <2>3, <2>4 DEF BuilderNext
<1> QED  BY <1>1, <1>2, PTL DEF BuilderSpec

\* However many builders are alive, a handle given by one of them is given by
\* no other, so the generation check tells whose it is.
THEOREM OneBuilder == BuilderSpec => []HandlesNameOneBuilder
<1>1. GenInv => HandlesNameOneBuilder
  <2> SUFFICES ASSUME GenInv, NEW one \in given, NEW other \in given, one[2] = other[2]
               PROVE  one[1] = other[1]
    BY DEF HandlesNameOneBuilder
  <2>1. /\ one[1] \in Builders /\ Alive(one[1])
        /\ one[2].generation = builders[one[1]].generation
        /\ other[1] \in Builders /\ Alive(other[1])
        /\ other[2].generation = builders[other[1]].generation
    BY DEF GenInv, GivenBySelf
  <2> QED  BY <2>1 DEF GenInv, GenerationsTaken
<1> QED  BY <1>1, GenInvInductive, PTL

----------------------------------------------------------------------------
(* What a builder holds, and what is built                                 *)

Handles(kind) == [kind : {kind}, generation : Nat, index : Nat]

ElementDeclarations ==
  [codec : Handles("codec_config"), substreams : Seq(Handles("substream")), element : Elements]

PresentationDeclarations ==
  [elements : Seq(Handles("audio_element")), parameters : Seq(Handles("parameter")),
   presentation : Presentations]

BuilderTypes ==
  [generation        : Nat,
   codec_configs     : Seq(Configs),
   audio_elements    : Seq(ElementDeclarations),
   mix_presentations : Seq(PresentationDeclarations),
   substreams        : Seq(Seq(Nat)),
   parameters        : Seq([implicit : Seq(Nat), gain : TemplateGains])]

HandlesTyped == \A gift \in given : gift[2] \in Handles(gift[2].kind)

Typed ==
  /\ builders \in [Builders -> BuilderTypes]
  /\ phase \in [Builders -> {"unborn", "open", "built", "rejected"}]
  /\ encoders = [b \in Builders |-> encoders[b]]
  /\ manifests = [b \in Builders |-> manifests[b]]
  /\ HandlesTyped

\* The caller has a handle of every declaration in a list.
Offers(b, kind, field) ==
  \A n \in Nat : n < Len(builders[b][field]) =>
    <<b, Handle(kind, builders[b].generation, n)>> \in given

\* Configs and elements are declared by the caller only.
Offered(b) == Offers(b, "codec_config", "codec_configs")
              /\ Offers(b, "audio_element", "audio_elements")

\* A built builder has passed every check, is frozen as it is, and its manifest
\* has given the handles of implicit declarations.
BuiltAsDeclared(b) ==
  Built(b) =>
    /\ Buildable(builders[b])
    /\ encoders[b] = <<Freeze(builders[b])>>
    /\ manifests[b] = <<Manifest(builders[b])>>
    /\ Offers(b, "substream", "substreams")
    /\ Offers(b, "parameter", "parameters")

DeclInv ==
  /\ Typed
  /\ \A b \in Builders : Offered(b) /\ BuiltAsDeclared(b)

LEMMA PassedTyped ==
  ASSUME Typed, NEW kind
  PROVE  /\ HandlesOf(kind) \subseteq Handles(kind)
         /\ ReferenceLists(kind) \subseteq Seq(Handles(kind))
<1>1. HandlesOf(kind) \subseteq Handles(kind)
  BY DEF Typed, HandlesTyped, HandlesOf, Handles
<1>2. \A n \in 0..MaxReferences : [1..n -> HandlesOf(kind)] \subseteq Seq(Handles(kind))
  BY <1>1
<1> QED  BY <1>1, <1>2 DEF ReferenceLists

\* The next-state relation when b declares: the builder stays typed, and what
\* the caller has been given grows by the handle of what it declared.
Declares(b) ==
  /\ phase[b] = "open" /\ phase' = phase
  /\ encoders' = encoders /\ manifests' = manifests
  /\ builders' = [builders EXCEPT ![b] = builders'[b]]
  /\ builders'[b] \in BuilderTypes
  /\ given \subseteq given'
  /\ HandlesTyped'
  /\ Offered(b)'

LEMMA DeclaresKeepsDeclInv ==
  ASSUME DeclInv, NEW b \in Builders, Declares(b)
  PROVE  DeclInv'
<1>1. Typed'
  BY DEF DeclInv, Typed, Declares
<1>2. \A c \in Builders : c # b => builders'[c] = builders[c]
  BY DEF DeclInv, Typed, Declares
<1>3. ASSUME NEW c \in Builders
      PROVE  Offered(c)' /\ BuiltAsDeclared(c)'
  <2>1. CASE c = b
    BY <2>1 DEF Declares, BuiltAsDeclared, Built
  <2>2. CASE c # b
    <3>1. builders'[c] = builders[c] /\ given \subseteq given' /\ Built(c)' = Built(c)
          /\ encoders'[c] = encoders[c] /\ manifests'[c] = manifests[c]
      BY <2>2, <1>2 DEF Declares, Built
    <3>2. Offered(c)'
      BY <3>1 DEF DeclInv, Offered, Offers
    <3>3. BuiltAsDeclared(c)'
      <4> SUFFICES ASSUME Built(c) PROVE BuiltAsDeclared(c)'
        BY <3>1 DEF BuiltAsDeclared
      <4>1. BuiltAsDeclared(c)
        BY DEF DeclInv
      <4>2. Offers(c, "substream", "substreams")' /\ Offers(c, "parameter", "parameters")'
        BY <4>1, <3>1 DEF BuiltAsDeclared, Offers
      <4> QED  BY <4>1, <4>2, <3>1 DEF BuiltAsDeclared
    <3> QED  BY <3>2, <3>3
  <2> QED  BY <2>1, <2>2
<1> QED  BY <1>1, <1>3 DEF DeclInv

LEMMA OffersKept ==
  ASSUME NEW b, NEW kind, NEW field, Offers(b, kind, field), given \subseteq given',
         builders'[b].generation = builders[b].generation,
         builders'[b][field] = builders[b][field]
  PROVE  Offers(b, kind, field)'
BY DEF Offers

LEMMA OffersOneMore ==
  ASSUME NEW b, NEW kind, NEW field, Offers(b, kind, field), given \subseteq given',
         builders'[b].generation = builders[b].generation,
         Len(builders[b][field]) \in Nat,
         Len(builders'[b][field]) = Len(builders[b][field]) + 1,
         <<b, Handle(kind, builders[b].generation, Len(builders[b][field]))>> \in given'
  PROVE  Offers(b, kind, field)'
<1> SUFFICES ASSUME NEW n \in Nat, n < Len(builders[b][field]) + 1
             PROVE  <<b, Handle(kind, builders[b].generation, n)>> \in given'
  BY DEF Offers
<1>1. CASE n < Len(builders[b][field])
  BY <1>1 DEF Offers
<1>2. CASE n = Len(builders[b][field])
  BY <1>2
<1> QED  BY <1>1, <1>2

\* Every declaration hands out one handle, of its kind and with the builder's
\* generation.
LEMMA ReturnTyped ==
  ASSUME Typed, NEW b \in Builders, NEW kind, NEW index \in Nat,
         Return(b, Handle(kind, builders[b].generation, index))
  PROVE  HandlesTyped' /\ given \subseteq given'
<1> DEFINE handle == Handle(kind, builders[b].generation, index)
<1>1. given' = given \cup {<<b, handle>>}
  BY DEF Return
<1>2. builders[b].generation \in Nat
  BY DEF Typed, BuilderTypes
<1>3. handle \in Handles(handle.kind)
  BY <1>2 DEF Handle, Handles
<1> HIDE DEF handle
<1> QED  BY <1>1, <1>3 DEF Typed, HandlesTyped

LEMMA AddDeclares ==
  ASSUME DeclInv, NEW b \in Builders, NEW kind, NEW declaration,
         NEW field \in {"codec_configs", "audio_elements", "mix_presentations",
                        "substreams", "parameters"},
         field = "codec_configs" => kind = "codec_config",
         field = "audio_elements" => kind = "audio_element",
         [builders[b] EXCEPT ![field] = Append(@, declaration)] \in BuilderTypes,
         Add(b, kind, field, declaration)
  PROVE  Declares(b)
<1> DEFINE held   == builders[b]
           longer == [held EXCEPT ![field] = Append(@, declaration)]
<1>1. held \in BuilderTypes /\ Typed /\ Offered(b)
  BY DEF DeclInv, Typed
<1>2. builders' = [builders EXCEPT ![b] = longer]
  BY DEF Add
<1>3. builders'[b] = longer
  BY <1>1, <1>2 DEF Typed
<1>4. builders' = [builders EXCEPT ![b] = builders'[b]]
  BY <1>2, <1>3
<1>5. held[field] \in Seq(Configs) \cup Seq(ElementDeclarations) \cup Seq(PresentationDeclarations)
                        \cup Seq(Seq(Nat)) \cup Seq([implicit : Seq(Nat), gain : TemplateGains])
  BY <1>1 DEF BuilderTypes
<1>6. Len(held[field]) \in Nat
  BY <1>5
<1>7. longer[field] = Append(held[field], declaration) /\ Len(longer[field]) = Len(held[field]) + 1
  <2>1. longer[field] = Append(held[field], declaration)
    BY <1>1 DEF BuilderTypes
  <2>2. Len(Append(held[field], declaration)) = Len(held[field]) + 1
    BY <1>5, SMT
  <2> QED  BY <2>1, <2>2
<1>8. /\ longer.generation = held.generation
      /\ field # "codec_configs" => longer.codec_configs = held.codec_configs
      /\ field # "audio_elements" => longer.audio_elements = held.audio_elements
  BY <1>1 DEF BuilderTypes
<1>9. Return(b, Handle(kind, held.generation, Len(held[field]))) /\ phase[b] = "open"
  BY DEF Add
<1>10. HandlesTyped' /\ given \subseteq given'
  BY <1>1, <1>6, <1>9, ReturnTyped
<1>11. <<b, Handle(kind, held.generation, Len(held[field]))>> \in given'
  BY <1>9 DEF Return
<1> HIDE DEF longer
<1>12. Offers(b, "codec_config", "codec_configs")'
  <2>1. CASE field = "codec_configs"
    BY <2>1, <1>1, <1>3, <1>6, <1>7, <1>8, <1>10, <1>11, OffersOneMore DEF Offered
  <2>2. CASE field # "codec_configs"
    BY <2>2, <1>1, <1>3, <1>8, <1>10, OffersKept DEF Offered
  <2> QED  BY <2>1, <2>2
<1>13. Offers(b, "audio_element", "audio_elements")'
  <2>1. CASE field = "audio_elements"
    BY <2>1, <1>1, <1>3, <1>6, <1>7, <1>8, <1>10, <1>11, OffersOneMore DEF Offered
  <2>2. CASE field # "audio_elements"
    BY <2>2, <1>1, <1>3, <1>8, <1>10, OffersKept DEF Offered
  <2> QED  BY <2>1, <2>2
<1> QED  BY <1>3, <1>4, <1>9, <1>10, <1>12, <1>13 DEF Declares, Offered, Return, longer

\* The handles an implicit declaration is given inside the builder.
LEMMA UpcomingTyped ==
  ASSUME NEW b, NEW kind, NEW field, NEW n \in Nat,
         builders[b].generation \in Nat, Len(builders[b][field]) \in Nat
  PROVE  Upcoming(b, kind, field, n) \in Seq(Handles(kind))
<1>1. \A i \in 1..n : Handle(kind, builders[b].generation, Len(builders[b][field]) + i - 1)
                        \in Handles(kind)
  BY DEF Handle, Handles
<1> QED  BY <1>1 DEF Upcoming

LEMMA AddAudioElementDeclares ==
  ASSUME DeclInv, NEW b \in Builders, NEW codec \in HandlesOf("codec_config"),
         NEW element \in Elements, AddAudioElement(b, codec, element)
  PROVE  Declares(b)
<1> DEFINE held   == builders[b]
           labels == [i \in DOMAIN element.labels |-> <<element.labels[i]>>]
           fresh  == Upcoming(b, "substream", "substreams", Len(element.labels))
           record == [codec |-> codec, substreams |-> fresh, element |-> element]
           longer == [held EXCEPT !.substreams = @ \o labels,
                                  !.audio_elements = Append(@, record)]
<1>1. held \in BuilderTypes /\ Typed /\ Offered(b)
  BY DEF DeclInv, Typed
<1>2. /\ held.audio_elements \in Seq(ElementDeclarations) /\ held.substreams \in Seq(Seq(Nat))
      /\ held.generation \in Nat
  BY <1>1 DEF BuilderTypes
<1>3. element.labels \in Seq(Nat)
  BY BuilderAssumption
<1>4. labels \in Seq(Seq(Nat))
  <2>1. DOMAIN element.labels = 1..Len(element.labels) /\ Len(element.labels) \in Nat
    BY <1>3
  <2>2. \A i \in 1..Len(element.labels) : <<element.labels[i]>> \in Seq(Nat)
    BY <1>3
  <2> QED  BY <2>1, <2>2
<1>5. fresh \in Seq(Handles("substream"))
  BY <1>2, <1>3, UpcomingTyped
<1>6. codec \in Handles("codec_config")
  BY <1>1, PassedTyped
<1>7. record \in ElementDeclarations
  BY <1>5, <1>6 DEF ElementDeclarations
<1>8. builders' = [builders EXCEPT ![b] = longer]
  BY DEF AddAudioElement
<1>9. Return(b, Handle("audio_element", held.generation, Len(held.audio_elements)))
      /\ phase[b] = "open"
  BY DEF AddAudioElement
<1> HIDE DEF labels, fresh, record
<1>10. held.substreams \o labels \in Seq(Seq(Nat))
       /\ Append(held.audio_elements, record) \in Seq(ElementDeclarations)
  BY <1>2, <1>4, <1>7
<1>11. /\ longer.generation = held.generation
       /\ longer.codec_configs = held.codec_configs
       /\ longer.audio_elements = Append(held.audio_elements, record)
       /\ longer \in BuilderTypes
  BY <1>1, <1>10 DEF BuilderTypes
<1>12. Len(held.audio_elements) \in Nat
       /\ Len(longer.audio_elements) = Len(held.audio_elements) + 1
  BY <1>2, <1>7, <1>11
<1> HIDE DEF longer
<1>13. builders'[b] = longer
  BY <1>1, <1>8 DEF Typed
<1>14. HandlesTyped' /\ given \subseteq given'
  BY <1>1, <1>9, <1>12, ReturnTyped
<1>15. <<b, Handle("audio_element", held.generation, Len(held.audio_elements))>> \in given'
  BY <1>9 DEF Return
<1>16. Offers(b, "codec_config", "codec_configs")'
  BY <1>1, <1>11, <1>13, <1>14, OffersKept DEF Offered
<1>17. Offers(b, "audio_element", "audio_elements")'
  BY <1>1, <1>11, <1>12, <1>13, <1>14, <1>15, OffersOneMore DEF Offered
<1> QED  BY <1>8, <1>9, <1>11, <1>13, <1>14, <1>16, <1>17 DEF Declares, Offered, Return

LEMMA AddMixPresentationDeclares ==
  ASSUME DeclInv, NEW b \in Builders, NEW elements \in ReferenceLists("audio_element"),
         NEW presentation \in Presentations, AddMixPresentation(b, elements, presentation)
  PROVE  Declares(b)
<1> DEFINE held   == builders[b]
           gains  == WireGains(presentation)
           ours   == [i \in DOMAIN gains |->
                        [implicit |-> <<gains[i].param>>, gain |-> gains[i]]]
           fresh  == Upcoming(b, "parameter", "parameters", Len(gains))
           record == [elements |-> elements, parameters |-> fresh,
                      presentation |-> presentation]
           longer == [held EXCEPT !.parameters = @ \o ours,
                                  !.mix_presentations = Append(@, record)]
           Fields == [implicit : Seq(Nat), gain : TemplateGains]
<1>1. held \in BuilderTypes /\ Typed /\ Offered(b)
  BY DEF DeclInv, Typed
<1>2. /\ held.mix_presentations \in Seq(PresentationDeclarations)
      /\ held.parameters \in Seq(Fields)
      /\ held.generation \in Nat
  BY <1>1 DEF BuilderTypes
<1>3. gains \in Seq(TemplateGains)
  BY GainsAssumption
<1>4. builders' = [builders EXCEPT ![b] = longer]
      /\ Return(b, Handle("mix_presentation", held.generation, Len(held.mix_presentations)))
      /\ phase[b] = "open"
  BY DEF AddMixPresentation
<1> HIDE DEF gains
<1>5. DOMAIN gains = 1..Len(gains) /\ Len(gains) \in Nat
  BY <1>3
<1>6. ours \in Seq(Fields)
  <2>1. \A i \in 1..Len(gains) : gains[i] \in TemplateGains
    BY <1>3
  <2>2. \A i \in 1..Len(gains) : <<gains[i].param>> \in Seq(Nat)
    BY <2>1 DEF TemplateGains
  <2>3. \A i \in 1..Len(gains) : [implicit |-> <<gains[i].param>>, gain |-> gains[i]] \in Fields
    BY <2>1, <2>2
  <2> QED  BY <1>5, <2>3
<1>7. fresh \in Seq(Handles("parameter"))
  BY <1>2, <1>3, UpcomingTyped
<1>8. elements \in Seq(Handles("audio_element"))
  BY <1>1, PassedTyped
<1>9. record \in PresentationDeclarations
  BY <1>7, <1>8 DEF PresentationDeclarations
<1> HIDE DEF ours, fresh, record
<1>10. held.parameters \o ours \in Seq(Fields)
       /\ Append(held.mix_presentations, record) \in Seq(PresentationDeclarations)
  BY <1>2, <1>6, <1>9
<1>11. /\ longer.generation = held.generation
       /\ longer.codec_configs = held.codec_configs
       /\ longer.audio_elements = held.audio_elements
       /\ longer \in BuilderTypes
  BY <1>1, <1>10 DEF BuilderTypes
<1> HIDE DEF longer
<1>12. builders'[b] = longer
  BY <1>1, <1>4 DEF Typed
<1>13. Len(held.mix_presentations) \in Nat
  BY <1>2
<1>14. HandlesTyped' /\ given \subseteq given'
  BY <1>1, <1>4, <1>13, ReturnTyped
<1>15. Offered(b)'
  BY <1>1, <1>11, <1>12, <1>14, OffersKept DEF Offered
<1> QED  BY <1>4, <1>11, <1>12, <1>14, <1>15 DEF Declares, Return

LEMMA DeclareDeclares ==
  ASSUME DeclInv, NEW b \in Builders, Declare(b)
  PROVE  Declares(b)
<1> DEFINE held == builders[b]
<1>1. held \in BuilderTypes /\ Typed
  BY DEF DeclInv, Typed
<1>2. ASSUME NEW config \in Configs, AddCodecConfig(b, config)
      PROVE  Declares(b)
  <2>1. Append(held.codec_configs, config) \in Seq(Configs)
    BY <1>1 DEF BuilderTypes
  <2>2. [held EXCEPT !.codec_configs = Append(@, config)] \in BuilderTypes
    BY <1>1, <2>1 DEF BuilderTypes
  <2> QED  BY <1>2, <2>2, AddDeclares DEF AddCodecConfig
<1>3. CASE AddSubstream(b)
  <2>1. Append(held.substreams, <<>>) \in Seq(Seq(Nat))
    BY <1>1 DEF BuilderTypes
  <2>2. [held EXCEPT !.substreams = Append(@, <<>>)] \in BuilderTypes
    BY <1>1, <2>1 DEF BuilderTypes
  <2> QED  BY <1>3, <2>2, AddDeclares DEF AddSubstream
<1>4. ASSUME NEW gain \in Gains, AddMixGainParameter(b, gain)
      PROVE  Declares(b)
  <2> DEFINE record == [implicit |-> <<>>, gain |-> gain]
  <2>1. record \in [implicit : Seq(Nat), gain : TemplateGains]
    BY GainsAssumption
  <2> HIDE DEF record
  <2>2. Append(held.parameters, record) \in Seq([implicit : Seq(Nat), gain : TemplateGains])
    BY <1>1, <2>1 DEF BuilderTypes
  <2>3. [held EXCEPT !.parameters = Append(@, record)] \in BuilderTypes
    BY <1>1, <2>2 DEF BuilderTypes
  <2> QED  BY <1>4, <2>3, AddDeclares DEF AddMixGainParameter, record
<1>5. ASSUME NEW codec \in HandlesOf("codec_config"), NEW element \in Elements,
             NEW substreams \in ReferenceLists("substream"),
             AddAudioElementWithSubstreams(b, codec, substreams, element)
      PROVE  Declares(b)
  <2> DEFINE record == [codec |-> codec, substreams |-> substreams, element |-> element]
  <2>1. record \in ElementDeclarations
    BY <1>1, PassedTyped DEF ElementDeclarations
  <2> HIDE DEF record
  <2>2. Append(held.audio_elements, record) \in Seq(ElementDeclarations)
    BY <1>1, <2>1 DEF BuilderTypes
  <2>3. [held EXCEPT !.audio_elements = Append(@, record)] \in BuilderTypes
    BY <1>1, <2>2 DEF BuilderTypes
  <2> QED  BY <1>5, <2>3, AddDeclares DEF AddAudioElementWithSubstreams, record
<1>6. ASSUME NEW elements \in ReferenceLists("audio_element"),
             NEW presentation \in Presentations,
             NEW parameters \in ReferenceLists("parameter"),
             AddMixPresentationWithParameters(b, elements, parameters, presentation)
      PROVE  Declares(b)
  <2> DEFINE record == [elements |-> elements, parameters |-> parameters,
                        presentation |-> presentation]
  <2>1. record \in PresentationDeclarations
    BY <1>1, PassedTyped DEF PresentationDeclarations
  <2> HIDE DEF record
  <2>2. Append(held.mix_presentations, record) \in Seq(PresentationDeclarations)
    BY <1>1, <2>1 DEF BuilderTypes
  <2>3. [held EXCEPT !.mix_presentations = Append(@, record)] \in BuilderTypes
    BY <1>1, <2>2 DEF BuilderTypes
  <2> QED  BY <1>6, <2>3, AddDeclares DEF AddMixPresentationWithParameters, record
<1> QED
  BY <1>2, <1>3, <1>4, <1>5, <1>6, AddAudioElementDeclares, AddMixPresentationDeclares
  DEF Declare

LEMMA BuildKeepsDeclInv ==
  ASSUME DeclInv, NEW b \in Builders, Build(b)
  PROVE  DeclInv'
<1> DEFINE held     == builders[b]
           manifest == Manifest(held)
           entries  == manifest.substream \cup manifest.parameter
<1>1. held \in BuilderTypes /\ Typed
  BY DEF DeclInv, Typed
<1>2. phase[b] = "open" /\ builders' = builders
  BY DEF Build
<1>3. /\ held.generation \in Nat
      /\ Len(held.substreams) \in Nat /\ Len(held.parameters) \in Nat
  BY <1>1 DEF BuilderTypes
<1>4. /\ manifest.substream = AllocateIds(held, "substream", "substreams")
      /\ manifest.parameter = AllocateIds(held, "parameter", "parameters")
  BY DEF Manifest
<1>5. \A entry \in entries : entry.handle \in Handles(entry.handle.kind)
  BY <1>3, <1>4 DEF AllocateIds, Handle, Handles
<1>6. /\ \A n \in Nat : n < Len(held.substreams) =>
            \E entry \in entries : entry.handle = Handle("substream", held.generation, n)
      /\ \A n \in Nat : n < Len(held.parameters) =>
            \E entry \in entries : entry.handle = Handle("parameter", held.generation, n)
  <2>1. ASSUME NEW n \in Nat, n < Len(held.substreams)
        PROVE  \E entry \in entries : entry.handle = Handle("substream", held.generation, n)
    <3> DEFINE entry == [handle |-> Handle("substream", held.generation, n), id |-> n]
    <3>1. entry \in manifest.substream
      BY <1>3, <1>4, <2>1 DEF AllocateIds
    <3>2. entry.handle = Handle("substream", held.generation, n)
      OBVIOUS
    <3> HIDE DEF entry
    <3> QED  BY <3>1, <3>2
  <2>2. ASSUME NEW n \in Nat, n < Len(held.parameters)
        PROVE  \E entry \in entries : entry.handle = Handle("parameter", held.generation, n)
    <3> DEFINE entry == [handle |-> Handle("parameter", held.generation, n), id |-> n]
    <3>1. entry \in manifest.parameter
      BY <1>3, <1>4, <2>2 DEF AllocateIds
    <3>2. entry.handle = Handle("parameter", held.generation, n)
      OBVIOUS
    <3> HIDE DEF entry
    <3> QED  BY <3>1, <3>2
  <2> QED  BY <2>1, <2>2
<1> HIDE DEF entries, manifest
<1>7. \/ /\ Buildable(held)
         /\ phase' = [phase EXCEPT ![b] = "built"]
         /\ encoders' = [encoders EXCEPT ![b] = <<Freeze(held)>>]
         /\ manifests' = [manifests EXCEPT ![b] = <<manifest>>]
         /\ given' = given \cup {<<b, entry.handle>> : entry \in entries}
      \/ /\ phase' = [phase EXCEPT ![b] = "rejected"]
         /\ encoders' = encoders /\ manifests' = manifests
         /\ given' = given
  BY DEF Build, entries, manifest
<1>8. Typed'
  <2>1. builders' \in [Builders -> BuilderTypes]
    BY <1>1, <1>2 DEF Typed
  <2>2. phase' \in [Builders -> {"unborn", "open", "built", "rejected"}]
        /\ encoders' = [c \in Builders |-> encoders'[c]]
        /\ manifests' = [c \in Builders |-> manifests'[c]]
    BY <1>1, <1>7 DEF Typed
  <2>3. HandlesTyped'
    <3>1. \A entry \in entries : <<b, entry.handle>>[2] = entry.handle
      OBVIOUS
    <3> QED  BY <1>1, <1>5, <1>7, <3>1 DEF Typed, HandlesTyped
  <2> QED  BY <2>1, <2>2, <2>3 DEF Typed
<1>9. given \subseteq given'
  BY <1>7
<1>10. ASSUME NEW c \in Builders
       PROVE  Offered(c)' /\ BuiltAsDeclared(c)'
  <2>1. Offered(c)'
    BY <1>2, <1>9 DEF DeclInv, Offered, Offers
  <2>2. CASE c # b
    <3>1. phase'[c] = phase[c] /\ encoders'[c] = encoders[c]
          /\ manifests'[c] = manifests[c]
      BY <1>1, <1>7, <2>2 DEF Typed
    <3>2. BuiltAsDeclared(c)
      BY DEF DeclInv
    <3>3. \A kind, field : Offers(c, kind, field) => Offers(c, kind, field)'
      BY <1>2, <1>9 DEF Offers
    <3>4. Built(c)' = Built(c)
      BY <3>1 DEF Built
    <3> QED  BY <2>1, <3>1, <3>2, <3>3, <3>4, <1>2 DEF BuiltAsDeclared
  <2>3. CASE c = b
    <3> SUFFICES ASSUME Built(b)' PROVE BuiltAsDeclared(b)'
      BY <2>1, <2>3 DEF BuiltAsDeclared
    <3>1. /\ Buildable(held) /\ encoders' = [encoders EXCEPT ![b] = <<Freeze(held)>>]
          /\ manifests' = [manifests EXCEPT ![b] = <<manifest>>]
          /\ given' = given \cup {<<b, entry.handle>> : entry \in entries}
      BY <1>1, <1>7 DEF Built, Typed
    <3>2. encoders'[b] = <<Freeze(held)>> /\ manifests'[b] = <<Manifest(held)>>
      BY <1>1, <3>1 DEF Typed, manifest
    <3>3. Offers(b, "substream", "substreams")' /\ Offers(b, "parameter", "parameters")'
      BY <1>2, <1>6, <3>1 DEF Offers
    <3> QED  BY <1>2, <3>1, <3>2, <3>3 DEF BuiltAsDeclared
  <2> QED  BY <2>2, <2>3
<1> QED  BY <1>8, <1>10 DEF DeclInv

LEMMA NewKeepsDeclInv ==
  ASSUME DeclInv, GenInv, NEW b \in Builders, New(b)
  PROVE  DeclInv'
<1>1. /\ phase[b] = "unborn" /\ phase' = [phase EXCEPT ![b] = "open"]
      /\ builders' = [builders EXCEPT ![b] = Empty(next_generation)]
      /\ given' = given /\ encoders' = encoders /\ manifests' = manifests
  BY DEF New
<1>2. Typed
  BY DEF DeclInv
<1>3. Empty(next_generation) \in BuilderTypes
  BY DEF GenInv, Shape, Empty, BuilderTypes
<1>4. Typed'
  BY <1>1, <1>2, <1>3 DEF Typed, HandlesTyped
<1>5. ASSUME NEW c \in Builders
      PROVE  Offered(c)' /\ BuiltAsDeclared(c)'
  <2>1. CASE c = b
    <3>1. builders'[b] = Empty(next_generation) /\ phase'[b] = "open"
      BY <1>1, <1>2 DEF Typed
    <3>2. Len(builders'[b].codec_configs) = 0 /\ Len(builders'[b].audio_elements) = 0
      BY <3>1 DEF Empty
    <3>3. ~Built(b)'
      BY <3>1 DEF Built
    <3>4. BuiltAsDeclared(b)'
      BY <3>3 DEF BuiltAsDeclared
    <3> QED  BY <2>1, <3>2, <3>4 DEF Offered, Offers
  <2>2. CASE c # b
    <3>1. builders'[c] = builders[c] /\ Built(c)' = Built(c)
      BY <1>1, <1>2, <2>2 DEF Typed, Built
    <3>2. Offered(c) /\ BuiltAsDeclared(c)
      BY DEF DeclInv
    <3>3. \A kind, field : Offers(c, kind, field) => Offers(c, kind, field)'
      BY <1>1, <3>1 DEF Offers
    <3> QED  BY <1>1, <3>1, <3>2, <3>3 DEF Offered, BuiltAsDeclared
  <2> QED  BY <2>1, <2>2
<1> QED  BY <1>4, <1>5 DEF DeclInv

LEMMA DeclInvInductive == BuilderSpec => []DeclInv
<1>1. BuilderInit => DeclInv
  <2> SUFFICES ASSUME BuilderInit PROVE DeclInv
    OBVIOUS
  <2>1. Empty(0) \in BuilderTypes
    BY DEF Empty, BuilderTypes
  <2>2. Typed
    BY <2>1 DEF BuilderInit, Typed, HandlesTyped
  <2>3. ASSUME NEW b \in Builders
        PROVE  Offered(b) /\ BuiltAsDeclared(b)
    <3>1. phase[b] = "unborn" /\ builders[b] = Empty(0)
      BY DEF BuilderInit
    <3>2. Len(builders[b].codec_configs) = 0 /\ Len(builders[b].audio_elements) = 0
      BY <3>1 DEF Empty
    <3> QED  BY <3>1, <3>2 DEF Offered, Offers, BuiltAsDeclared, Built
  <2> QED  BY <2>2, <2>3 DEF DeclInv
<1>2. DeclInv /\ GenInv /\ [BuilderNext]_builderVars => DeclInv'
  <2> SUFFICES ASSUME DeclInv, GenInv, [BuilderNext]_builderVars PROVE DeclInv'
    OBVIOUS
  <2>1. CASE \E b \in Builders : New(b)
    BY <2>1, NewKeepsDeclInv
  <2>2. CASE \E b \in Builders : Declare(b)
    BY <2>2, DeclareDeclares, DeclaresKeepsDeclInv
  <2>3. CASE \E b \in Builders : Build(b)
    BY <2>3, BuildKeepsDeclInv
  <2>4. CASE AllConsumed \/ UNCHANGED builderVars
    <3>1. /\ builders' = builders /\ phase' = phase /\ given' = given /\ encoders' = encoders
          /\ manifests' = manifests
      BY <2>4 DEF AllConsumed, builderVars
    <3> QED
      BY <3>1 DEF DeclInv, Typed, HandlesTyped, Offered, Offers, BuiltAsDeclared, Built
  <2> QED  BY <2>1, <2>2, <2>3, <2>4 DEF BuilderNext
<1> QED  BY <1>1, <1>2, GenInvInductive, PTL DEF BuilderSpec

----------------------------------------------------------------------------

\* A reference that build has checked is a handle of this builder.
LEMMA KnownGiven ==
  ASSUME NEW b, NEW kind, NEW field, Offers(b, kind, field),
         NEW handle \in Handles(kind), Known(builders[b], field, handle)
  PROVE  <<b, handle>> \in given
<1>1. handle = Handle(kind, builders[b].generation, handle.index) /\ handle.index \in Nat
  BY DEF Handles, Known, Handle
<1> QED  BY <1>1 DEF Offers, Known

LEMMA ReferenceCases ==
  ASSUME NEW builder, NEW handle \in References(builder)
  PROVE  \/ \E i \in DOMAIN builder.audio_elements :
              \/ handle = builder.audio_elements[i].codec
              \/ handle \in ToSet(builder.audio_elements[i].substreams)
         \/ \E i \in DOMAIN builder.mix_presentations :
              \/ handle \in ToSet(builder.mix_presentations[i].elements)
              \/ handle \in ToSet(builder.mix_presentations[i].parameters)
<1> DEFINE elements      == builder.audio_elements
           presentations == builder.mix_presentations
           codecs        == {elements[i].codec : i \in DOMAIN elements}
           substreams    == {ToSet(elements[i].substreams) : i \in DOMAIN elements}
           played        == {ToSet(presentations[i].elements) : i \in DOMAIN presentations}
           parameters    == {ToSet(presentations[i].parameters) : i \in DOMAIN presentations}
<1>1. References(builder)
        = codecs \cup (UNION substreams) \cup (UNION played) \cup (UNION parameters)
  BY DEF References
<1>2. CASE handle \in codecs
  BY <1>2
<1>3. CASE handle \in UNION substreams
  BY <1>3
<1>4. CASE handle \in UNION played
  BY <1>4
<1>5. CASE handle \in UNION parameters
  BY <1>5
<1> HIDE DEF codecs, substreams, played, parameters
<1>6. handle \in codecs \/ handle \in UNION substreams \/ handle \in UNION played
        \/ handle \in UNION parameters
  BY <1>1
<1> QED  BY <1>2, <1>3, <1>4, <1>5, <1>6

\* Whatever handles a caller passes, and to which builder, nothing is built on
\* the declarations of another one (own_handle, resolve_parameter_references).
THEOREM OwnReferences == BuilderSpec => []OwnHandles
<1>1. DeclInv => OwnHandles
  <2> SUFFICES ASSUME DeclInv, NEW b \in Builders, Built(b),
                      NEW handle \in References(builders[b])
               PROVE  <<b, handle>> \in given
    BY DEF OwnHandles
  <2> DEFINE held == builders[b]
  <2>1. /\ held \in BuilderTypes /\ Buildable(held)
        /\ Offers(b, "codec_config", "codec_configs")
        /\ Offers(b, "audio_element", "audio_elements")
        /\ Offers(b, "substream", "substreams")
        /\ Offers(b, "parameter", "parameters")
    BY DEF DeclInv, Typed, BuiltAsDeclared, Offered
  <2>2. /\ \A i \in DOMAIN held.audio_elements :
             held.audio_elements[i] \in ElementDeclarations
               /\ ElementAccepted(held, held.audio_elements[i])
        /\ \A i \in DOMAIN held.mix_presentations :
             held.mix_presentations[i] \in PresentationDeclarations
               /\ PresentationAccepted(held, held.mix_presentations[i])
    BY <2>1 DEF BuilderTypes, Buildable, ValidateDeclarations
  <2>3. ASSUME NEW i \in DOMAIN held.audio_elements, handle = held.audio_elements[i].codec
        PROVE  <<b, handle>> \in given
    BY <2>1, <2>2, <2>3, KnownGiven DEF ElementDeclarations, ElementAccepted
  <2>4. ASSUME NEW i \in DOMAIN held.audio_elements,
               handle \in ToSet(held.audio_elements[i].substreams)
        PROVE  <<b, handle>> \in given
    <3>1. PICK k \in DOMAIN held.audio_elements[i].substreams :
                 handle = held.audio_elements[i].substreams[k]
      BY <2>4 DEF ToSet
    <3>2. handle \in Handles("substream") /\ Known(held, "substreams", handle)
      BY <2>2, <3>1 DEF ElementDeclarations, ElementAccepted
    <3> QED  BY <2>1, <3>2, KnownGiven
  <2>5. ASSUME NEW i \in DOMAIN held.mix_presentations,
               handle \in ToSet(held.mix_presentations[i].elements)
        PROVE  <<b, handle>> \in given
    <3>1. PICK k \in DOMAIN held.mix_presentations[i].elements :
                 handle = held.mix_presentations[i].elements[k]
      BY <2>5 DEF ToSet
    <3>2. handle \in Handles("audio_element") /\ Known(held, "audio_elements", handle)
      BY <2>2, <3>1 DEF PresentationDeclarations, PresentationAccepted
    <3> QED  BY <2>1, <3>2, KnownGiven
  <2>6. ASSUME NEW i \in DOMAIN held.mix_presentations,
               handle \in ToSet(held.mix_presentations[i].parameters)
        PROVE  <<b, handle>> \in given
    <3>1. PICK k \in DOMAIN held.mix_presentations[i].parameters :
                 handle = held.mix_presentations[i].parameters[k]
      BY <2>6 DEF ToSet
    <3>2. Known(held, "parameters", handle)
      BY <2>1, <3>1 DEF Buildable, ParametersResolve
    <3>3. handle \in Handles("parameter")
      BY <2>2, <3>1 DEF PresentationDeclarations
    <3> QED  BY <2>1, <3>2, <3>3, KnownGiven
  <2>7. \/ \E i \in DOMAIN held.audio_elements :
             \/ handle = held.audio_elements[i].codec
             \/ handle \in ToSet(held.audio_elements[i].substreams)
        \/ \E i \in DOMAIN held.mix_presentations :
             \/ handle \in ToSet(held.mix_presentations[i].elements)
             \/ handle \in ToSet(held.mix_presentations[i].parameters)
    BY ReferenceCases
  <2> QED  BY <2>3, <2>4, <2>5, <2>6, <2>7
<1> QED  BY <1>1, DeclInvInductive, PTL

\* Elements that share a substream in the file agree on its codec and its
\* channels, whatever they are declared with (shared_substream).
THEOREM SharedAudio == BuilderSpec => []SharedAudioAgrees
<1>1. DeclInv => SharedAudioAgrees
  <2> SUFFICES ASSUME DeclInv, NEW b \in Builders, Built(b),
                      NEW i \in DOMAIN Frozen(b).elements, NEW j \in DOMAIN Frozen(b).elements,
                      NEW m \in DOMAIN Frozen(b).elements[i].substreams,
                      NEW n \in DOMAIN Frozen(b).elements[j].substreams,
                      Frozen(b).elements[i].substreams[m] = Frozen(b).elements[j].substreams[n]
               PROVE  /\ Frozen(b).elements[i].codec = Frozen(b).elements[j].codec
                      /\ Frozen(b).elements[i].channels[m] = Frozen(b).elements[j].channels[n]
    BY DEF SharedAudioAgrees
  <2> DEFINE held  == builders[b]
             one   == held.audio_elements[i]
             other == held.audio_elements[j]
  <2>1. held \in BuilderTypes /\ Buildable(held) /\ encoders[b] = <<Freeze(held)>>
    BY DEF DeclInv, Typed, BuiltAsDeclared
  <2>2. Frozen(b).elements = [k \in DOMAIN held.audio_elements |-> LowerElement(held, k)]
    <3>1. encoders[b][1] = Freeze(held)
      BY <2>1
    <3>2. Freeze(held).set = Lowered(held)
      BY DEF Freeze
    <3>3. Lowered(held).elements = [k \in DOMAIN held.audio_elements |-> LowerElement(held, k)]
      BY DEF Lowered
    <3> QED  BY <3>1, <3>2, <3>3 DEF Frozen
  <2>3. /\ i \in DOMAIN held.audio_elements /\ j \in DOMAIN held.audio_elements
        /\ Frozen(b).elements[i] = LowerElement(held, i)
        /\ Frozen(b).elements[j] = LowerElement(held, j)
    BY <2>2
  <2>4. /\ m \in DOMAIN one.substreams /\ n \in DOMAIN other.substreams
        /\ one.substreams[m].index = other.substreams[n].index
    <3>1. LowerElement(held, i).substreams = Indices(one.substreams)
          /\ LowerElement(held, j).substreams = Indices(other.substreams)
      BY DEF LowerElement
    <3>2. /\ m \in DOMAIN Indices(one.substreams) /\ n \in DOMAIN Indices(other.substreams)
          /\ Indices(one.substreams)[m] = Indices(other.substreams)[n]
      BY <2>3, <3>1
    <3> HIDE DEF one, other
    <3> QED  BY <3>2 DEF Indices
  <2>5. one \in ElementDeclarations /\ other \in ElementDeclarations
    BY <2>1, <2>3 DEF BuilderTypes
  <2>6. ElementAccepted(held, one) /\ ElementAccepted(held, other)
    BY <2>1, <2>3 DEF Buildable, ValidateDeclarations
  <2>7. one.substreams[m] = other.substreams[n]
    <3>1. one.substreams[m] \in Handles("substream")
          /\ other.substreams[n] \in Handles("substream")
      BY <2>4, <2>5 DEF ElementDeclarations
    <3>2. one.substreams[m].generation = held.generation
          /\ other.substreams[n].generation = held.generation
      BY <2>4, <2>6 DEF ElementAccepted, Known
    <3> QED  BY <2>4, <3>1, <3>2 DEF Handles
  <2>8. SharingAgrees(one, m, other, n)
    BY <2>3, <2>4, <2>6 DEF ElementAccepted
  <2>9. one.codec = other.codec
        /\ SubstreamChannels(one.element, m) = SubstreamChannels(other.element, n)
    BY <2>7, <2>8 DEF SharingAgrees
  <2>10. /\ LowerElement(held, i).codec = one.codec.index
         /\ LowerElement(held, j).codec = other.codec.index
         /\ LowerElement(held, i).channels =
              [k \in DOMAIN one.substreams |-> SubstreamChannels(one.element, k)]
         /\ LowerElement(held, j).channels =
              [k \in DOMAIN other.substreams |-> SubstreamChannels(other.element, k)]
    BY DEF LowerElement
  <2> HIDE DEF held, one, other
  <2>11. /\ LowerElement(held, i).codec = LowerElement(held, j).codec
         /\ LowerElement(held, i).channels[m] = LowerElement(held, j).channels[n]
    BY <2>4, <2>9, <2>10
  <2> QED  BY <2>3, <2>11
<1> QED  BY <1>1, DeclInvInductive, PTL
----------------------------------------------------------------------------
(* What is frozen                                                          *)

\* Elements get their ids in the order they are listed in, so the sort of
\* from_descriptors leaves them there.
LEMMA SortedAlready ==
  ASSUME NEW items, NEW n \in Nat, DOMAIN items = 1..n, items = [i \in 1..n |-> items[i]],
         \A i \in 1..n : items[i].id = i - 1
  PROVE  SortedById(items) = items
<1>1. ASSUME NEW i \in 1..n
      PROVE  StableRank(items, i) = i
  <2>1. {j \in DOMAIN items : \/ items[j].id < items[i].id
                              \/ items[j].id = items[i].id /\ j <= i} = 1..i
    OBVIOUS
  <2>2. Cardinality(1..i) = i
    <3>1. 1 \in Int /\ i \in Int /\ ~(1 > i)
      OBVIOUS
    <3>2. Cardinality(1..i) = i - 1 + 1
      BY <3>1, FS_Interval
    <3> QED  BY <3>1, <3>2
  <2> QED  BY <2>1, <2>2 DEF StableRank
<1>2. ASSUME NEW k \in 1..n
      PROVE  (CHOOSE i \in DOMAIN items : StableRank(items, i) = k) = k
  BY <1>1
<1> QED  BY <1>2 DEF SortedById

LEMMA NoLists ==
  ASSUME NEW n \in Nat
  PROVE  FlattenSeq([i \in 1..n |-> <<>>]) = <<>>
<1> DEFINE lists == [i \in 1..n |-> <<>>]
<1>1. <<>> \in Seq({})
  OBVIOUS
<1>2. lists \in Seq(Seq({}))
  BY <1>1
<1> HIDE DEF lists
<1>3. FlattenSeq(lists) \in Seq({})
  BY <1>2, FlattenMembers
<1>4. \A s \in Seq({}) : s = <<>>
  OBVIOUS
<1> QED  BY <1>3, <1>4 DEF lists

\* What the registry holds for a parameter handle.
WireDefinition(builder, handle) ==
  [param |-> handle.index,
   shape |-> "mix_gain",
   gain  |-> builder.parameters[handle.index + 1].gain]

\* The registry of the frozen descriptors is the list of parameters that the
\* presentations use, each with the gain it was declared with: no element of
\* an encoder has parameters.
LEMMA FrozenRegistry ==
  ASSUME NEW held \in BuilderTypes
  PROVE  /\ UsedParameters(held) \in Seq(Handles("parameter"))
         /\ FromDescriptors(Lowered(held))
              = [k \in DOMAIN UsedParameters(held) |->
                   WireDefinition(held, UsedParameters(held)[k])]
<1> DEFINE n        == Len(held.audio_elements)
           elements == Lowered(held).elements
           used     == [i \in DOMAIN held.mix_presentations |->
                          held.mix_presentations[i].parameters]
           S        == Handles("parameter")
           g        == [h \in S |-> WireDefinition(held, h)]
           R        == {g[h] : h \in S}
           image    == [i \in DOMAIN used |-> [j \in DOMAIN used[i] |-> g[used[i][j]]]]
<1>1. /\ held.audio_elements \in Seq(ElementDeclarations)
      /\ held.mix_presentations \in Seq(PresentationDeclarations)
  BY DEF BuilderTypes
<1>2. n \in Nat /\ DOMAIN held.audio_elements = 1..n
  BY <1>1
<1>3. elements = [i \in 1..n |-> LowerElement(held, i)]
  BY <1>2 DEF Lowered
<1>4. \A i \in 1..n : LowerElement(held, i).id = i - 1
                      /\ LowerElement(held, i).definitions = <<>>
  BY DEF LowerElement
<1>5. SortedById(elements) = elements
  <2>1. DOMAIN elements = 1..n /\ elements = [i \in 1..n |-> elements[i]]
        /\ \A i \in 1..n : elements[i].id = i - 1
    BY <1>3, <1>4
  <2> HIDE DEF elements, n
  <2> QED  BY <1>2, <2>1, SortedAlready
<1>6. ObserveAudioElements(elements) = <<>>
  <2>1. [i \in DOMAIN elements |-> elements[i].definitions] = [i \in 1..n |-> <<>>]
    BY <1>3, <1>4
  <2>2. Definitions(elements) = <<>>
    BY <1>2, <2>1, NoLists DEF Definitions
  <2>3. Decoded(<<>>) = <<>>
    <3>1. [i \in DOMAIN <<>> |-> IF IsDecoded(<<>>[i]) THEN <<(<<>>[i])>> ELSE <<>>] = <<>>
      OBVIOUS
    <3> QED  BY ONLY <3>1, FlattenEmpty, Zenon DEF Decoded
  <2> QED  BY ONLY <2>2, <2>3, Zenon DEF ObserveAudioElements
<1>7. used \in Seq(Seq(S))
  <2>1. \A i \in DOMAIN held.mix_presentations : used[i] \in Seq(S)
    <3> TAKE i \in DOMAIN held.mix_presentations
    <3>1. held.mix_presentations[i] \in PresentationDeclarations
      BY <1>1, SeqMember
    <3> QED  BY <3>1 DEF PresentationDeclarations
  <2>2. used = [i \in DOMAIN held.mix_presentations |-> used[i]]
    OBVIOUS
  <2>3. ListOf(Seq(S), held.mix_presentations, used)
    <3> HIDE DEF used, S
    <3> QED  BY <1>1, <2>1, <2>2, ListTyped
  <2> QED  BY <2>3 DEF ListOf
<1>8. Definitions(Lowered(held).presentations) = FlattenSeq(image)
  <2>1. Lowered(held).presentations
          = [i \in DOMAIN held.mix_presentations |-> LowerPresentation(held, i)]
    BY DEF Lowered
  <2>2. ASSUME NEW i \in DOMAIN held.mix_presentations
        PROVE  LowerPresentation(held, i).definitions
                 = [j \in DOMAIN used[i] |-> g[used[i][j]]]
    <3>1. held.mix_presentations[i].parameters \in Seq(S)
      <4>1. held.mix_presentations[i] \in PresentationDeclarations
        BY <1>1, SeqMember
      <4> QED  BY <4>1 DEF PresentationDeclarations
    <3>2. LowerPresentation(held, i).definitions
            = [k \in DOMAIN held.mix_presentations[i].parameters |->
                 WireDefinition(held, held.mix_presentations[i].parameters[k])]
      BY DEF LowerPresentation, WireDefinition
    <3>3. \A k \in DOMAIN held.mix_presentations[i].parameters :
            g[held.mix_presentations[i].parameters[k]]
              = WireDefinition(held, held.mix_presentations[i].parameters[k])
      BY <3>1, SeqMember
    <3> HIDE DEF g, S
    <3> QED  BY <3>2, <3>3
  <2> HIDE DEF g, S
  <2>3. [i \in DOMAIN Lowered(held).presentations |-> Lowered(held).presentations[i].definitions]
          = image
    <3>1. [i \in DOMAIN Lowered(held).presentations |-> Lowered(held).presentations[i].definitions]
            = [i \in DOMAIN held.mix_presentations |-> LowerPresentation(held, i).definitions]
      BY <2>1
    <3> QED  BY <2>2, <3>1
  <2> HIDE DEF image
  <2> QED  BY <2>3 DEF Definitions
<1>9. g \in [S -> R]
  OBVIOUS
<1>10. UsedParameters(held) = FlattenSeq(used)
  BY DEF UsedParameters
<1> HIDE DEF used, g, R, S, elements
<1>11. /\ FlattenSeq(used) \in Seq(S)
       /\ FlattenSeq(image) = [k \in DOMAIN FlattenSeq(used) |-> g[FlattenSeq(used)[k]]]
  <2>1. FlattenSeq(used) \in Seq(S)
    BY <1>7, FlattenMembers
  <2>2. FlattenSeq(image) = [k \in DOMAIN FlattenSeq(used) |-> g[FlattenSeq(used)[k]]]
    <3>1. image = MappedLists(g, used)
      BY DEF image, MappedLists, Mapped
    <3>2. FlattenSeq(MappedLists(g, used)) = Mapped(g, FlattenSeq(used))
      BY <1>7, <1>9, FlattenMap
    <3> QED  BY <3>1, <3>2 DEF Mapped
  <2> QED  BY <2>1, <2>2
<1>12. \A k \in DOMAIN FlattenSeq(used) :
         g[FlattenSeq(used)[k]] = WireDefinition(held, FlattenSeq(used)[k])
  BY <1>11, SeqMember DEF g
<1> HIDE DEF image
<1>13. FlattenSeq(image)
         = [k \in DOMAIN FlattenSeq(used) |-> WireDefinition(held, FlattenSeq(used)[k])]
  BY <1>11, <1>12
<1>14. FlattenSeq(image) \in Seq(R)
  BY <1>9, <1>11, SeqMember
<1>15. <<>> \o FlattenSeq(image) = FlattenSeq(image)
  BY <1>14, ConcatEmptySeq
<1>16. FromDescriptors(Lowered(held)) = FlattenSeq(image)
  BY <1>5, <1>6, <1>8, <1>15 DEF FromDescriptors, elements
<1> QED  BY <1>10, <1>11, <1>13, <1>16 DEF S
\* The manifest lists every handle of a kind once, under its index.
LEMMA IdIsIndex ==
  ASSUME NEW builder, NEW kind, NEW field, Len(builder[field]) \in Nat,
         NEW handle \in Handles(kind), Known(builder, field, handle)
  PROVE  IdOf(AllocateIds(builder, kind, field), handle) = handle.index
<1> DEFINE entries == AllocateIds(builder, kind, field)
           ids     == {entry.id : entry \in entries}
<1>1. /\ handle = Handle(kind, builder.generation, handle.index)
      /\ handle.index \in 0..(Len(builder[field]) - 1)
  BY DEF Handles, Handle, Known
<1>2. [handle |-> handle, id |-> handle.index] \in entries
  BY <1>1 DEF AllocateIds
<1>3. handle.index \in ids
  <2>1. [handle |-> handle, id |-> handle.index].id = handle.index
    OBVIOUS
  <2> HIDE DEF entries
  <2> QED  BY <1>2, <2>1
<1>4. ASSUME NEW id, [handle |-> handle, id |-> id] \in entries
      PROVE  id = handle.index
  <2>1. PICK index \in 0..(Len(builder[field]) - 1) :
               [handle |-> handle, id |-> id]
                 = [handle |-> Handle(kind, builder.generation, index), id |-> index]
    BY <1>4 DEF AllocateIds
  <2>2. handle = Handle(kind, builder.generation, index) /\ id = index
    BY <2>1
  <2> QED  BY <2>2 DEF Handle
<1> HIDE DEF entries, ids
<1>5. (CHOOSE id \in ids : [handle |-> handle, id |-> id] \in entries) = handle.index
  BY <1>2, <1>3, <1>4
<1> QED  BY <1>5 DEF IdOf, entries, ids

\* get finds an entry of a parameter that a registry has.
LEMMA GetFinds ==
  ASSUME NEW S, NEW registry \in Seq(S), NEW param,
         \E i \in DOMAIN registry : registry[i].param = param
  PROVE  /\ IsGoverned(registry, param)
         /\ Get(registry, param) \in DOMAIN registry
         /\ registry[Get(registry, param)].param = param
<1> DEFINE I == {i \in 1..Len(registry) : registry[i].param = param}
<1>1. I # {} /\ I \in SUBSET Nat /\ DOMAIN registry = 1..Len(registry)
  OBVIOUS
<1>2. Get(registry, param) = Min(I)
  BY <1>1 DEF Get, SelectInSeq
<1>3. Min(I) = CHOOSE x \in I : \A y \in I : x <= y
  BY DEF Min
<1>4. Min(I) \in I
  <2> HIDE DEF I
  <2>1. \E x \in I : \A y \in I : x <= y
    BY <1>1, LeastMember
  <2> QED  BY <1>3, <2>1
<1>5. Get(registry, param) # 0
  BY <1>2, <1>4
<1> QED  BY <1>1, <1>2, <1>4, <1>5 DEF IsGoverned

\* What is known of a built builder.
LEMMA BuiltFacts ==
  ASSUME DeclInv, NEW b \in Builders, Built(b)
  PROVE  /\ builders[b] \in BuilderTypes
         /\ Buildable(builders[b])
         /\ Frozen(b) = Lowered(builders[b])
         /\ encoders[b][1] = Freeze(builders[b])
         /\ manifests[b][1] = Manifest(builders[b])
<1>1. /\ builders[b] \in BuilderTypes /\ Buildable(builders[b])
      /\ encoders[b] = <<Freeze(builders[b])>> /\ manifests[b] = <<Manifest(builders[b])>>
  BY DEF DeclInv, Typed, BuiltAsDeclared
<1>2. Freeze(builders[b]).set = Lowered(builders[b])
  BY DEF Freeze
<1>3. encoders[b][1] = Freeze(builders[b]) /\ manifests[b][1] = Manifest(builders[b])
  BY <1>1
<1> QED  BY <1>1, <1>2, <1>3 DEF Frozen

\* The declarations of a builder, and what build has checked of them.
LEMMA CheckedPresentation ==
  ASSUME NEW held \in BuilderTypes, Buildable(held), NEW i \in DOMAIN held.mix_presentations
  PROVE  LET declared == held.mix_presentations[i]
         IN  /\ declared.elements \in Seq(Handles("audio_element"))
             /\ declared.parameters \in Seq(Handles("parameter"))
             /\ PresentationAccepted(held, declared)
             /\ \A k \in DOMAIN declared.elements :
                  /\ declared.elements[k] \in Handles("audio_element")
                  /\ Known(held, "audio_elements", declared.elements[k])
             /\ \A k \in DOMAIN declared.parameters :
                  /\ declared.parameters[k] \in Handles("parameter")
                  /\ Known(held, "parameters", declared.parameters[k])
<1> DEFINE declared == held.mix_presentations[i]
<1>1. declared \in PresentationDeclarations
  BY SeqMember DEF BuilderTypes
<1>2. /\ declared.elements \in Seq(Handles("audio_element"))
      /\ declared.parameters \in Seq(Handles("parameter"))
  BY <1>1 DEF PresentationDeclarations
<1>3. PresentationAccepted(held, declared)
  BY DEF Buildable, ValidateDeclarations
<1>4. \A k \in DOMAIN declared.parameters : Known(held, "parameters", declared.parameters[k])
  BY DEF Buildable, ParametersResolve
<1>5. \A k \in DOMAIN declared.elements : Known(held, "audio_elements", declared.elements[k])
  BY <1>3 DEF PresentationAccepted
<1> HIDE DEF declared
<1>6. /\ \A k \in DOMAIN declared.elements : declared.elements[k] \in Handles("audio_element")
      /\ \A k \in DOMAIN declared.parameters : declared.parameters[k] \in Handles("parameter")
  BY <1>2, SeqMember
<1> QED  BY <1>2, <1>3, <1>4, <1>5, <1>6 DEF declared

LEMMA CheckedElement ==
  ASSUME NEW held \in BuilderTypes, Buildable(held), NEW i \in DOMAIN held.audio_elements
  PROVE  LET declared == held.audio_elements[i]
         IN  /\ declared.codec \in Handles("codec_config")
             /\ Known(held, "codec_configs", declared.codec)
             /\ declared.substreams \in Seq(Handles("substream"))
             /\ IsInjective(declared.substreams)
             /\ \A k \in DOMAIN declared.substreams :
                  /\ declared.substreams[k] \in Handles("substream")
                  /\ Known(held, "substreams", declared.substreams[k])
<1> DEFINE declared == held.audio_elements[i]
<1>1. declared \in ElementDeclarations
  BY SeqMember DEF BuilderTypes
<1>2. /\ declared.codec \in Handles("codec_config")
      /\ declared.substreams \in Seq(Handles("substream"))
  BY <1>1 DEF ElementDeclarations
<1>3. ElementAccepted(held, declared)
  BY DEF Buildable, ValidateDeclarations
<1> HIDE DEF declared
<1>4. /\ Known(held, "codec_configs", declared.codec)
      /\ IsInjective(declared.substreams)
      /\ \A k \in DOMAIN declared.substreams : Known(held, "substreams", declared.substreams[k])
  BY <1>3 DEF ElementAccepted
<1>5. \A k \in DOMAIN declared.substreams : declared.substreams[k] \in Handles("substream")
  BY <1>2, SeqMember
<1> QED  BY <1>2, <1>4, <1>5 DEF declared
\* An element found by the id of a handle is the one declared under it.
LEMMA ElementFound ==
  ASSUME NEW held \in BuilderTypes, NEW index \in Nat, index < Len(held.audio_elements)
  PROVE  LET elements == Lowered(held).elements
             at       == SelectInSeq(elements, LAMBDA element : element.id = index)
         IN  /\ index + 1 \in DOMAIN held.audio_elements
             /\ at = index + 1
             /\ elements[at] = LowerElement(held, index + 1)
<1> DEFINE n        == Len(held.audio_elements)
           elements == Lowered(held).elements
           I        == {i \in 1..Len(elements) : elements[i].id = index}
<1>1. n \in Nat /\ DOMAIN held.audio_elements = 1..n
  BY DEF BuilderTypes
<1>2. elements = [i \in 1..n |-> LowerElement(held, i)] /\ Len(elements) = n
  BY <1>1 DEF Lowered
<1>3. \A i \in 1..n : elements[i].id = i - 1
  <2>1. \A i \in 1..n : LowerElement(held, i).id = i - 1
    BY DEF LowerElement
  <2> HIDE DEF n
  <2> QED  BY <1>2, <2>1
<1>4. index + 1 \in 1..n
  BY <1>1
<1>5. I = {index + 1}
  <2> HIDE DEF elements, n
  <2> QED  BY <1>1, <1>2, <1>3, <1>4
<1>6. SelectInSeq(elements, LAMBDA element : element.id = index) = Min(I)
  BY <1>5 DEF SelectInSeq
<1>7. Min(I) = index + 1
  BY <1>5 DEF Min
<1> HIDE DEF elements, I
<1>8. elements[index + 1] = LowerElement(held, index + 1)
  BY <1>2, <1>4
<1> QED  BY <1>1, <1>4, <1>6, <1>7, <1>8 DEF elements

\* The handles a caller declared with mean the same in what is frozen
\* (EncoderBuilder::build, IdManifest).
THEOREM MeaningKept == BuilderSpec => []HandlesKeepMeaning
<1>1. ASSUME DeclInv, NEW b \in Builders, Built(b), NEW i \in DOMAIN builders[b].mix_presentations
      PROVE  LET declared == builders[b].mix_presentations[i]
                 written  == Frozen(b).presentations[i]
                 registry == FromDescriptors(Frozen(b))
             IN  \A k \in DOMAIN declared.parameters :
                   LET handle == declared.parameters[k]
                       id     == IdOf(manifests[b][1].parameter, handle)
                   IN  /\ written.definitions[k].param = id
                       /\ IsGoverned(registry, id)
                       /\ registry[Get(registry, id)].gain
                            = builders[b].parameters[handle.index + 1].gain
  <2> DEFINE held     == builders[b]
             declared == held.mix_presentations[i]
             used     == UsedParameters(held)
             registry == FromDescriptors(Frozen(b))
  <2>1. /\ held \in BuilderTypes /\ Buildable(held)
        /\ Frozen(b) = Lowered(held) /\ manifests[b][1] = Manifest(held)
    BY <1>1, BuiltFacts
  <2>2. /\ used \in Seq(Handles("parameter"))
        /\ registry = [k \in DOMAIN used |-> WireDefinition(held, used[k])]
    BY <2>1, FrozenRegistry
  <2> SUFFICES ASSUME NEW k \in DOMAIN declared.parameters
               PROVE  LET handle == declared.parameters[k]
                          id     == IdOf(manifests[b][1].parameter, handle)
                      IN  /\ Frozen(b).presentations[i].definitions[k].param = id
                          /\ IsGoverned(registry, id)
                          /\ registry[Get(registry, id)].gain
                               = held.parameters[handle.index + 1].gain
    OBVIOUS
  <2> DEFINE handle == declared.parameters[k]
             id     == IdOf(manifests[b][1].parameter, handle)
  <2>3. handle \in Handles("parameter") /\ Known(held, "parameters", handle)
    BY <1>1, <2>1, CheckedPresentation
  <2>4. id = handle.index
    <3>1. Len(held.parameters) \in Nat
      BY <2>1 DEF BuilderTypes
    <3>2. manifests[b][1].parameter = AllocateIds(held, "parameter", "parameters")
      BY <2>1 DEF Manifest
    <3> QED  BY <2>3, <3>1, <3>2, IdIsIndex
  <2>5. Frozen(b).presentations[i].definitions[k].param = handle.index
    <3>1. Frozen(b).presentations[i] = LowerPresentation(held, i)
      BY <1>1, <2>1 DEF Lowered
    <3>2. LowerPresentation(held, i).definitions
            = [l \in DOMAIN declared.parameters |->
                 WireDefinition(held, declared.parameters[l])]
      BY DEF LowerPresentation, WireDefinition
    <3>3. WireDefinition(held, handle).param = handle.index
      BY DEF WireDefinition
    <3> HIDE DEF declared
    <3> QED  BY <3>1, <3>2, <3>3
  <2>6. \E l \in DOMAIN used : used[l] = handle
    <3> DEFINE lists == [j \in DOMAIN held.mix_presentations |-> held.mix_presentations[j].parameters]
    <3>1. \A j \in DOMAIN held.mix_presentations :
            held.mix_presentations[j].parameters \in Seq(Handles("parameter"))
      BY <2>1, CheckedPresentation
    <3>2. lists \in Seq(Seq(Handles("parameter")))
      <4>1. held.mix_presentations \in Seq(PresentationDeclarations)
        BY <2>1 DEF BuilderTypes
      <4>2. lists = [j \in DOMAIN held.mix_presentations |-> lists[j]]
            /\ \A j \in DOMAIN held.mix_presentations : lists[j] \in Seq(Handles("parameter"))
        BY <3>1
      <4> HIDE DEF lists
      <4>3. ListOf(Seq(Handles("parameter")), held.mix_presentations, lists)
        BY <4>1, <4>2, ListTyped
      <4> QED  BY <4>3 DEF ListOf
    <3>3. used = FlattenSeq(lists)
      BY DEF UsedParameters
    <3>4. i \in DOMAIN lists /\ k \in DOMAIN lists[i] /\ lists[i][k] = handle
      BY <1>1
    <3> HIDE DEF lists, used, handle
    <3>5. \E l \in DOMAIN FlattenSeq(lists) : FlattenSeq(lists)[l] = lists[i][k]
      BY <3>2, <3>4, FlattenMembers
    <3> QED  BY <3>3, <3>4, <3>5
  <2> HIDE DEF registry, used, handle, id
  <2>7. /\ IsGoverned(registry, id)
        /\ Get(registry, id) \in DOMAIN registry
        /\ registry[Get(registry, id)].param = id
    <3> DEFINE R == {WireDefinition(held, used[l]) : l \in DOMAIN used}
    <3>1. registry \in Seq(R)
      BY <2>2
    <3>2. PICK l \in DOMAIN used : used[l] = handle
      BY <2>6
    <3>3. WireDefinition(held, handle).param = id
      BY <2>4 DEF WireDefinition
    <3>4. l \in DOMAIN registry /\ registry[l].param = id
      BY <2>2, <3>2, <3>3
    <3> HIDE DEF R
    <3> QED  BY <3>1, <3>4, GetFinds
  <2>8. registry[Get(registry, id)].gain = held.parameters[handle.index + 1].gain
    <3> DEFINE l == Get(registry, id)
    <3>1. registry[l] = WireDefinition(held, used[l])
      BY <2>2, <2>7
    <3>2. /\ WireDefinition(held, used[l]).param = used[l].index
          /\ WireDefinition(held, used[l]).gain = held.parameters[used[l].index + 1].gain
      BY DEF WireDefinition
    <3>3. used[l].index = handle.index
      BY <2>4, <2>7, <3>1, <3>2
    <3> QED  BY <3>1, <3>2, <3>3
  <2> QED  BY <2>4, <2>5, <2>7, <2>8 DEF registry, id, handle
<1>2. ASSUME DeclInv, NEW b \in Builders, Built(b), NEW i \in DOMAIN builders[b].mix_presentations
      PROVE  LET declared == builders[b].mix_presentations[i]
                 written  == Frozen(b).presentations[i]
                 set      == Frozen(b)
                 manifest == manifests[b][1]
             IN  \A k \in DOMAIN declared.elements :
                   LET handle == declared.elements[k]
                       at     == SelectInSeq(set.elements,
                                             LAMBDA element : element.id = written.elements[k])
                       source == builders[b].audio_elements[handle.index + 1]
                   IN  /\ written.elements[k] = IdOf(manifest.audio_element, handle)
                       /\ at # 0
                       /\ set.elements[at].codec = IdOf(manifest.codec_config, source.codec)
                       /\ \A m \in DOMAIN source.substreams :
                            set.elements[at].substreams[m]
                              = IdOf(manifest.substream, source.substreams[m])
  <2> DEFINE held     == builders[b]
             declared == held.mix_presentations[i]
             manifest == manifests[b][1]
  <2>1. /\ held \in BuilderTypes /\ Buildable(held)
        /\ Frozen(b) = Lowered(held) /\ manifest = Manifest(held)
    BY <1>2, BuiltFacts
  <2> SUFFICES ASSUME NEW k \in DOMAIN declared.elements
               PROVE  LET handle  == declared.elements[k]
                          written == Frozen(b).presentations[i].elements[k]
                          at      == SelectInSeq(Frozen(b).elements,
                                                 LAMBDA element : element.id = written)
                          source  == held.audio_elements[handle.index + 1]
                      IN  /\ written = IdOf(manifest.audio_element, handle)
                          /\ at # 0
                          /\ Frozen(b).elements[at].codec
                               = IdOf(manifest.codec_config, source.codec)
                          /\ \A m \in DOMAIN source.substreams :
                               Frozen(b).elements[at].substreams[m]
                                 = IdOf(manifest.substream, source.substreams[m])
    OBVIOUS
  <2> DEFINE handle  == declared.elements[k]
             written == Frozen(b).presentations[i].elements[k]
             source  == held.audio_elements[handle.index + 1]
  <2>2. handle \in Handles("audio_element") /\ Known(held, "audio_elements", handle)
    BY <1>2, <2>1, CheckedPresentation
  <2>3. handle.index \in Nat /\ handle.index < Len(held.audio_elements)
    BY <2>2 DEF Handles, Known
  <2>4. written = handle.index
    <3>1. Frozen(b).presentations[i] = LowerPresentation(held, i)
      BY <1>2, <2>1 DEF Lowered
    <3>2. LowerPresentation(held, i).elements = Indices(declared.elements)
      BY DEF LowerPresentation
    <3> HIDE DEF declared
    <3>3. Indices(declared.elements)[k] = handle.index
      BY DEF Indices
    <3> QED  BY <3>1, <3>2, <3>3
  <2>5. /\ manifest.audio_element = AllocateIds(held, "audio_element", "audio_elements")
        /\ manifest.codec_config = AllocateIds(held, "codec_config", "codec_configs")
        /\ manifest.substream = AllocateIds(held, "substream", "substreams")
    BY <2>1 DEF Manifest
  <2>6. /\ Len(held.audio_elements) \in Nat /\ Len(held.codec_configs) \in Nat
        /\ Len(held.substreams) \in Nat
    BY <2>1 DEF BuilderTypes
  <2>7. IdOf(manifest.audio_element, handle) = handle.index
    BY <2>2, <2>5, <2>6, IdIsIndex
  <2> DEFINE at == SelectInSeq(Frozen(b).elements, LAMBDA element : element.id = handle.index)
  <2>8. /\ handle.index + 1 \in DOMAIN held.audio_elements
        /\ at = handle.index + 1
        /\ Frozen(b).elements[at] = LowerElement(held, handle.index + 1)
    BY <2>1, <2>3, ElementFound
  <2>9. /\ source.codec \in Handles("codec_config")
        /\ Known(held, "codec_configs", source.codec)
        /\ \A m \in DOMAIN source.substreams :
             /\ source.substreams[m] \in Handles("substream")
             /\ Known(held, "substreams", source.substreams[m])
    BY <2>1, <2>8, CheckedElement
  <2>10. /\ IdOf(manifest.codec_config, source.codec) = source.codec.index
         /\ \A m \in DOMAIN source.substreams :
              IdOf(manifest.substream, source.substreams[m]) = source.substreams[m].index
    <3> HIDE DEF source, manifest
    <3>1. IdOf(manifest.codec_config, source.codec) = source.codec.index
      BY <2>5, <2>6, <2>9, IdIsIndex
    <3>2. ASSUME NEW m \in DOMAIN source.substreams
          PROVE  IdOf(manifest.substream, source.substreams[m]) = source.substreams[m].index
      <4>1. source.substreams[m] \in Handles("substream")
            /\ Known(held, "substreams", source.substreams[m])
        BY <2>9
      <4> QED  BY <2>5, <2>6, <4>1, IdIsIndex
    <3> QED  BY <3>1, <3>2
  <2>11. /\ LowerElement(held, handle.index + 1).codec = source.codec.index
         /\ \A m \in DOMAIN source.substreams :
              LowerElement(held, handle.index + 1).substreams[m] = source.substreams[m].index
    BY DEF LowerElement, Indices
  <2>12. at # 0
    <3> HIDE DEF at, handle
    <3> QED  BY <2>3, <2>8
  <2>13. at = SelectInSeq(Frozen(b).elements, LAMBDA element : element.id = written)
    BY <2>4
  <2> HIDE DEF at, source, handle, written, manifest
  <2>14. /\ written = IdOf(manifest.audio_element, handle)
         /\ at # 0
         /\ Frozen(b).elements[at].codec = IdOf(manifest.codec_config, source.codec)
         /\ \A m \in DOMAIN source.substreams :
              Frozen(b).elements[at].substreams[m] = IdOf(manifest.substream, source.substreams[m])
    BY <2>4, <2>7, <2>8, <2>10, <2>11, <2>12
  <2> QED  BY <2>13, <2>14 DEF source, handle, written, manifest
<1>3. DeclInv => HandlesKeepMeaning
  BY <1>1, <1>2 DEF HandlesKeepMeaning
<1> QED  BY <1>3, DeclInvInductive, PTL
\* Checked handles of one builder differ in their index.
LEMMA SameIndexSameHandle ==
  ASSUME NEW builder, NEW kind, NEW field,
         NEW one \in Handles(kind), Known(builder, field, one),
         NEW other \in Handles(kind), Known(builder, field, other),
         one.index = other.index
  PROVE  one = other
BY DEF Handles, Known

\* A built builder has one Codec Config: presentations need elements, which
\* need one, and a second is refused.
LEMMA OneCodecConfig ==
  ASSUME NEW held \in BuilderTypes, Buildable(held)
  PROVE  /\ Len(held.codec_configs) = 1 /\ DOMAIN held.codec_configs = {1}
         /\ \A i \in DOMAIN held.audio_elements : held.audio_elements[i].codec.index = 0
<1>1. /\ held.codec_configs \in Seq(Configs)
      /\ held.audio_elements \in Seq(ElementDeclarations)
      /\ held.mix_presentations \in Seq(PresentationDeclarations)
  BY DEF BuilderTypes
<1>2. Len(held.codec_configs) <= 1 /\ held.mix_presentations # <<>>
  BY DEF Buildable, ValidateDeclarations, TimingAgrees
<1>3. 1 \in DOMAIN held.mix_presentations
  BY <1>1, <1>2
<1>4. held.mix_presentations[1].elements # <<>>
  BY <1>3, CheckedPresentation DEF PresentationAccepted
<1>5. PICK handle \in Handles("audio_element") : Known(held, "audio_elements", handle)
  <2>1. /\ held.mix_presentations[1].elements \in Seq(Handles("audio_element"))
        /\ \A k \in DOMAIN held.mix_presentations[1].elements :
             /\ held.mix_presentations[1].elements[k] \in Handles("audio_element")
             /\ Known(held, "audio_elements", held.mix_presentations[1].elements[k])
    BY <1>3, CheckedPresentation
  <2>2. 1 \in DOMAIN held.mix_presentations[1].elements
    BY <1>4, <2>1
  <2> QED  BY <2>1, <2>2
<1>6. 1 \in DOMAIN held.audio_elements
  BY <1>1, <1>5 DEF Known, Handles
<1>7. ASSUME NEW i \in DOMAIN held.audio_elements
      PROVE  /\ held.audio_elements[i].codec.index \in Nat
             /\ held.audio_elements[i].codec.index < Len(held.codec_configs)
  BY <1>7, CheckedElement DEF Known, Handles
<1>8. Len(held.codec_configs) = 1
  <2>1. /\ held.audio_elements[1].codec.index \in Nat
        /\ held.audio_elements[1].codec.index < Len(held.codec_configs)
    BY <1>6, <1>7
  <2>2. Len(held.codec_configs) \in Nat
    BY <1>1
  <2>3. \A i, n \in Nat : i < n /\ n <= 1 => n = 1
    OBVIOUS
  <2> QED  BY ONLY <1>2, <2>1, <2>2, <2>3, Zenon
<1>9. DOMAIN held.codec_configs = {1}
  BY <1>1, <1>8
<1> QED  BY <1>7, <1>8, <1>9

\* The manifest has as many ids as there are declarations.
LEMMA ManifestSize ==
  ASSUME NEW builder, NEW kind, NEW field, Len(builder[field]) \in Nat
  PROVE  Cardinality(AllocateIds(builder, kind, field)) = Len(builder[field])
<1> DEFINE n == Len(builder[field])
           f == [index \in 0..(n - 1) |->
                   [handle |-> Handle(kind, builder.generation, index), id |-> index]]
           T == AllocateIds(builder, kind, field)
<1>1. \A index \in 0..(n - 1) :
        f[index] = [handle |-> Handle(kind, builder.generation, index), id |-> index]
  OBVIOUS
<1>2. T = {f[index] : index \in 0..(n - 1)}
  BY DEF AllocateIds
<1>3. \A i, j \in 0..(n - 1) : f[i] = f[j] => i = j
  <2> TAKE i, j \in 0..(n - 1)
  <2>1. f[i].id = i /\ f[j].id = j
    BY <1>1
  <2> HIDE DEF f
  <2> QED  BY <2>1
<1>4. f \in [0..(n - 1) -> T]
  BY <1>2
<1> HIDE DEF f, T
<1>5. f \in Bijection(0..(n - 1), T)
  BY <1>2, <1>3, <1>4 DEF Bijection, Injection, Surjection, IsInjective
<1>6. IsFiniteSet(0..(n - 1)) /\ Cardinality(0..(n - 1)) = n
  <2>1. 0 \in Int /\ n - 1 \in Int
    OBVIOUS
  <2>2. IsFiniteSet(0..(n - 1))
        /\ Cardinality(0..(n - 1)) = IF 0 > n - 1 THEN 0 ELSE (n - 1) - 0 + 1
    BY <2>1, FS_Interval
  <2> QED  BY <2>2
<1>7. Cardinality(0..(n - 1)) = Cardinality(T)
  BY <1>5, <1>6, FS_Bijection DEF ExistsBijection
<1> QED  BY <1>6, <1>7 DEF T

\* What EncodingWriter takes for granted of an encoder is what build checks.
THEOREM FrozenCoherent == BuilderSpec => []FrozenIsCoherent
<1>1. ASSUME DeclInv, NEW b \in Builders, Built(b)
      PROVE  LET set      == Frozen(b)
                 registry == FromDescriptors(set)
             IN  /\ Len(set.codec_configs) = 1
                 /\ \A i \in DOMAIN set.elements :
                      /\ set.elements[i].codec = set.codec_configs[1].id
                      /\ IsInjective(set.elements[i].substreams)
                 /\ (UNION {ToSet(set.elements[i].substreams) : i \in DOMAIN set.elements})
                      = 0..(Cardinality(manifests[b][1].substream) - 1)
                 /\ IsInjective([i \in DOMAIN registry |-> registry[i].param])
                 /\ \A i \in DOMAIN registry :
                      /\ registry[i].gain.rate = set.codec_configs[1].config.rate
                      /\ registry[i].gain.duration \in {<<>>, <<encoders[b][1].frame_size>>}
  <2> DEFINE held     == builders[b]
             set      == Frozen(b)
             used     == UsedParameters(held)
             registry == FromDescriptors(set)
  <2>1. /\ held \in BuilderTypes /\ Buildable(held)
        /\ set = Lowered(held) /\ manifests[b][1] = Manifest(held)
        /\ encoders[b][1] = Freeze(held)
    BY <1>1, BuiltFacts
  <2>2. /\ Len(held.codec_configs) = 1 /\ DOMAIN held.codec_configs = {1}
        /\ \A i \in DOMAIN held.audio_elements : held.audio_elements[i].codec.index = 0
    BY <2>1, OneCodecConfig
  <2>3. /\ Len(set.codec_configs) = 1
        /\ set.codec_configs[1].id = 0
        /\ set.codec_configs[1].config = held.codec_configs[1]
    <3>1. set.codec_configs = [i \in DOMAIN held.codec_configs |->
                                 [id |-> i - 1, config |-> held.codec_configs[i]]]
      BY <2>1 DEF Lowered
    <3>2. DOMAIN set.codec_configs = 1..1
      BY <2>2, <3>1
    <3>3. set.codec_configs[1] = [id |-> 1 - 1, config |-> held.codec_configs[1]]
      BY <2>2, <3>1
    <3> HIDE DEF set
    <3>4. Len(set.codec_configs) = 1
      BY <3>1, <3>2
    <3> QED  BY <3>3, <3>4
  <2>4. set.elements = [i \in DOMAIN held.audio_elements |-> LowerElement(held, i)]
    BY <2>1 DEF Lowered
  <2>5. ASSUME NEW i \in DOMAIN held.audio_elements
        PROVE  /\ LowerElement(held, i).codec = 0
               /\ LowerElement(held, i).substreams = Indices(held.audio_elements[i].substreams)
               /\ IsInjective(Indices(held.audio_elements[i].substreams))
    <3> DEFINE declared == held.audio_elements[i]
    <3>1. /\ IsInjective(declared.substreams)
          /\ \A k \in DOMAIN declared.substreams :
               /\ declared.substreams[k] \in Handles("substream")
               /\ Known(held, "substreams", declared.substreams[k])
      BY <2>1, CheckedElement
    <3>2. LowerElement(held, i).codec = declared.codec.index
          /\ LowerElement(held, i).substreams = Indices(declared.substreams)
      BY DEF LowerElement
    <3> HIDE DEF declared
    <3>3. \A k, l \in DOMAIN declared.substreams :
            declared.substreams[k].index = declared.substreams[l].index =>
              declared.substreams[k] = declared.substreams[l]
      BY <3>1, SameIndexSameHandle
    <3>4. IsInjective(Indices(declared.substreams))
      BY <3>1, <3>3 DEF IsInjective, Indices
    <3> QED  BY <2>2, <3>2, <3>4 DEF declared
  <2>6. \A i \in DOMAIN set.elements :
          /\ set.elements[i].codec = set.codec_configs[1].id
          /\ IsInjective(set.elements[i].substreams)
    <3> HIDE DEF set, held
    <3> QED  BY <2>3, <2>4, <2>5
  <2>7. (UNION {ToSet(set.elements[i].substreams) : i \in DOMAIN set.elements})
          = 0..(Len(held.substreams) - 1)
    <3> DEFINE n   == Len(held.substreams)
               all == UNION {ToSet(set.elements[i].substreams) : i \in DOMAIN set.elements}
    <3>1. n \in Nat
      BY <2>1 DEF BuilderTypes
    <3>2. \A i \in DOMAIN held.audio_elements :
            ToSet(set.elements[i].substreams)
              = {held.audio_elements[i].substreams[k].index :
                   k \in DOMAIN held.audio_elements[i].substreams}
      <4> TAKE i \in DOMAIN held.audio_elements
      <4>1. set.elements[i].substreams = Indices(held.audio_elements[i].substreams)
        <5> HIDE DEF set, held
        <5> QED  BY <2>4, <2>5
      <4> HIDE DEF set, held
      <4> QED  BY <4>1 DEF ToSet, Indices
    <3>3. ASSUME NEW index \in all
          PROVE  index \in 0..(n - 1)
      <4>1. PICK i \in DOMAIN held.audio_elements : index \in ToSet(set.elements[i].substreams)
        <5> HIDE DEF set, held
        <5> QED  BY <2>4, <3>3
      <4>2. PICK k \in DOMAIN held.audio_elements[i].substreams :
                   index = held.audio_elements[i].substreams[k].index
        BY <3>2, <4>1
      <4>3. held.audio_elements[i].substreams[k] \in Handles("substream")
            /\ Known(held, "substreams", held.audio_elements[i].substreams[k])
        BY <2>1, <4>1, <4>2, CheckedElement
      <4> QED  BY <3>1, <4>2, <4>3 DEF Handles, Known
    <3>4. ASSUME NEW index \in 0..(n - 1)
          PROVE  index \in all
      <4>1. EverySubstreamUsed(held)
        BY <2>1 DEF Buildable, ValidateDeclarations
      <4>2. PICK i \in DOMAIN held.audio_elements :
                   \E k \in DOMAIN held.audio_elements[i].substreams :
                     held.audio_elements[i].substreams[k].index = index
        BY <4>1 DEF EverySubstreamUsed
      <4>3. index \in ToSet(set.elements[i].substreams) /\ i \in DOMAIN set.elements
        <5>1. i \in DOMAIN set.elements
          BY <2>4
        <5> HIDE DEF set, held
        <5> QED  BY <3>2, <4>2, <5>1
      <4> QED  BY <4>3
    <3> HIDE DEF all, n
    <3>5. all = 0..(n - 1)
      BY <3>3, <3>4
    <3> QED  BY <3>5 DEF all, n
  <2>8. Cardinality(manifests[b][1].substream) = Len(held.substreams)
    <3>1. manifests[b][1].substream = AllocateIds(held, "substream", "substreams")
      BY <2>1 DEF Manifest
    <3>2. Len(held.substreams) \in Nat
      BY <2>1 DEF BuilderTypes
    <3> QED  BY <3>1, <3>2, ManifestSize
  <2>9. /\ used \in Seq(Handles("parameter"))
        /\ registry = [k \in DOMAIN used |-> WireDefinition(held, used[k])]
    BY <2>1, FrozenRegistry
  <2>10. \A k \in DOMAIN used : /\ used[k] \in Handles("parameter")
                                /\ Known(held, "parameters", used[k])
    <3> DEFINE lists == [j \in DOMAIN held.mix_presentations |-> held.mix_presentations[j].parameters]
               Own   == {handle \in Handles("parameter") : Known(held, "parameters", handle)}
    <3>1. held.mix_presentations \in Seq(PresentationDeclarations)
      BY <2>1 DEF BuilderTypes
    <3>2. ASSUME NEW j \in DOMAIN held.mix_presentations
          PROVE  held.mix_presentations[j].parameters \in Seq(Own)
      <4> DEFINE parameters == held.mix_presentations[j].parameters
      <4>1. /\ parameters \in Seq(Handles("parameter"))
            /\ \A k \in DOMAIN parameters : parameters[k] \in Own
        BY <2>1, CheckedPresentation
      <4> HIDE DEF parameters, Own
      <4>2. parameters \in Seq(Own)
        BY <4>1
      <4> QED  BY <4>2 DEF parameters
    <3>3. lists \in Seq(Seq(Own))
      <4>1. lists = [j \in DOMAIN held.mix_presentations |-> lists[j]]
            /\ \A j \in DOMAIN held.mix_presentations : lists[j] \in Seq(Own)
        BY <3>2
      <4> HIDE DEF lists, Own
      <4>2. ListOf(Seq(Own), held.mix_presentations, lists)
        BY <3>1, <4>1, ListTyped
      <4> QED  BY <4>2 DEF ListOf
    <3>4. used = FlattenSeq(lists)
      BY DEF UsedParameters
    <3> HIDE DEF lists, Own, used
    <3>5. used \in Seq(Own)
      BY <3>3, <3>4, FlattenMembers
    <3>6. \A k \in DOMAIN used : used[k] \in Own
      BY <3>5, SeqMember
    <3> QED  BY <3>6 DEF Own
  <2>11. IsInjective(used)
    BY <2>1 DEF Buildable, ParametersResolve
  <2>12. IsInjective([i \in DOMAIN registry |-> registry[i].param])
    <3>1. \A k \in DOMAIN used : registry[k].param = used[k].index
      <4>1. \A h : WireDefinition(held, h).param = h.index
        BY DEF WireDefinition
      <4> HIDE DEF registry, used
      <4> QED  BY <2>9, <4>1
    <3>2. \A k, l \in DOMAIN used : used[k].index = used[l].index => used[k] = used[l]
      <4> HIDE DEF used
      <4> QED  BY <2>10, SameIndexSameHandle
    <3>3. DOMAIN registry = DOMAIN used
      BY <2>9
    <3> HIDE DEF registry, used
    <3> QED  BY <2>11, <3>1, <3>2, <3>3 DEF IsInjective
  <2>13. ASSUME NEW i \in DOMAIN registry
         PROVE  /\ registry[i].gain.rate = set.codec_configs[1].config.rate
                /\ registry[i].gain.duration \in {<<>>, <<encoders[b][1].frame_size>>}
    <3>1. i \in DOMAIN used /\ registry[i] = WireDefinition(held, used[i])
      BY <2>9
    <3>2. registry[i].gain = held.parameters[used[i].index + 1].gain
      <4>1. WireDefinition(held, used[i]).gain = held.parameters[used[i].index + 1].gain
        BY DEF WireDefinition
      <4> QED  BY <3>1, <4>1
    <3>3. used[i].index + 1 \in DOMAIN held.parameters
      <4>1. used[i] \in Handles("parameter") /\ Known(held, "parameters", used[i])
        BY <2>10, <3>1
      <4>2. used[i].index \in Nat /\ used[i].index < Len(held.parameters)
        BY <4>1 DEF Handles, Known
      <4>3. Len(held.parameters) \in Nat /\ DOMAIN held.parameters = 1..Len(held.parameters)
        BY <2>1 DEF BuilderTypes
      <4> QED  BY <4>2, <4>3
    <3>4. TimingAgrees(held) /\ held.codec_configs # <<>>
      <4>1. TimingAgrees(held)
        BY <2>1 DEF Buildable, ValidateDeclarations
      <4>2. held.codec_configs # <<>>
        BY <2>2
      <4> QED  BY <4>1, <4>2
    <3>5. /\ held.parameters[used[i].index + 1].gain.rate = held.codec_configs[1].rate
          /\ held.parameters[used[i].index + 1].gain.duration
               \in {<<>>, <<held.codec_configs[1].frame_size>>}
      <4> HIDE DEF held, used
      <4> QED  BY <3>3, <3>4 DEF TimingAgrees
    <3>6. encoders[b][1].frame_size = held.codec_configs[1].frame_size
      BY <2>1 DEF Freeze
    <3> HIDE DEF registry, used, set, held
    <3> QED  BY <2>3, <3>2, <3>5, <3>6
  <2> HIDE DEF registry, used, set, held
  <2> QED  BY <2>3, <2>6, <2>7, <2>8, <2>12, <2>13 DEF registry, set
<1>2. DeclInv => FrozenIsCoherent
  BY <1>1 DEF FrozenIsCoherent
<1> QED  BY <1>2, DeclInvInductive, PTL
=============================================================================
