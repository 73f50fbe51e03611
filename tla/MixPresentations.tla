-------------------------- MODULE MixPresentations --------------------------
(***************************************************************************)
(* The Mix Presentation payload (mix_presentation.rs).                     *)
(*   presentation [mix_presentation_id, languages, annotations, sub_mixes, *)
(*                 trailing]                                               *)
(*   sub-mix      [elements, output_mix_gain, layouts]                     *)
(*   element      [audio_element_id, annotations, mode, reserved,          *)
(*                 extension, element_mix_gain]                            *)
(*   gain         [definition, default_mix_gain]                           *)
(*   layout       [type, sound_system, reserved, loudness]                 *)
(*   loudness     [integrated, digital_peak, true_peak, anchored,          *)
(*                 extension]                                              *)
(* A string is a sequence of bytes without the terminator of the wire.     *)
(*                                                                         *)
(* A name with a suffix after an underscore is a faulty form of the        *)
(* definition below it; no specification uses it.                          *)
(***************************************************************************)
EXTENDS ParameterBlocks

HeadphonesModes == {0, 1}
SoundSystems == 0 .. 13
SoundSystemLayout == 2
BinauralLayout == 3

----------------------------------------------------------------------------
(* Strings and gains                                                       *)

\* As many strings as a count that was read before.
ReadStrings(r, count) ==
  IF r.err = Ok /\ count > BytesRemaining(r) THEN Failed(r, "UnexpectedEndOfInput")
  ELSE ReadMany(Yield(r, count), LAMBDA c : ReadAs(c, <<Text>>, LAMBDA h : Front(h[1])))

ReadMixGainParamDefinition(r) ==
  Built(r, Read(ReadParamDefinition(Fresh(r)), <<Signed(16)>>), LAMBDA h :
        [definition |-> h[1], default_mix_gain |-> h[2]])

PutMixGainParamDefinition(gain) ==
  PutParamDefinition(gain.definition) \o PutSigned(gain.default_mix_gain, 16)

----------------------------------------------------------------------------
(* Loudness                                                                *)

\* The bits that gate a member each are among them.
ExtensionBits_Whole(info_type) == info_type

\* The extension bits of info_type, and the two that gate a member each.
ExtensionBits(info_type) == (info_type \div 4) * 4
HasTruePeak(info_type) == info_type % 2 = 1
HasAnchored(info_type) == (info_type \div 2) % 2 = 1

\* Every anchored element takes three bytes.
ReadAnchored(r) ==
  Built(r, AndThen(Read(Fresh(r), <<Bits(8)>>), LAMBDA c :
             IF 3 * LastRead(c) > BytesRemaining(c) THEN Failed(c, "UnexpectedEndOfInput")
             ELSE ReadMany(c, LAMBDA s : ReadAs(s, <<Bits(8), Signed(16)>>, LAMBDA h : h))),
        LAMBDA h : Some(h[1]))

\* A member that a bit of info_type gates.
ReadPeak(r) ==
  IF HasTruePeak(r.out[1]) THEN ReadAs(r, <<Signed(16)>>, LAMBDA h : Some(h[1]))
  ELSE Yield(r, None)

ReadGatedAnchored(r) == IF HasAnchored(r.out[1]) THEN ReadAnchored(r) ELSE Yield(r, None)

ReadLoudnessExtension(r) ==
  LET bits == ExtensionBits(r.out[1])
  IN  IF bits = 0 THEN Yield(r, None)
      ELSE Built(r, ReadSized(Fresh(r)), LAMBDA h : Some([bits |-> bits, bytes |-> h[1]]))

ReadLoudness(r) ==
  Built(r, AndThen(AndThen(AndThen(Read(Fresh(r), <<Bits(8), Signed(16), Signed(16)>>),
                                   ReadPeak), ReadGatedAnchored), ReadLoudnessExtension),
        LAMBDA h : [integrated |-> h[2], digital_peak |-> h[3], true_peak |-> h[4],
                    anchored |-> h[5], extension |-> h[6]])

\* info_type is computed from the members it gates.
InfoType(v) ==
  Len(v.true_peak) + 2 * Len(v.anchored)
  + (IF v.extension = None THEN 0 ELSE ExtensionBits(v.extension[1].bits))

PutLoudness(v) ==
  LET PutAnchor(a) == Put(a[1], 8) \o PutSigned(a[2], 16)
      PutAnchored(anchors) ==
        Refuse(Len(anchors) > 255, "ObuTooLarge")
        \o Put(Len(anchors), 8) \o PutEach(anchors, PutAnchor)
      PutPeak(peak) == PutSigned(peak, 16)
      PutExtension(e) == PutUleb(Len(e.bytes)) \o PutSpan(e.bytes)
      Lossy(e) == ExtensionBits(e.bits) = 0 \/ e.bits % 4 # 0
  IN  Refuse(\E i \in DOMAIN v.extension : Lossy(v.extension[i]), "GatedFieldMismatch")
      \o Put(InfoType(v), 8) \o PutSigned(v.integrated, 16) \o PutSigned(v.digital_peak, 16)
      \o PutEach(v.true_peak, PutPeak)
      \o PutEach(v.anchored, PutAnchored)
      \o PutEach(v.extension, PutExtension)

----------------------------------------------------------------------------
(* Layouts                                                                 *)

ReadSystem(r) ==
  IF LastRead(r) = SoundSystemLayout
    THEN ReadAs(r, <<Bits(4), Bits(2)>>, LAMBDA h : <<Some(Enum(SoundSystems, h[1])), h[2]>>)
    ELSE ReadAs(r, <<Bits(6)>>, LAMBDA h : <<None, h[1]>>)

ReadLayout(r) ==
  Built(r, ReadLoudness(AndThen(Read(Fresh(r), <<Bits(2)>>), ReadSystem)), LAMBDA h :
        [type         |-> Enum({SoundSystemLayout, BinauralLayout}, h[1]),
         sound_system |-> h[2][1], reserved |-> h[2][2], loudness |-> h[3]])

PutLayout(v) ==
  Refuse(Aliases({SoundSystemLayout, BinauralLayout}, v.type), "ReservedAliasesDefinedValue")
  \o Put(v.type.raw, 2)
  \o (IF v.sound_system = None THEN Put(v.reserved, 6)
      ELSE Put(v.sound_system[1].raw, 4) \o Put(v.reserved, 2))
  \o PutLoudness(v.loudness)

----------------------------------------------------------------------------
(* Sub-mixes                                                               *)

ReadRenderingConfig(r) ==
  ReadSized(ReadAs(r, <<Bits(2), Bits(6)>>, LAMBDA h : <<Enum(HeadphonesModes, h[1]), h[2]>>))

\* The annotations of an element have no count of their own.
ReadSubMixElement(r, labels) ==
  Built(r, ReadMixGainParamDefinition(ReadRenderingConfig(
             ReadStrings(Read(Fresh(r), <<Uleb>>), labels))),
        LAMBDA h : [audio_element_id |-> h[1], annotations |-> h[2], mode |-> h[3][1],
                    reserved |-> h[3][2], extension |-> h[4], element_mix_gain |-> h[5]])

PutSubMixElement(e) ==
  PutUleb(e.audio_element_id) \o PutEach(e.annotations, PutText)
  \o Put(e.mode.raw, 2) \o Put(e.reserved, 6)
  \o PutUleb(Len(e.extension)) \o PutSpan(e.extension)
  \o PutMixGainParamDefinition(e.element_mix_gain)

ReadElements(r, labels) ==
  ReadMany(ReadBoundedCount(r), LAMBDA c : ReadSubMixElement(c, labels))

ReadLayouts(r) == ReadMany(ReadBoundedCount(r), ReadLayout)

ReadSubMix(r, labels) ==
  Built(r, ReadLayouts(ReadMixGainParamDefinition(ReadElements(Fresh(r), labels))), LAMBDA h :
        [elements |-> h[1], output_mix_gain |-> h[2], layouts |-> h[3]])

PutSubMix(v) ==
  PutUleb(Len(v.elements)) \o PutEach(v.elements, PutSubMixElement)
  \o PutMixGainParamDefinition(v.output_mix_gain)
  \o PutUleb(Len(v.layouts)) \o PutEach(v.layouts, PutLayout)

----------------------------------------------------------------------------
(* The payload                                                             *)

ReadSubMixes(r, labels) ==
  ReadMany(ReadBoundedCount(r), LAMBDA c : ReadSubMix(c, labels))

ReadMixPresentation(r) ==
  Built(r, AndThen(ReadBoundedCount(Read(Fresh(r), <<Uleb>>)), LAMBDA c :
             Read(ReadSubMixes(ReadStrings(ReadStrings(c, c.out[2]), c.out[2]), c.out[2]),
                  <<Rest>>)),
        LAMBDA h : [mix_presentation_id |-> h[1], languages |-> h[3], annotations |-> h[4],
                    sub_mixes |-> h[5], trailing |-> h[6]])

\* Every annotation list has as many entries as there are languages: the one
\* count on the wire.
AnnotationsAgree(v) ==
  LET labels == Len(v.languages)
  IN  /\ Len(v.annotations) = labels
      /\ \A s \in DOMAIN v.sub_mixes : \A e \in DOMAIN v.sub_mixes[s].elements :
           Len(v.sub_mixes[s].elements[e].annotations) = labels

PutMixPresentation(v) ==
  Refuse(~ AnnotationsAgree(v), "AnnotationCountMismatch")
  \o PutUleb(v.mix_presentation_id)
  \o PutUleb(Len(v.languages)) \o PutEach(v.languages, PutText)
  \o PutEach(v.annotations, PutText)
  \o PutUleb(Len(v.sub_mixes)) \o PutEach(v.sub_mixes, PutSubMix)
  \o PutSpan(v.trailing)

\* The definitions a Mix Presentation publishes, in the order of the wire.
PublishedByPresentation(v) ==
  LET Entry(gain) == <<[definition |-> gain.definition, context |-> MixGainContext]>>
      OfElement(e) == Entry(e.element_mix_gain)
      OfSubMix(s) == PutEach(s.elements, OfElement) \o Entry(s.output_mix_gain)
  IN  PutEach(v.sub_mixes, OfSubMix)

ObserveMixPresentation(registry, v) == registry \o PublishedByPresentation(v)

=============================================================================
