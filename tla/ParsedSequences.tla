-------------------------- MODULE ParsedSequences --------------------------
(***************************************************************************)
(* sequence::ParsedSequence: a whole IA Sequence as OBUs in wire order.    *)
(*                                                                         *)
(* On the wire an OBU is                                                   *)
(*   [kind]               for the IA Sequence Header, a Temporal Delimiter *)
(*                        and an OBU of a reserved type                    *)
(*   [kind, codec]        with its id                                      *)
(*   [kind, element]      [id, codec, substreams, definitions]             *)
(*   [kind, presentation] [id, elements, definitions]                      *)
(*   [kind, param, body]  a block; body is the shape its bytes were        *)
(*                        written for                                      *)
(*   [kind, substream]    a frame                                          *)
(* and has a field "refused" if it can be read, but its writer refuses it, *)
(* as validate_header does flags that read_obu_header lets pass.           *)
(* Parsing changes blocks only: one that is governed gains the shape it    *)
(* was decoded under, one that is not becomes "ungoverned" and opaque.     *)
(*                                                                         *)
(* A name with a suffix after an underscore is a faulty form of the        *)
(* definition below it; no specification uses it.                          *)
(***************************************************************************)
EXTENDS Descriptors

HeaderObu            == [kind |-> "header"]
CodecObu(config)     == [kind |-> "codec", codec |-> config]
ElementObu(element)  == [kind |-> "element", element |-> element]
PresentationObu(mix) == [kind |-> "presentation", presentation |-> mix]
DelimiterObu         == [kind |-> "delimiter"]
BlockObu(param, body) == [kind |-> "block", param |-> param, body |-> body]
FrameObu(substream)  == [kind |-> "frame", substream |-> substream]

----------------------------------------------------------------------------
(* Reading and writing one OBU under a registry                            *)

Observe_PresentationsIgnored(registry, obu) ==
  IF obu.kind = "element" THEN registry \o ObserveAudioElements(<<obu.element>>)
                          ELSE registry

\* What an OBU adds to the registry of a reader or a flat writer.
Observe(registry, obu) ==
  CASE obu.kind = "element"      -> registry \o ObserveAudioElements(<<obu.element>>)
    [] obu.kind = "presentation" -> registry \o Definitions(<<obu.presentation>>)
    [] OTHER                     -> registry

\* The model of a wire OBU.
Parse(registry, obu) ==
  CASE obu.kind # "block" -> obu
    [] obu.kind = "block" /\ IsGoverned(registry, obu.param) ->
         [field \in DOMAIN obu \cup {"shape"} |->
            IF field = "shape" THEN GoverningShape(registry, obu.param) ELSE obu[field]]
    [] OTHER -> [obu EXCEPT !.kind = "ungoverned"]

\* Bytes written for another shape than the one that governs may not decode.
MayFail(registry, obu) ==
  /\ obu.kind = "block"
  /\ IsGoverned(registry, obu.param)
  /\ GoverningShape(registry, obu.param) # obu.body

IsRefused(obu) == "refused" \in DOMAIN obu

\* The flat writer needs a definition for a block, and the one it fits.
CanWrite(registry, obu) ==
  /\ ~IsRefused(obu)
  /\ obu.kind = "block" =>
       /\ IsGoverned(registry, obu.param)
       /\ GoverningShape(registry, obu.param) = obu.shape

OnWire(obu) ==
  IF obu.kind \in {"block", "ungoverned"} THEN BlockObu(obu.param, obu.body) ELSE obu

WriteNext(written, obu) ==
  IF written.accepted /\ CanWrite(written.registry, obu)
    THEN [accepted |-> TRUE,
          registry |-> Observe(written.registry, obu),
          wire     |-> Append(written.wire, OnWire(obu))]
    ELSE [written EXCEPT !.accepted = FALSE]

\* write_parsed_sequence: all OBUs are serialised before the sink sees any.
WriteParsedSequence(obus) ==
  LET after[n \in 0..Len(obus)] ==
        IF n = 0 THEN [accepted |-> TRUE, registry |-> <<>>, wire |-> <<>>]
                 ELSE WriteNext(after[n - 1], obus[n])
  IN  after[Len(obus)]

\* The model of a block that was built for a shape.
BlockModel(block) ==
  [kind |-> "block", param |-> block.param, body |-> block.shape, shape |-> block.shape]

UnitObus(unit) ==
  (IF unit.delimiter THEN <<DelimiterObu>> ELSE <<>>)
    \o [i \in DOMAIN unit.blocks |-> BlockModel(unit.blocks[i])]
    \o [i \in DOMAIN unit.frames |-> FrameObu(unit.frames[i].substream)]

\* ParsedSequence::from_parts: the model of what the writer makes of the same
\* descriptors and units.  Its blocks carry the shape they were built for.
FromParts(set, units) ==
  LET codecs   == SortedById(set.codec_configs)
      elements == SortedById(set.elements)
  IN  <<HeaderObu>>
        \o [i \in DOMAIN codecs |-> CodecObu(codecs[i])]
        \o [i \in DOMAIN elements |-> ElementObu(elements[i])]
        \o [i \in DOMAIN set.presentations |-> PresentationObu(set.presentations[i])]
        \o FlattenSeq([i \in DOMAIN units |-> UnitObus(units[i])])

----------------------------------------------------------------------------
(* Temporal units                                                          *)

Temporal == {"block", "ungoverned", "delimiter", "frame"}

Boundary_BlocksJoin(obu, usesDelimiters, scan) ==
  IF obu.kind = "delimiter" THEN scan.start # 0
    ELSE ~usesDelimiters /\ obu.kind = "frame" /\ obu.substream \in scan.ids

Boundary_FramesJoin(obu, usesDelimiters, scan) ==
  IF obu.kind = "delimiter" THEN scan.start # 0
    ELSE ~usesDelimiters /\ obu.kind \in {"block", "ungoverned"} /\ scan.sawFrame

\* Whether an OBU begins a new unit, given what the open unit holds.
Boundary(obu, usesDelimiters, scan) ==
  IF obu.kind = "delimiter" THEN scan.start # 0
    ELSE /\ ~usesDelimiters
         /\ \/ obu.kind \in {"block", "ungoverned"} /\ scan.sawFrame
            \/ obu.kind = "frame" /\ obu.substream \in scan.ids

\* Before the first OBU.  start is 0 until a unit opens.
NothingScanned == [ranges |-> <<>>, start |-> 0, ids |-> {}, sawFrame |-> FALSE]

\* What the loop of temporal_unit_ranges makes of OBU i.
ScanNext(scan, obus, i, usesDelimiters) ==
  LET begins == Boundary(obus[i], usesDelimiters, scan)
      opens  == scan.start = 0 /\ obus[i].kind \in Temporal
      frames == IF obus[i].kind = "frame" THEN {obus[i].substream} ELSE {}
  IN  [ranges   |-> IF begins /\ scan.start # 0
                      THEN Append(scan.ranges, <<scan.start, i>>) ELSE scan.ranges,
       start    |-> IF begins \/ opens THEN i ELSE scan.start,
       ids      |-> (IF begins THEN {} ELSE scan.ids) \cup frames,
       sawFrame |-> (~begins /\ scan.sawFrame) \/ frames # {}]

\* temporal_unit_ranges: half-open ranges <<from, to>> of indices.
TemporalUnitRanges(obus) ==
  LET usesDelimiters == \E i \in DOMAIN obus : obus[i].kind = "delimiter"
      after[n \in 0..Len(obus)] ==
        IF n = 0 THEN NothingScanned ELSE ScanNext(after[n - 1], obus, n, usesDelimiters)
      scan == after[Len(obus)]
  IN  IF scan.start = 0 THEN scan.ranges
                        ELSE Append(scan.ranges, <<scan.start, Len(obus) + 1>>)

----------------------------------------------------------------------------
(* Findings                                                                *)

PublishedIds_DefinitionsOfElements(field, obu) ==
  CASE field = "codec_config_id" /\ obu.kind = "codec" -> <<obu.codec.id>>
    [] field = "audio_element_id" /\ obu.kind = "element" -> <<obu.element.id>>
    [] field = "mix_presentation_id" /\ obu.kind = "presentation" -> <<obu.presentation.id>>
    [] field = "parameter_id" /\ obu.kind = "element" ->
         LET added == Observe(<<>>, obu) IN [i \in DOMAIN added |-> added[i].param]
    [] OTHER -> <<>>

\* The ids an OBU publishes in one of the four id spaces, in wire order.
PublishedIds(field, obu) ==
  CASE field = "codec_config_id" /\ obu.kind = "codec" -> <<obu.codec.id>>
    [] field = "audio_element_id" /\ obu.kind = "element" -> <<obu.element.id>>
    [] field = "mix_presentation_id" /\ obu.kind = "presentation" -> <<obu.presentation.id>>
    [] field = "parameter_id" ->
         LET added == Observe(<<>>, obu) IN [i \in DOMAIN added |-> added[i].param]
    [] OTHER -> <<>>

IdFields == {"codec_config_id", "audio_element_id", "mix_presentation_id", "parameter_id"}

\* Every publication of an id, with the index of its OBU.
Seen(field, obus) ==
  FlattenSeq([i \in DOMAIN obus |->
    LET ids == PublishedIds(field, obus[i])
    IN  [k \in DOMAIN ids |-> [id |-> ids[k], index |-> i]]])

\* push_later_duplicate: each later publication is paired with every earlier
\* one of the same id, and the finding says that lookup binds to that one.
DuplicateFindings(obus) ==
  UNION {LET seen == Seen(field, obus)
         IN  {[field |-> field, id |-> seen[p[1]].id, binds |-> seen[p[1]].index,
               later |-> seen[p[2]].index] :
                p \in {p \in (DOMAIN seen) \X (DOMAIN seen) :
                          p[1] < p[2] /\ seen[p[1]].id = seen[p[2]].id}} :
         field \in IdFields}

\* Whether some OBU of the sequence publishes an id.
Carries(field, obus, id) ==
  \E i \in DOMAIN Seen(field, obus) : Seen(field, obus)[i].id = id

\* The references of OBU i that validate finds nothing for.
DanglingIn(obus, i) ==
  LET obu == obus[i]
  IN  CASE obu.kind = "element" ->
             {[index |-> i, field |-> "codec_config_id", id |-> id] :
                id \in {c \in {obu.element.codec} :
                          ~Carries("codec_config_id", obus, c)}}
        [] obu.kind = "presentation" ->
             {[index |-> i, field |-> "audio_element_id", id |-> id] :
                id \in {e \in obu.presentation.elements :
                          ~Carries("audio_element_id", obus, e)}}
        [] obu.kind = "block" ->
             {[index |-> i, field |-> "parameter_id", id |-> id] :
                id \in {p \in {obu.param} : ~Carries("parameter_id", obus, p)}}
        [] obu.kind = "ungoverned" ->
             {[index |-> i, field |-> "parameter_id", id |-> obu.param]}
        [] obu.kind = "frame" ->
             {[index |-> i, field |-> "audio_substream_id", id |-> id] :
                id \in {s \in {obu.substream} :
                          \A k \in DOMAIN obus :
                            obus[k].kind = "element" =>
                              ~Contains(obus[k].element.substreams, s)}}
        [] OTHER -> {}

\* What a reference needs may stand anywhere in the sequence, which is resolved
\* as a whole.  A block the reader could not decode is always among them.
DanglingReferences(obus) == UNION {DanglingIn(obus, i) : i \in DOMAIN obus}
=============================================================================
