--------------------------- MODULE SequenceReader ---------------------------
(***************************************************************************)
(* sequence::SequenceReader: one OBU per call of next, under a registry    *)
(* that grows with the descriptors already read.                           *)
(*                                                                         *)
(* The input is a sequence of [obu, fault]: an OBU that can be read, one   *)
(* whose framing cannot ("framing": its header, or bytes the input ends    *)
(* before), or one whose payload its parser refuses ("payload").  The      *)
(* position of the cursor is the number of OBUs before it.                 *)
(*                                                                         *)
(* A name with a suffix after an underscore is a faulty form of the        *)
(* definition below it; no specification uses it.                          *)
(***************************************************************************)
EXTENDS ParsedSequences, ParameterDefinitions

CONSTANT Inputs  \* the inputs a reader may be given

\* The decoded definitions of an element and all those of a presentation,
\* whose gains are always decoded, have a known shape.  Nothing on the wire is
\* "ungoverned": that is what the parser makes of a block.
IsWireObu(obu) ==
  /\ obu.kind # "ungoverned"
  /\ obu.kind = "element" =>
       obu.element.definitions \in Seq([param : ParamIds, shape : Shapes \cup {Extension}])
  /\ obu.kind = "presentation" => obu.presentation.definitions \in Seq(Definition)
  /\ obu.kind = "block" =>
       /\ {"kind", "param", "body"} \subseteq DOMAIN obu
       /\ ~IsRefused(obu) => obu = BlockObu(obu.param, obu.body)

ASSUME InputsAssumption ==
  \A bytes \in Inputs :
    /\ bytes \in Seq(Range(bytes))
    /\ \A i \in DOMAIN bytes : IsWireObu(bytes[i].obu)

VARIABLES
  input,
  position,
  registry,
  finished,
  yielded,  \* history: the OBUs next has returned
  answer    \* what the last next returned: "none" yet, "some", "error", "end"

readerVars == <<input, position, registry, finished, yielded, answer>>

Start(bytes) ==
  /\ input = bytes
  /\ position = 0
  /\ registry = <<>>
  /\ finished = FALSE
  /\ yielded = <<>>
  /\ answer = "none"

ReaderInit == \E bytes \in Inputs : Start(bytes)

AtEnd_Unfused == position = Len(input)

AtEnd == finished \/ position = Len(input)

\* next returns None.
End ==
  /\ AtEnd
  /\ answer' = "end"
  /\ UNCHANGED <<input, position, registry, finished, yielded>>

\* next returns an OBU, and what it published governs from here on.
Yield ==
  /\ ~AtEnd
  /\ input[position + 1].fault = "none"
  /\ LET obu == input[position + 1].obu
     IN  /\ yielded' = Append(yielded, Parse(registry, obu))
         /\ registry' = Observe(registry, obu)
  /\ position' = position + 1
  /\ answer' = "some"
  /\ UNCHANGED <<input, finished>>

\* Where the cursor is after a failed read: back at the start of the OBU,
\* although a payload parser that fails has left it behind that OBU.
Restored_Abandoned ==
  IF input[position + 1].fault = "payload" THEN position + 1 ELSE position

Restored == position

\* next returns the error of an OBU, and is finished.
Fail ==
  /\ ~AtEnd
  /\ \/ input[position + 1].fault # "none"
     \/ MayFail(registry, input[position + 1].obu)
  /\ position' = Restored
  /\ finished' = TRUE
  /\ answer' = "error"
  /\ UNCHANGED <<input, registry, yielded>>

ReaderNext == End \/ Yield \/ Fail

ReaderSpec == ReaderInit /\ [][ReaderNext]_readerVars

----------------------------------------------------------------------------
(* Properties                                                              *)

\* At any moment the flat writer takes what the reader has yielded, unless an
\* OBU among it is refused on its own account, and gives back the OBUs before
\* byte_position: after an error too, those are the prefix that could be read.
RewritesPrefix ==
  LET written == WriteParsedSequence(yielded)
  IN  /\ \A i \in 1..position : input[i].fault = "none"
      /\ Len(yielded) = position
      /\ written.accepted <=> \A i \in 1..position : ~IsRefused(input[i].obu)
      /\ written.accepted => written.wire = [i \in 1..position |-> input[i].obu]

\* The definitions the first n OBUs of the input publish that can be decoded:
\* <<i, k, l>> is definition l of owner i, elements and presentations alike.
OwnerDefinitions(i) ==
  CASE input[i].obu.kind = "element"      -> Decoded(input[i].obu.element.definitions)
    [] input[i].obu.kind = "presentation" -> input[i].obu.presentation.definitions
    [] OTHER                              -> <<>>

Publishes(i, param) == \E k \in DOMAIN OwnerDefinitions(i) : OwnerDefinitions(i)[k].param = param

\* The shape of the first definition of param among the OBUs before n.
FirstShape(n, param) ==
  LET i == CHOOSE i \in 1..(n - 1) :
             Publishes(i, param) /\ \A j \in 1..(i - 1) : ~Publishes(j, param)
      k == CHOOSE k \in DOMAIN OwnerDefinitions(i) :
             /\ OwnerDefinitions(i)[k].param = param
             /\ \A l \in 1..(k - 1) : OwnerDefinitions(i)[l].param # param
  IN  OwnerDefinitions(i)[k].shape

\* A block is decoded exactly if an earlier OBU defines its parameter, and
\* then under the first definition on the wire: repeated descriptors and
\* definitions that arrive later change nothing.
GovernedByFirst ==
  \A n \in DOMAIN yielded :
    input[n].obu.kind = "block" =>
      IF \E i \in 1..(n - 1) : Publishes(i, input[n].obu.param)
        THEN /\ yielded[n].kind = "block"
             /\ yielded[n].shape = FirstShape(n, input[n].obu.param)
        ELSE yielded[n].kind = "ungoverned"

\* The reader is fused: after its one error it stands still for good.
FusedAfterError ==
  [][finished => UNCHANGED <<position, registry, yielded, finished>> /\ answer' = "end"]_readerVars

\* Whether OBU n could not belong to the unit that begins at from, in a
\* sequence without delimiters.
StartsAnother(obus, n, from) ==
  \E i \in from..(n - 1) :
    /\ obus[i].kind = "frame"
    /\ \/ obus[n].kind \in {"block", "ungoverned"}
       \/ obus[n].kind = "frame" /\ obus[n].substream = obus[i].substream

\* The ranges begin at the first temporal OBU, follow one another to the end,
\* and are as long as they can be: with delimiters each begins one, without
\* them a block after a frame and a repeated substream do, and nothing else.
CutIntoUnits(obus, ranges) ==
  LET temporal == {i \in DOMAIN obus : obus[i].kind \in Temporal}
      marks    == {i \in DOMAIN obus : obus[i].kind = "delimiter"}
      first    == {i \in temporal : \A j \in temporal : i <= j}
      begins   == {ranges[r][1] : r \in DOMAIN ranges}
  IN  /\ {ranges[r][1] : r \in {r \in DOMAIN ranges : r = 1}} = first
      /\ \A r \in DOMAIN ranges :
           /\ ranges[r][1] < ranges[r][2]
           /\ ranges[r][2] = IF r = Len(ranges) THEN Len(obus) + 1 ELSE ranges[r + 1][1]
      /\ IF marks # {}
           THEN begins = marks \cup first
           ELSE \A r \in DOMAIN ranges : \A n \in (ranges[r][1] + 1)..ranges[r][2] :
                  n <= Len(obus) => (StartsAnother(obus, n, ranges[r][1]) <=> n = ranges[r][2])

\* temporal_unit_ranges cuts what the reader yielded into exactly those units.
RangesAreUnits == CutIntoUnits(yielded, TemporalUnitRanges(yielded))

\* Whether OBU n is a block whose parameter no earlier OBU defines.
UndefinedBefore(n) ==
  /\ input[n].obu.kind = "block"
  /\ \A i \in 1..(n - 1) : ~Publishes(i, input[n].obu.param)

\* validate looks parameters up over the whole sequence, and the reader did at
\* the position of each block: the blocks validate reports, with the parameter
\* it names, are all those that no earlier OBU defines, and no others. A block
\* before its definition is among them, although the sequence does define it.
DanglingAreUndefinedBefore ==
  {f \in DanglingReferences(yielded) : f.field = "parameter_id"}
    = {[index |-> n, field |-> "parameter_id", id |-> input[n].obu.param] :
         n \in {n \in DOMAIN yielded : UndefinedBefore(n)}}

\* validate says of each duplicate that lookup binds to the publication it
\* names, the first in wire order.
DuplicatesNameFirst ==
  \A finding \in DuplicateFindings(yielded) :
    \A i \in DOMAIN Seen(finding.field, yielded) :
      Seen(finding.field, yielded)[i].id = finding.id
        => finding.binds <= Seen(finding.field, yielded)[i].index
=============================================================================
