--------------------------- MODULE TemporalUnits ---------------------------
(***************************************************************************)
(* What a temporal unit puts on the wire.                                  *)
(*                                                                         *)
(* A unit is the optional Temporal Delimiter, its Parameter Blocks and its *)
(* Audio Frames, in that order.  A block keeps its parameter_id and the    *)
(* definition shape its body is written for; a frame keeps its substream,  *)
(* its trimming and whether its header and payload can be written at all   *)
(* (validate_header, the implicit substream id, the obu_size ceiling).     *)
(*                                                                         *)
(* A name with a suffix after an underscore is a faulty form of the        *)
(* definition below it; no specification uses it.                          *)
(***************************************************************************)
EXTENDS Descriptors, ParameterDefinitions

CONSTANTS
  Substreams,      \* audio_substream_ids
  Trims,           \* the type-specific header fields of a frame
  DescriptorSets,  \* the descriptor sets a caller may push
  Units            \* the temporal units a caller may push

Blocks == [param : ParamIds, shape : Shapes]
Frames == [substream : Substreams, trim : Trims, writable : BOOLEAN]

ASSUME UnitsAssumption ==
  Units \subseteq [delimiter : BOOLEAN, blocks : Seq(Blocks), frames : Seq(Frames)]

ASSUME DescriptorSetsAssumption == \A set \in DescriptorSets : set.writable \in BOOLEAN

----------------------------------------------------------------------------
(* OBUs before they are serialised                                         *)

Delimiter == [kind |-> "delimiter"]
BlockItem(block) == [kind |-> "block", block |-> block]
FrameItem(frame) == [kind |-> "frame", frame |-> frame]

\* The OBUs of a unit, in the order push_temporal_unit emits them.
Items(unit) ==
  (IF unit.delimiter THEN <<Delimiter>> ELSE <<>>)
    \o [i \in DOMAIN unit.blocks |-> BlockItem(unit.blocks[i])]
    \o [i \in DOMAIN unit.frames |-> FrameItem(unit.frames[i])]

\* obu::validate_temporal_unit: one trim plan, unique substreams.
ValidateTemporalUnit(frames) ==
  \A i, j \in DOMAIN frames :
    /\ frames[i].trim = frames[j].trim
    /\ i # j => frames[i].substream # frames[j].substream

----------------------------------------------------------------------------
(* Serialised OBUs                                                         *)

\* The whole prologue is serialised into one buffer, hence one item here.
PrologueObu(set) == [kind |-> "descriptors", owners |-> WriteDescriptors(set)]

\* A block is written against the definition the registry finds for it, and
\* only if it has that shape.
BlockFits(registry, block) ==
  /\ IsGoverned(registry, block.param)
  /\ GoverningShape(registry, block.param) = block.shape

\* Whether the OBU writers accept an item.
Serializable(registry, item) ==
  /\ item.kind = "block" => BlockFits(registry, item.block)
  /\ item.kind = "frame" => item.frame.writable

\* What comes out: a block remembers the shape it was written under.
Serialize(registry, item) ==
  IF item.kind = "block"
    THEN [kind  |-> "block",
          block |-> item.block,
          under |-> GoverningShape(registry, item.block.param)]
    ELSE item

Acceptable_FramesTrusted(registry, unit) ==
  /\ ValidateTemporalUnit(unit.frames)
  /\ \A i \in DOMAIN Items(unit) :
       Items(unit)[i].kind = "block" => Serializable(registry, Items(unit)[i])

\* A unit that passes preflight_temporal_unit, and the OBUs it becomes.
Acceptable(registry, unit) ==
  /\ ValidateTemporalUnit(unit.frames)
  /\ \A i \in DOMAIN Items(unit) : Serializable(registry, Items(unit)[i])

Image(registry, unit) ==
  [i \in DOMAIN Items(unit) |-> Serialize(registry, Items(unit)[i])]
=============================================================================
