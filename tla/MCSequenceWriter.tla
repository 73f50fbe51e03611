-------------------------- MODULE MCSequenceWriter --------------------------
(***************************************************************************)
(* SequenceWriter with two parameters whose definitions come in an order   *)
(* the descriptor sort changes, and the units that tell its paths apart.   *)
(***************************************************************************)
EXTENDS SequenceWriter

Demixing(p) == [param |-> p, shape |-> "demixing"]
MixGain(p)  == [param |-> p, shape |-> "mix_gain"]
Opaque(p)   == [param |-> p, shape |-> Extension]

Element(id, defs)  == [id |-> id, definitions |-> defs]
Presentation(defs) == [definitions |-> defs]

\* "a" is published by both elements, first by the one that is sorted second,
\* behind an extension that must not count, and again by the presentation.
Shadowed ==
  [codec_configs |-> << [id |-> 5], [id |-> 2] >>,
   elements      |-> << Element(7, << Demixing("a") >>),
                        Element(3, << Opaque("a"), MixGain("a") >>) >>,
   presentations |-> << Presentation(<< Demixing("a"), MixGain("b") >>) >>,
   writable      |-> TRUE]

\* Refused by a descriptor writer, but its definitions are the other ones.
Unwritable ==
  [codec_configs |-> << [id |-> 5] >>,
   elements      |-> << Element(1, << Demixing("a"), Demixing("b") >>) >>,
   presentations |-> << >>,
   writable      |-> FALSE]

MCDescriptorSets == {Shadowed, Unwritable}

Frame(s, t) == [substream |-> s, trim |-> t, writable |-> TRUE]
Block(p, s) == [param |-> p, shape |-> s]

MCUnits == {
  [delimiter |-> FALSE, blocks |-> << >>, frames |-> << Frame(0, "none") >>],
  [delimiter |-> TRUE,
   blocks    |-> << Block("a", "mix_gain"), Block("b", "mix_gain") >>,
   frames    |-> << Frame(0, "start"), Frame(1, "start") >>],
  \* nothing at all: legal
  [delimiter |-> FALSE, blocks |-> << >>, frames |-> << >>],
  \* a block for the definition that is shadowed
  [delimiter |-> TRUE, blocks |-> << Block("a", "demixing") >>, frames |-> << >>],
  \* a block nothing governs
  [delimiter |-> FALSE, blocks |-> << Block("c", "mix_gain") >>, frames |-> << >>],
  \* a frame that cannot be written, after one that can
  [delimiter |-> FALSE, blocks |-> << >>,
   frames    |-> << Frame(0, "none"), [Frame(1, "none") EXCEPT !.writable = FALSE] >>],
  \* a repeated substream, and trims that differ
  [delimiter |-> FALSE, blocks |-> << >>, frames |-> << Frame(0, "none"), Frame(0, "none") >>],
  [delimiter |-> FALSE, blocks |-> << >>, frames |-> << Frame(0, "none"), Frame(1, "start") >>]
}

MCSize == [descriptors |-> 3, delimiter |-> 1, block |-> 2, frame |-> 2]
=============================================================================
