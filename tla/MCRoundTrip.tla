---------------------------- MODULE MCRoundTrip ----------------------------
(***************************************************************************)
(* RoundTrip with the descriptor sets of MCSequenceWriter and units whose  *)
(* bounds a reader can see in some orders and not in others.               *)
(***************************************************************************)
EXTENDS RoundTrip, MCSequenceWriter

\* A unit without OBUs leaves nothing to read, so there is none here.
MCReadableUnits == {
  [delimiter |-> FALSE, blocks |-> << >>, frames |-> << Frame(0, "none") >>],
  [delimiter |-> FALSE, blocks |-> << >>, frames |-> << Frame(1, "none") >>],
  [delimiter |-> FALSE, blocks |-> << Block("a", "mix_gain") >>, frames |-> << Frame(1, "none") >>],
  [delimiter |-> TRUE,
   blocks    |-> << Block("a", "mix_gain"), Block("b", "mix_gain") >>,
   frames    |-> << Frame(0, "none"), Frame(1, "none") >>],
  [delimiter |-> TRUE, blocks |-> << >>, frames |-> << Frame(0, "none") >>],
  \* a block for the definition that is shadowed
  [delimiter |-> TRUE, blocks |-> << Block("a", "demixing") >>, frames |-> << >>]
}

MCReadableSize == [descriptors |-> 2, delimiter |-> 1, block |-> 1, frame |-> 2]
=============================================================================
