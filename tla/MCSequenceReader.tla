-------------------------- MODULE MCSequenceReader --------------------------
(***************************************************************************)
(* SequenceReader over every sequence of up to four OBUs that decide how   *)
(* blocks are governed and units are cut, and shorter ones with a fault.   *)
(***************************************************************************)
EXTENDS SequenceReader

ParamA == 7

Demixing(p) == [param |-> p, shape |-> "demixing"]
MixGain(p)  == [param |-> p, shape |-> "mix_gain"]
Opaque(p)   == [param |-> p, shape |-> Extension]

ElementA == [id |-> 1, codec |-> 1, substreams |-> <<0, 1>>,
             definitions |-> << Opaque(ParamA), Demixing(ParamA) >>]
MixA     == [id |-> 1, elements |-> {1}, definitions |-> << MixGain(ParamA) >>]

\* Flagged as a redundant copy, which the reader takes and the writer does not.
RefusedBlock == [kind |-> "block", param |-> ParamA, body |-> "demixing", refused |-> TRUE]

Obus == {
  CodecObu([id |-> 1]),
  ElementObu(ElementA),
  PresentationObu(MixA),
  BlockObu(ParamA, "demixing"),
  BlockObu(ParamA, "mix_gain"),
  DelimiterObu,
  FrameObu(0),
  FrameObu(1),
  RefusedBlock,
  [kind |-> "reserved"] }

Sound(obus) == [i \in DOMAIN obus |-> [obu |-> obus[i], fault |-> "none"]]

\* A delimiter or a block that cannot be read, with more behind it.
Faulty ==
  {<< [obu |-> a, fault |-> "none"], [obu |-> b, fault |-> f], [obu |-> a, fault |-> "none"] >> :
     a \in Obus, b \in {DelimiterObu, BlockObu(ParamA, "demixing")}, f \in {"framing", "payload"}}

Sequences(n) == {Sound(obus) : obus \in [1..n -> Obus]}

MCInputs == Sequences(4) \cup Faulty
=============================================================================
