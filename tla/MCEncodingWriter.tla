-------------------------- MODULE MCEncodingWriter --------------------------
(***************************************************************************)
(* EncodingWriter for four encoders: Opus with a pre_skip of one frame and *)
(* a half, Opus with a pre_skip of exactly two frames, and a codec without *)
(* pre_skip, once with descriptors that cannot be written.  Two elements   *)
(* share a substream; there are two parameters.                            *)
(***************************************************************************)
EXTENDS EncodingWriter

MixGain(p) == [param |-> p, shape |-> "mix_gain"]

Frozen ==
  [codec_configs |-> << [id |-> 0] >>,
   elements      |-> << [id |-> 0, substreams |-> <<0, 1>>, definitions |-> << >>],
                        [id |-> 1, substreams |-> <<1>>, definitions |-> << >>] >>,
   presentations |-> << [definitions |-> << MixGain(0), MixGain(1) >>] >>,
   writable      |-> TRUE]

\* Descriptors that outgrew the ceiling in build.
Overgrown == [Frozen EXCEPT !.writable = FALSE]

MCDescriptorSets == {Frozen, Overgrown}

Encoder(opus, preSkip) ==
  [set |-> Frozen, generation |-> 1, frame_size |-> 2, opus |-> opus, pre_skip |-> preSkip]

MCEncoders ==
  {Encoder(TRUE, 3), Encoder(TRUE, 4), Encoder(FALSE, 0),
   [Encoder(FALSE, 0) EXCEPT !.set = Overgrown]}

Handle(i)   == [generation |-> 1, index |-> i]
Foreign(i)  == [generation |-> 2, index |-> i]
Frame(h)    == [handle |-> h, valid |-> TRUE, writable |-> TRUE]
Block(i)    == [handle |-> Handle(i), param |-> i, shape |-> "mix_gain", timed |-> TRUE]
GoodFrames  == << Frame(Handle(0)), Frame(Handle(1)) >>

Input(frames, blocks, trimming) ==
  [frames |-> frames, blocks |-> blocks, trimming |-> trimming]

\* Every trim of a two-sample frame, and one that is too long, with the block
\* lists that do and do not cover the same parameters.
WellFormed ==
  { Input(GoodFrames, blocks, trimming) :
      blocks \in { << >>, << Block(0) >>, << Block(1), Block(0) >> },
      trimming \in { << >>, <<1, 0>>, <<2, 0>>, <<1, 1>>, <<0, 2>>, <<2, 1>> } }

\* One fault each.
Malformed ==
  { Input(frames, << >>, << >>) :
      frames \in { << Frame(Handle(0)) >>,
                   << Frame(Handle(1)), Frame(Handle(0)) >>,
                   << Frame(Handle(0)), Frame(Handle(0)) >>,
                   << Frame(Handle(0)), Frame(Foreign(1)) >>,
                   << Frame(Handle(0)), [Frame(Handle(1)) EXCEPT !.valid = FALSE] >>,
                   << Frame(Handle(0)), [Frame(Handle(1)) EXCEPT !.writable = FALSE] >> } }
  \cup
  { Input(GoodFrames, blocks, << >>) :
      blocks \in { << Block(0), Block(0) >>,
                   << [Block(0) EXCEPT !.handle = Foreign(0)] >>,
                   << [Block(0) EXCEPT !.param = 1] >>,
                   << [Block(0) EXCEPT !.timed = FALSE] >> } }

MCInputs == WellFormed \cup Malformed

\* What the inputs are lowered to.
MCTrims == {input.trimming : input \in MCInputs}
MCUnits == {Lower(input) : input \in MCInputs}

MCSize == [descriptors |-> 2, delimiter |-> 1, block |-> 1, frame |-> 1]
=============================================================================
