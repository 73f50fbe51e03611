-------------------------- MODULE MCEncoderBuilder --------------------------
(***************************************************************************)
(* EncoderBuilder on small instances: two builders whose handles the       *)
(* caller mixes up, and one builder with more templates.                   *)
(***************************************************************************)
EXTENDS EncoderBuilder

CONSTANTS b1, b2

Config == [sound |-> TRUE, rate |-> 1, frame_size |-> 2, opus |-> TRUE, pre_skip |-> 3]

Gain(param) == [param |-> param, rate |-> 1, duration |-> <<>>, sound |-> TRUE]

Element(labels, coupled) ==
  [labels |-> labels, coupled |-> coupled, params |-> FALSE, sound |-> TRUE, bulk |-> 1]

\* One sub-mix of as many elements as there are gains but the last.
Presentation(gains, bulk) == [sub_mixes |-> <<gains>>, sound |-> TRUE, bulk |-> bulk]

Mono       == Element(<<7>>, 0)
Stereo     == Element(<<0>>, 1)
Ambisonics == Element(<<0, 1>>, 0)

Solo == Presentation(<<Gain(0), Gain(1)>>, 1)
Duo  == Presentation(<<Gain(1), Gain(0), Gain(7)>>, 1)

\* As large as the ceiling allows with one-byte ids, and a small one with
\* longer template ids, which build replaces by the short ones if it is first.
Full  == Presentation(<<Gain(0), Gain(1)>>, 4)
Small == Presentation(<<Gain(3), Gain(4)>>, 1)

OneConfig == {Config}

MixedGains         == {Gain(0)}
MixedElements      == {Mono}
MixedPresentations == {Solo}
MixedDeclarations  == [b \in Builders |-> IF b = b1 THEN 4 ELSE 1]

LoweredGains         == {[Gain(0) EXCEPT !.duration = <<2>>], [Gain(0) EXCEPT !.duration = <<1>>]}
LoweredElements      == {Mono, Stereo, Ambisonics}
LoweredPresentations == {Solo, Duo}
LoweredDeclarations  == [b \in Builders |-> 5]

GrownGains         == {}
GrownElements      == {Mono}
GrownPresentations == {Full, Small}
GrownDeclarations  == [b \in Builders |-> 4]

\* The ceilings on elements and channels, scaled down with OneByteIds.
MCAdmitted(elements, presentations) ==
  /\ Len(elements) < OneByteIds
  /\ \A i \in DOMAIN elements : \A k \in DOMAIN elements[i].substreams :
       elements[i].substreams[k] + 1 < OneByteIds
=============================================================================
