----------------------------- MODULE MCProfiles -----------------------------
(***************************************************************************)
(* Profiles with its limits scaled down: 1, 2 and 3 elements of 2, 3 and 4 *)
(* channels.                                                               *)
(***************************************************************************)
EXTENDS Profiles

Element(id, channels) ==
  [id |-> id, fixed |-> TRUE, channels |-> channels,
   scene |-> FALSE, layered |-> FALSE, expanded |-> FALSE]

Scene(id)    == [Element(id, 1) EXCEPT !.scene = TRUE]
Layered(id)  == [Element(id, 2) EXCEPT !.layered = TRUE]
Expanded(id) == [Element(id, 1) EXCEPT !.expanded = TRUE]
Unknown(id)  == [Element(id, 0) EXCEPT !.fixed = FALSE]

MCElements ==
  { Element(0, 1), Element(0, 3), Scene(0), Layered(0), Expanded(0), Unknown(0),
    Scene(1), Layered(1), Element(2, 1), Element(3, 1) }

Mix(refs) == [refs |-> refs, sound |-> TRUE]

MCPresentations ==
  { Mix(<<0>>), Mix(<<1, 0>>), Mix(<<2, 2>>), [Mix(<<0>>) EXCEPT !.sound = FALSE] }
=============================================================================
