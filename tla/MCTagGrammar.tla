---------------------------- MODULE MCTagGrammar ----------------------------
(***************************************************************************)
(* Subtags at both ends of every length a class has, of letters, digits    *)
(* and both, and neither.                                                  *)
(***************************************************************************)
EXTENDS TagGrammar

As(n) == [i \in 1 .. n |-> 97]
Ones(n) == [i \in 1 .. n |-> 49]

MCSamples ==
  {As(n) : n \in {0, 1, 2, 3, 4, 5, 8, 9}} \cup {Ones(n) : n \in {3, 4}}
  \cup {<<88>>, <<97, 95>>}

\* One that no other rule admits, as "i-ami" is.
MCIrregular == {<<97, 45, 97, 97>>}

=============================================================================
