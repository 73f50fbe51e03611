------------------------------ MODULE UnitLog ------------------------------
(***************************************************************************)
(* What a SequenceWriter promises about the bytes in its sink.             *)
(*                                                                         *)
(* The file is an append-only log: one prologue, then whole temporal       *)
(* units, each added in one step.  A sink that fails breaks the log for    *)
(* good, and what a broken log ends in is a beginning of the very item     *)
(* that was being added.  Only an unbroken log is ever handed back.        *)
(***************************************************************************)
EXTENDS Naturals, Sequences

CONSTANTS
  Size,       \* the bytes an OBU of each kind takes
  Prologues,  \* [obu, registry]: a prologue and the definitions it publishes
  Images(_)   \* the sequences of OBUs units become under a registry

VARIABLES
  file,       \* the whole OBUs in the sink
  torn,       \* the bytes, by position, of the incomplete OBU after them
  phase,      \* "fresh", "open", "broken", "closed" or "discarded"
  published   \* the registry of the prologue in the file

logVars == <<file, torn, phase, published>>

Init ==
  /\ file = <<>>
  /\ torn = <<>>
  /\ phase = "fresh"
  /\ published = <<>>

\* The prologue enters the log whole.
Open(prologue) ==
  /\ phase = "fresh"
  /\ file' = <<prologue.obu>>
  /\ phase' = "open"
  /\ published' = prologue.registry
  /\ UNCHANGED torn

\* A unit enters the log whole, written under the published definitions.
Commit(image) ==
  /\ phase = "open"
  /\ file' = file \o image
  /\ UNCHANGED <<torn, phase, published>>

\* The sink fails: k items and j bytes of the image got through.  All of it
\* may have, when it is the byte count that cannot be represented.
Tear(image) ==
  /\ \E k \in 0..Len(image) :
       /\ file' = file \o SubSeq(image, 1, k)
       /\ \/ torn' = <<>>
          \/ /\ k < Len(image)
             /\ \E j \in 1..(Size[image[k + 1].kind] - 1) : torn' = [i \in 1..j |-> i]
  /\ phase' = "broken"
  /\ UNCHANGED published

TearPrologue(prologue) == phase = "fresh" /\ Tear(<<prologue.obu>>)

TearUnit(image) == phase = "open" /\ Tear(image)

\* An unbroken log is handed back to the caller.
Close ==
  /\ phase \in {"fresh", "open"}
  /\ phase' = "closed"
  /\ UNCHANGED <<file, torn, published>>

\* The sink is dropped.
Discard ==
  /\ phase \in {"fresh", "open", "broken"}
  /\ phase' = "discarded"
  /\ UNCHANGED <<file, torn, published>>

Next ==
  \/ \E prologue \in Prologues : Open(prologue) \/ TearPrologue(prologue)
  \/ \E image \in Images(published) : Commit(image) \/ TearUnit(image)
  \/ Close
  \/ Discard

Spec == Init /\ [][Next]_logVars
=============================================================================
