----------------------------- MODULE RoundTrip -----------------------------
(***************************************************************************)
(* A SequenceReader over what a SequenceWriter left in its sink, whether   *)
(* finish handed it back or the writer was poisoned first.                 *)
(*                                                                         *)
(* The writer flushes its prologue as one buffer; the reader finds the     *)
(* descriptors in it one by one.  So a sink that tore inside the prologue  *)
(* may hold any number of them, and part of the next one or not.           *)
(***************************************************************************)
EXTENDS SequenceWriter, SequenceReader

\* The descriptors a caller may push have ids and definitions.
ASSUME PublishedAssumption ==
  \A descriptors \in DescriptorSets :
    /\ descriptors.codec_configs \in Seq(Range(descriptors.codec_configs))
    /\ descriptors.elements \in Seq(Range(descriptors.elements))
    /\ \A element \in Range(descriptors.elements) :
         /\ element.id \in Nat
         /\ element.definitions \in Seq([param : ParamIds, shape : Shapes \cup {Extension}])
    /\ descriptors.presentations \in Seq(Range(descriptors.presentations))
    /\ \A presentation \in Range(descriptors.presentations) :
         presentation.definitions \in Seq(Definition)

VARIABLES
  set,       \* history: <<the descriptors>> the writer accepted, or <<>>
  units      \* history: the units it accepted, the last one maybe in vain

inputsOfWriter == <<set, units>>
roundTripVars  == <<vars, readerVars, inputsOfWriter>>

----------------------------------------------------------------------------
(* What is in the sink                                                     *)

\* The OBUs of the prologue, whose buffer has them one after the other.
DescriptorObus(owners) ==
  <<HeaderObu>>
    \o [i \in DOMAIN owners.codec_configs |-> CodecObu(owners.codec_configs[i])]
    \o [i \in DOMAIN owners.elements |-> ElementObu(owners.elements[i])]
    \o [i \in DOMAIN owners.presentations |-> PresentationObu(owners.presentations[i])]

\* The OBUs of the buffer an item stands for.
Framed(obu) ==
  CASE obu.kind = "descriptors" -> DescriptorObus(obu.owners)
    [] obu.kind = "delimiter"   -> <<DelimiterObu>>
    [] obu.kind = "block"       -> <<BlockObu(obu.block.param, obu.under)>>
    [] obu.kind = "frame"       -> <<FrameObu(obu.frame.substream)>>

Wire(obus) == FlattenSeq([i \in DOMAIN obus |-> Framed(obus[i])])

Whole(obu) == [obu |-> obu, fault |-> "none"]
Cut(obu)   == [obu |-> obu, fault |-> "framing"]

\* The inputs the sink amounts to.  Beginnings of the torn buffer: some OBUs
\* of it and, except at an OBU boundary, the beginning of another.
Contents ==
  LET wire  == Wire(sink)
      whole == [i \in DOMAIN wire |-> Whole(wire[i])]
      item  == (promised \o pledge)[Len(sink) + 1]
      rest  == Framed(item)
      part(k) == [i \in 1..k |-> Whole(rest[i])]
  IN  IF torn = <<>>
        THEN {whole}
        ELSE {whole \o part(k) : k \in 1..(Len(rest) - 1)}
               \cup {Append(whole \o part(k), Cut(rest[k + 1])) : k \in 0..(Len(rest) - 1)}

----------------------------------------------------------------------------

RoundTripInit ==
  /\ Init
  /\ Start(<<>>)
  /\ set = <<>>
  /\ units = <<>>

\* A call of the writer; its arguments are remembered once it is under way.
Describe(descriptors) ==
  /\ PushDescriptors(descriptors)
  /\ set' = IF call' = "push_descriptors" THEN <<descriptors>> ELSE set
  /\ UNCHANGED <<readerVars, units>>

Submit(unit) ==
  /\ PushTemporalUnit(unit)
  /\ units' = IF call' = "push_temporal_unit" THEN Append(units, unit) ELSE units
  /\ UNCHANGED <<readerVars, set>>

Write ==
  /\ Proceed
  /\ UNCHANGED <<readerVars, inputsOfWriter>>

\* The writer is gone, and what it left is opened.
Reopen ==
  /\ Finish
  /\ input' \in Contents
  /\ UNCHANGED <<position, registry, finished, yielded, answer, inputsOfWriter>>

Read ==
  /\ call = "finished"
  /\ ReaderNext
  /\ UNCHANGED <<vars, inputsOfWriter>>

RoundTripNext ==
  \/ \E descriptors \in DescriptorSets : Describe(descriptors)
  \/ \E unit \in Units : Submit(unit)
  \/ Write
  \/ Reopen
  \/ Read

RoundTripSpec == RoundTripInit /\ [][RoundTripNext]_roundTripVars

----------------------------------------------------------------------------
(* Properties                                                              *)

\* Whatever became of the writer, the file reads back as a beginning of the
\* model of the descriptors and units it was given: every block is decoded,
\* and under the definition it was written under.
ReadsBackModel ==
  set # <<>> =>
    /\ IsPrefix(yielded, FromParts(set[1], units))
    /\ answer = "error" => torn # <<>>

\* A sink that finish handed back reads to its end as exactly the model of
\* what was pushed, and the flat writer makes the same bytes of it again.
DeliveredRoundTrips ==
  delivered /\ answer = "end" =>
    /\ yielded = IF set = <<>> THEN <<>> ELSE FromParts(set[1], units)
    /\ WriteParsedSequence(yielded).accepted
    /\ WriteParsedSequence(yielded).wire = Wire(sink)

\* Units whose bounds a reader can see: all begin with a delimiter; or none
\* does, and each has frames and either blocks or, as the encoder's have, a
\* substream of the unit before.
Delimitable ==
  \/ \A i \in DOMAIN units : units[i].delimiter
  \/ \A i \in DOMAIN units :
       /\ ~units[i].delimiter
       /\ units[i].frames # <<>>
       /\ i > 1 => \/ units[i].blocks # <<>>
                   \/ \E j \in DOMAIN units[i - 1].frames :
                        units[i - 1].frames[j].substream = units[i].frames[1].substream

\* temporal_unit_ranges of a delivered file finds the pushed units again, one
\* range for each and of its length.
UnitsFoundAgain ==
  delivered /\ answer = "end" /\ Delimitable =>
    LET ranges == TemporalUnitRanges(yielded)
    IN  /\ Len(ranges) = Len(units)
        /\ \A i \in DOMAIN units : ranges[i][2] - ranges[i][1] = Len(Items(units[i]))
=============================================================================
