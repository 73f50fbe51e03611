--------------------------- MODULE EncodingWriter ---------------------------
(***************************************************************************)
(* encoder::EncodingWriter: a frozen Encoder that lowers and judges whole  *)
(* temporal units before its SequenceWriter sees them, and carries the     *)
(* cross-unit state TemporalProgress from one successful push to the next. *)
(*                                                                         *)
(* An encoder is what EncoderBuilder::build froze:                         *)
(*   set         its DescriptorSet; here an element also names the         *)
(*               substream ids it declares                                 *)
(*   generation  of the handles its manifest handed out                    *)
(*   frame_size  num_samples_per_frame of its one Codec Config             *)
(*   opus        whether that is an Opus one, with pre_skip                *)
(* An input is a TemporalUnitInput:                                        *)
(*   frames      [handle, valid, writable]: valid for validate_frame,      *)
(*               writable within the obu_size ceiling                      *)
(*   blocks      [handle, param, shape, timed]: param the id in the block  *)
(*               itself, timed if its durations suit the definition        *)
(*   trimming    <<>> for None, <<at_start, at_end>> for Some              *)
(* A name with a suffix after an underscore is a faulty form of the        *)
(* definition below it; no specification uses it.                          *)
(***************************************************************************)
EXTENDS SequenceWriter

CONSTANTS
  Encoders,
  Inputs

SubstreamLists(elements) == [i \in DOMAIN elements |-> elements[i].substreams]

ASSUME EncodersAssumption ==
  \A enc \in Encoders :
    /\ enc.set \in DescriptorSets
    /\ SubstreamLists(enc.set.elements) \in Seq(Seq(Nat))
    /\ enc.frame_size \in Nat \ {0}
    /\ enc.opus \in BOOLEAN
    /\ enc.pre_skip \in Nat

Handles == [generation : Nat, index : Nat]

ASSUME InputsAssumption ==
  \A input \in Inputs :
    /\ input.frames \in Seq([handle : Handles, valid : BOOLEAN, writable : BOOLEAN])
    /\ input.blocks \in Seq([handle : Handles, param : ParamIds, shape : Shapes,
                             timed : BOOLEAN])
    /\ input.trimming = <<>> \/ input.trimming \in Nat \X Nat

VARIABLES
  encoder,    \* the frozen configuration
  started,    \* Encoder::start returned a writer
  progress,   \* TemporalProgress
  next,       \* the progress to adopt if the push under way succeeds
  unit,       \* history: the lowered unit of that push
  units,      \* history: the units of the successful pushes
  trimmed     \* history: the samples trimmed at the start of those units

localVars    == <<next, unit>>
encodingVars == <<encoder, started, progress, localVars, units, trimmed>>
allVars      == <<vars, encodingVars>>

Initial ==
  [parameter_ids    |-> <<>>,     \* None; Some(ids) is <<ids>>
   start_trim_open  |-> TRUE,
   end_trimmed      |-> FALSE,
   start_trim_total |-> 0]

----------------------------------------------------------------------------
(* Judging a unit                                                          *)

AtStart(trimming) == IF trimming = <<>> THEN 0 ELSE trimming[1]
AtEnd(trimming)   == IF trimming = <<>> THEN 0 ELSE trimming[2]

\* The ids of all elements, each at its first occurrence: a substream shared
\* by two elements is submitted once.
DeclaredSubstreams(enc) ==
  LET all == FlattenSeq(SubstreamLists(enc.set.elements))
      upto[n \in 0..Len(all)] ==
        IF n = 0 THEN <<>>
        ELSE IF Contains(upto[n - 1], all[n]) THEN upto[n - 1]
        ELSE Append(upto[n - 1], all[n])
  IN  upto[Len(all)]

\* One frame per declared substream, in declaration order, under handles of
\* this encoder, each of the right codec and size.
FramesMatch(input) ==
  LET expected == DeclaredSubstreams(encoder)
  IN  /\ Len(input.frames) = Len(expected)
      /\ \A i, j \in DOMAIN input.frames :
           input.frames[i].handle = input.frames[j].handle => i = j
      /\ \A i \in DOMAIN input.frames :
           /\ input.frames[i].handle.generation = encoder.generation
           /\ input.frames[i].handle.index = expected[i]
           /\ input.frames[i].valid

\* Checked beside each frame: a unit without frames has no trim check.
TrimFits(input) ==
  input.frames # <<>> =>
    AtStart(input.trimming) + AtEnd(input.trimming) <= encoder.frame_size

TrimPlaced_StartAnywhere(input) == ~progress.end_trimmed

\* Nothing after an end trim; a start trim only in the leading run.
TrimPlaced(input) ==
  /\ ~progress.end_trimmed
  /\ AtStart(input.trimming) > 0 => progress.start_trim_open

\* The leading run goes on only through fully trimmed units.
RunStaysOpen(input) ==
  progress.start_trim_open /\ AtStart(input.trimming) = encoder.frame_size

NewTotal(input) ==
  IF encoder.opus /\ progress.start_trim_open
    THEN progress.start_trim_total + AtStart(input.trimming)
    ELSE progress.start_trim_total

\* An Opus run may not trim more than pre_skip, nor close on less.
PreSkipMet(input) ==
  encoder.opus /\ progress.start_trim_open =>
    /\ NewTotal(input) <= encoder.pre_skip
    /\ ~RunStaysOpen(input) => NewTotal(input) = encoder.pre_skip

\* Every block is for its own parameter, known to this encoder and submitted
\* once, and fits the definition that governs it.
BlocksMatch(input) ==
  LET registry == FromDescriptors(encoder.set)
  IN  /\ \A i, j \in DOMAIN input.blocks :
           input.blocks[i].param = input.blocks[j].param => i = j
      /\ \A i \in DOMAIN input.blocks :
           LET block == input.blocks[i]
           IN  /\ block.handle.generation = encoder.generation
               /\ IsGoverned(registry, block.handle.index)
               /\ block.param = block.handle.index
               /\ block.shape = GoverningShape(registry, block.param)
               /\ block.timed

SubmittedIds(input) == [i \in DOMAIN input.blocks |-> input.blocks[i].param]

CoverageMatches_Subset(input) ==
  progress.parameter_ids # <<>> =>
    \A i \in DOMAIN SubmittedIds(input) :
      \E j \in DOMAIN progress.parameter_ids[1] :
        SubmittedIds(input)[i] = progress.parameter_ids[1][j]

\* The first unit decides which parameters have blocks in every unit.
CoverageMatches(input) ==
  progress.parameter_ids # <<>> =>
    /\ Len(SubmittedIds(input)) = Len(progress.parameter_ids[1])
    /\ \A i \in DOMAIN SubmittedIds(input) :
         \E j \in DOMAIN progress.parameter_ids[1] :
           SubmittedIds(input)[i] = progress.parameter_ids[1][j]

Preflight(input) ==
  /\ FramesMatch(input)
  /\ TrimFits(input)
  /\ TrimPlaced(input)
  /\ PreSkipMet(input)
  /\ BlocksMatch(input)
  /\ CoverageMatches(input)

Lower_Untrimmed(input) ==
  [delimiter |-> FALSE,
   blocks    |-> [i \in DOMAIN input.blocks |->
                    [param |-> input.blocks[i].param, shape |-> input.blocks[i].shape]],
   frames    |-> [i \in DOMAIN input.frames |->
                    [substream |-> input.frames[i].handle.index,
                     trim      |-> <<>>,
                     writable  |-> input.frames[i].writable]]]

\* The TemporalUnit an input becomes; the trimming goes into every header.
Lower(input) ==
  [delimiter |-> FALSE,
   blocks    |-> [i \in DOMAIN input.blocks |->
                    [param |-> input.blocks[i].param, shape |-> input.blocks[i].shape]],
   frames    |-> [i \in DOMAIN input.frames |->
                    [substream |-> input.frames[i].handle.index,
                     trim      |-> input.trimming,
                     writable  |-> input.frames[i].writable]]]

\* A unit this writer lowers is one its inner writer may be given.
ASSUME LoweredAssumption == \A input \in Inputs : Lower(input) \in Units

NextProgress_EndForgotten(input) ==
  [parameter_ids    |-> IF progress.parameter_ids = <<>> THEN << SubmittedIds(input) >>
                                                         ELSE progress.parameter_ids,
   start_trim_open  |-> RunStaysOpen(input),
   end_trimmed      |-> FALSE,
   start_trim_total |-> NewTotal(input)]

NextProgress(input) ==
  [parameter_ids    |-> IF progress.parameter_ids = <<>> THEN << SubmittedIds(input) >>
                                                         ELSE progress.parameter_ids,
   start_trim_open  |-> RunStaysOpen(input),
   end_trimmed      |-> AtEnd(input.trimming) > 0,
   start_trim_total |-> NewTotal(input)]

----------------------------------------------------------------------------
(* Actions                                                                 *)

EncInit ==
  /\ Init
  /\ encoder \in Encoders
  /\ started = FALSE
  /\ progress = Initial
  /\ next = Initial
  /\ unit = <<>>
  /\ units = <<>>
  /\ trimmed = 0

\* Encoder::start consumes the encoder and pushes its descriptors.  When that
\* fails there is no writer, so nothing follows; it may fail before the sink
\* is asked, as build does not promise that the descriptors can be written.
Start ==
  /\ state = "Fresh" /\ result = "Ok"
  /\ PushDescriptors(encoder.set)
  /\ UNCHANGED encodingVars

SubmitUnit_ProgressEarly(input) ==
  /\ PushTemporalUnit(Lower(input))
  /\ next' = NextProgress(input)
  /\ progress' = NextProgress(input)
  /\ unit' = << Lower(input), input.trimming >>
  /\ UNCHANGED <<encoder, started, units, trimmed>>

\* The inner writer preflights the unit again and starts to emit it, or
\* rejects it.  The progress the unit leads to waits for the push to return.
SubmitUnit(input) ==
  /\ PushTemporalUnit(Lower(input))
  /\ \/ /\ call' = "push_temporal_unit"
        /\ next' = NextProgress(input)
        /\ unit' = << Lower(input), input.trimming >>
     \/ /\ call' = "none"
        /\ UNCHANGED localVars
  /\ UNCHANGED <<encoder, started, progress, units, trimmed>>

\* A poisoned writer answers before it looks at the input.
PushUnit(input) ==
  /\ started
  /\ call = "none"
  /\ \/ /\ state = "Poisoned" \/ ~Preflight(input)
        /\ result' = IF state = "Poisoned" THEN "Poisoned" ELSE "Rejected"
        /\ UNCHANGED <<writerVars, call, queue, sinkVars, historyVars, encodingVars>>
     \/ /\ state # "Poisoned"
        /\ Preflight(input)
        /\ SubmitUnit(input)

\* start, or the inner push, returns Ok.
PushSucceeds ==
  /\ Succeed
  /\ \/ /\ call = "push_descriptors"
        /\ started' = TRUE
        /\ UNCHANGED <<progress, units, trimmed>>
     \/ /\ call = "push_temporal_unit"
        /\ progress' = next
        /\ units' = Append(units, unit)
        /\ trimmed' = trimmed + AtStart(unit[2])
        /\ UNCHANGED started
  /\ UNCHANGED <<encoder, localVars>>

\* The writer flushes, or the inner push fails.
Flush ==
  /\ \/ \E n \in 1..remaining : AcceptBytes(n)
     \/ RefuseBytes
     \/ Interrupted
     \/ SinkError
     \/ EmitNext
  /\ UNCHANGED encodingVars

\* What finish refuses before it asks the inner writer.
ShortOfPreSkip_Unchecked == FALSE

ShortOfPreSkip ==
  /\ encoder.opus
  /\ progress.start_trim_open
  /\ progress.start_trim_total # encoder.pre_skip

FinishEncoding ==
  /\ started
  /\ \/ /\ state = "Poisoned" \/ ~ShortOfPreSkip
        /\ Finish
     \/ /\ state # "Poisoned" /\ ShortOfPreSkip
        /\ call = "none"
        /\ Finished("Rejected")
  /\ UNCHANGED encodingVars

\* Encoder::start failed, or finish consumed the writer.
Ended ==
  /\ \/ call = "finished"
     \/ call = "none" /\ ~started /\ (state = "Poisoned" \/ result = "Rejected")
  /\ UNCHANGED allVars

EncNext ==
  \/ Start
  \/ \E input \in Inputs : PushUnit(input)
  \/ PushSucceeds
  \/ Flush
  \/ FinishEncoding
  \/ Ended

EncSpec == EncInit /\ [][EncNext]_allVars

----------------------------------------------------------------------------
(* Properties                                                              *)

Progresses ==
  [parameter_ids : Seq(Seq(ParamIds)), start_trim_open : BOOLEAN,
   end_trimmed : BOOLEAN, start_trim_total : Nat]

\* Every variable holds a value of its type; bytes_written stays a u64 and
\* the progress has at most one list of parameter ids.
EncTypeOK ==
  /\ TypeOK
  /\ encoder \in Encoders
  /\ started \in BOOLEAN
  /\ progress \in Progresses /\ Len(progress.parameter_ids) <= 1
  /\ next \in Progresses /\ Len(next.parameter_ids) <= 1
  /\ trimmed \in Nat

UnitStart(i) == AtStart(units[i][2])
UnitEnd(i)   == AtEnd(units[i][2])

\* The parameter ids of a unit's blocks, in wire order.
IdsOf(record) == [k \in DOMAIN record[1].blocks |-> record[1].blocks[k].param]

UnitIds(i) == IdsOf(units[i])

\* The carried state is exactly what the units in the file imply: it lags
\* behind no successful push and runs ahead of no failed one.
ProgressTracksUnits ==
  /\ progress.parameter_ids = IF units = <<>> THEN <<>> ELSE << UnitIds(1) >>
  /\ progress.start_trim_open =
       (\A i \in DOMAIN units : UnitStart(i) = encoder.frame_size)
  /\ progress.end_trimmed = (units # <<>> /\ UnitEnd(Len(units)) > 0)
  /\ encoder.opus => progress.start_trim_total = trimmed

\* The samples trimmed at the start of a sequence are one leading run: a unit
\* trims its start only if every earlier unit was trimmed entirely.
StartTrimsLead ==
  \A i, j \in DOMAIN units :
    i < j /\ UnitStart(j) > 0 => UnitStart(i) = encoder.frame_size

\* Only the last unit of a sequence trims its end.
EndTrimIsLast ==
  \A i \in DOMAIN units : i < Len(units) => UnitEnd(i) = 0

\* An Opus sequence never trims more than pre_skip at its start, and one that
\* finish hands back trims exactly pre_skip, over however many units.
OpusPreSkip ==
  encoder.opus =>
    /\ trimmed <= encoder.pre_skip
    /\ delivered => trimmed = encoder.pre_skip

\* One list of distinct ids and another hold the same ones.
SameDistinctIds(ids, others) ==
  /\ Len(ids) = Len(others)
  /\ {ids[k] : k \in DOMAIN ids} = {others[k] : k \in DOMAIN others}
  /\ \A k, l \in DOMAIN ids : ids[k] = ids[l] => k = l

\* All units carry one Parameter Block for each parameter of the first unit.
SameParameters == \A i \in DOMAIN units : SameDistinctIds(UnitIds(i), UnitIds(1))

\* What a reader sees of the units: the trims of the frames of a substream.
TrimsOf(obus, substream) ==
  FlattenSeq([i \in DOMAIN obus |->
    IF obus[i].kind = "frame" /\ obus[i].frame.substream = substream
      THEN << obus[i].frame.trim >> ELSE <<>>])

\* In each declared substream the sink has one frame for every unit the caller
\* was told Ok for, in order and with its trimming: the rules above hold of the
\* file, not only of the encoder's own notes.
TrimsOnWire ==
  started /\ state # "Poisoned" /\ call # "push_temporal_unit" =>
    LET declared == DeclaredSubstreams(encoder)
    IN  \A k \in DOMAIN declared :
          TrimsOf(sink, declared[k]) = [i \in DOMAIN units |-> units[i][2]]
=============================================================================
