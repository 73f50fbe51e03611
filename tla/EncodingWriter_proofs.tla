----------------------- MODULE EncodingWriter_proofs -----------------------
(***************************************************************************)
(* Proofs about EncodingWriter, for every frozen encoder, input and sink.  *)
(*                                                                         *)
(* An encoding writer only takes steps of the SequenceWriter inside it, so *)
(* IInv carries over.  What it adds is that the carried progress says of   *)
(* the units in the file exactly what the trimming and coverage rules      *)
(* need: from that, one accepted unit at a time, the rules hold of the     *)
(* whole sequence.                                                         *)
(***************************************************************************)
EXTENDS EncodingWriter, SequenceWriter_proofs, SequenceLemmas

----------------------------------------------------------------------------
(* The writer inside                                                       *)

\* Every step is a step of the SequenceWriter, or leaves it alone but for the
\* answer it gives.
InnerStep ==
  \/ [Next]_vars
  \/ /\ call = "none" /\ state \in {"DescriptorsWritten", "Fresh"}
     /\ \/ result' = "Rejected" /\ UNCHANGED <<call, delivered>>
        \/ Finished("Rejected")
     /\ UNCHANGED <<writerVars, queue, sink, torn, room, historyVars>>
  \/ /\ call = "none" /\ state = "Poisoned" /\ result' = "Poisoned"
     /\ UNCHANGED <<writerVars, call, queue, sinkVars, historyVars>>

LEMMA EncNextInner ==
  ASSUME IInv, encoder \in Encoders, [EncNext]_allVars
  PROVE  InnerStep
<1>1. CASE Start
  BY <1>1, EncodersAssumption DEF Start, InnerStep, Next
<1>2. CASE \E input \in Inputs : PushUnit(input)
  <2> PICK input \in Inputs : PushUnit(input)
    BY <1>2
  <2>1. CASE state = "Poisoned"
    BY <2>1 DEF PushUnit, InnerStep
  <2>2. CASE state # "Poisoned" /\ ~Preflight(input)
    <3>1. state \in {"DescriptorsWritten", "Fresh"}
      BY <2>2 DEF IInv, TypeOK
    <3> QED  BY <2>2, <3>1 DEF PushUnit, InnerStep, sinkVars
  <2>3. CASE state # "Poisoned" /\ Preflight(input)
    <3>1. PushTemporalUnit(Lower(input))
      BY <2>3 DEF PushUnit, SubmitUnit
    <3> QED  BY <3>1, LoweredAssumption DEF InnerStep, Next
  <2> QED  BY <2>1, <2>2, <2>3
<1>3. CASE PushSucceeds
  BY <1>3 DEF PushSucceeds, InnerStep, Next, Proceed
<1>4. CASE Flush
  BY <1>4 DEF Flush, InnerStep, Next, Proceed
<1>5. CASE FinishEncoding
  <2>1. CASE Finish
    BY <2>1 DEF InnerStep, Next
  <2>2. CASE ~Finish
    <3>1. state \in {"DescriptorsWritten", "Fresh"} /\ call = "none" /\ Finished("Rejected")
      BY <1>5, <2>2 DEF FinishEncoding, IInv, TypeOK
    <3> QED  BY <3>1 DEF InnerStep, Finished
  <2> QED  BY <2>1, <2>2
<1>6. CASE Ended \/ UNCHANGED allVars
  BY <1>6 DEF Ended, allVars, InnerStep
<1> QED  BY <1>1, <1>2, <1>3, <1>4, <1>5, <1>6 DEF EncNext

\* A rejection changes nothing IInv speaks of.
LEMMA InnerIInv ==
  ASSUME IInv, InnerStep
  PROVE  IInv'
<1>1. CASE [Next]_vars
  BY <1>1, NextIInv
<1>2. CASE ~[Next]_vars
  <2>1. /\ call = "none"
        /\ UNCHANGED <<writerVars, queue, sink, torn, room, historyVars>>
        /\ result' \in {"Rejected", "Poisoned"}
        /\ state = "Poisoned" => result' = "Poisoned"
        /\ call' \in {"none", "finished"}
        /\ delivered' = FALSE
    BY <1>2 DEF InnerStep, Finished, IInv, TypeOK, sinkVars
  <2>2. TypeOK'
    BY <2>1 DEF IInv, TypeOK, writerVars, historyVars, Outcomes
  <2>3. /\ CallsAgree' /\ (state # "Poisoned" => Accounted)'
        /\ PoisonedAtRest' /\ Len(promised') <= Len(sink')
    BY <2>1 DEF IInv, TypeOK, writerVars, historyVars, CallsAgree, Accounted, Asked,
                PoisonedAtRest, InWireOrder
  <2> QED  BY <2>1, <2>2, <2>3 DEF IInv
<1> QED  BY <1>1, <1>2

\* Nor anything GInv does.
LEMMA InnerGInv ==
  ASSUME GInv, InnerStep
  PROVE  GInv'
<1>1. CASE [Next]_vars
  BY <1>1, NextGInv
<1>2. CASE ~[Next]_vars
  <2>1. /\ call = "none" /\ call' \in {"none", "finished"}
        /\ UNCHANGED <<writerVars, historyVars>>
    BY <1>2 DEF InnerStep, Finished
  <2>2. IInv'
    BY InnerIInv DEF GInv
  <2> QED  BY <2>1, <2>2, SameAsked DEF writerVars
<1> QED  BY <1>1, <1>2

----------------------------------------------------------------------------
(* The progress                                                            *)

UnitRecords == {<<Lower(input), input.trimming>> : input \in Inputs}

\* The unit being pushed was judged against the progress of now, and the
\* progress it would lead to is at hand.
UnitJudged ==
  call = "push_temporal_unit" =>
    \E input \in Inputs :
      /\ Preflight(input)
      /\ next = NextProgress(input)
      /\ unit = <<Lower(input), input.trimming>>

\* An Opus run that is closed has trimmed pre_skip.
OpusRun ==
  encoder.opus =>
    /\ trimmed <= encoder.pre_skip
    /\ ~progress.start_trim_open => trimmed = encoder.pre_skip
    /\ delivered => trimmed = encoder.pre_skip

EncTypes ==
  /\ encoder \in Encoders
  /\ started \in BOOLEAN
  /\ progress \in Progresses /\ Len(progress.parameter_ids) <= 1
  /\ next \in Progresses /\ Len(next.parameter_ids) <= 1
  /\ trimmed \in Nat
  /\ units \in Seq(UnitRecords)

EncInv ==
  /\ IInv
  /\ EncTypes
  /\ UnitJudged
  /\ ProgressTracksUnits
  /\ OpusRun
  /\ StartTrimsLead
  /\ EndTrimIsLast
  /\ SameParameters

LEMMA InputFacts ==
  ASSUME NEW input \in Inputs
  PROVE  /\ AtStart(input.trimming) \in Nat /\ AtEnd(input.trimming) \in Nat
         /\ SubmittedIds(input) \in Seq(ParamIds)
         /\ Len(SubmittedIds(input)) = Len(input.blocks)
         /\ DOMAIN SubmittedIds(input) = DOMAIN input.blocks
         /\ IdsOf(<<Lower(input), input.trimming>>) = SubmittedIds(input)
<1>1. AtStart(input.trimming) \in Nat /\ AtEnd(input.trimming) \in Nat
  BY InputsAssumption DEF AtStart, AtEnd
<1>2. input.blocks \in Seq([handle : Handles, param : ParamIds, shape : Shapes,
                            timed : BOOLEAN])
  BY InputsAssumption
<1>3. /\ SubmittedIds(input) \in Seq(ParamIds)
      /\ Len(SubmittedIds(input)) = Len(input.blocks)
      /\ DOMAIN SubmittedIds(input) = DOMAIN input.blocks
  <2>1. \A i \in DOMAIN input.blocks : input.blocks[i].param \in ParamIds
    <3> TAKE i \in DOMAIN input.blocks
    <3> DEFINE Submitted == [handle : Handles, param : ParamIds, shape : Shapes,
                             timed : BOOLEAN]
    <3>1. \A block \in Submitted : block.param \in ParamIds
      OBVIOUS
    <3>2. input.blocks \in Seq(Submitted)
      BY <1>2
    <3> HIDE DEF Submitted
    <3>3. input.blocks[i] \in Submitted
      BY <3>2
    <3> QED  BY <3>1, <3>3
  <2>2. Len(input.blocks) \in Nat /\ DOMAIN input.blocks = 1..Len(input.blocks)
    BY <1>2
  <2> QED  BY <2>1, <2>2 DEF SubmittedIds
<1>4. IdsOf(<<Lower(input), input.trimming>>) = SubmittedIds(input)
  BY DEF IdsOf, Lower, SubmittedIds
<1> QED  BY <1>1, <1>3, <1>4

\* The progress of a judged unit has its type.
LEMMA NextProgressType ==
  ASSUME EncTypes, NEW input \in Inputs
  PROVE  NextProgress(input) \in Progresses /\ Len(NextProgress(input).parameter_ids) <= 1
<1>1. NewTotal(input) \in Nat
  <2>1. AtStart(input.trimming) \in Nat /\ progress.start_trim_total \in Nat
    BY InputFacts DEF EncTypes, Progresses
  <2> QED  BY <2>1 DEF NewTotal
<1>2. RunStaysOpen(input) \in BOOLEAN
  BY DEF RunStaysOpen, EncTypes, Progresses
<1>3. <<SubmittedIds(input)>> \in Seq(Seq(ParamIds)) /\ Len(<<SubmittedIds(input)>>) = 1
  <2>1. SubmittedIds(input) \in Seq(ParamIds)
    BY InputFacts
  <2> QED  BY <2>1
<1>4. progress.parameter_ids \in Seq(Seq(ParamIds)) /\ Len(progress.parameter_ids) <= 1
  BY DEF EncTypes, Progresses
<1>5. (AtEnd(input.trimming) > 0) \in BOOLEAN
  BY InputFacts
<1> QED  BY <1>1, <1>2, <1>3, <1>4, <1>5 DEF NextProgress, Progresses

\* Judging looks at the encoder and the progress alone.
LEMMA SameJudgement ==
  ASSUME UNCHANGED <<encoder, progress>>, NEW input
  PROVE  /\ Preflight(input)' <=> Preflight(input)
         /\ NextProgress(input)' = NextProgress(input)
<1>1. DeclaredSubstreams(encoder)' = DeclaredSubstreams(encoder)
  OBVIOUS
<1>2. /\ NewTotal(input)' = NewTotal(input)
      /\ RunStaysOpen(input)' = RunStaysOpen(input)
  BY DEF NewTotal, RunStaysOpen
<1>3. FramesMatch(input)' <=> FramesMatch(input)
  BY <1>1 DEF FramesMatch
<1>4. TrimFits(input)' <=> TrimFits(input)
  BY DEF TrimFits
<1>5. TrimPlaced(input)' <=> TrimPlaced(input)
  BY DEF TrimPlaced
<1>6. PreSkipMet(input)' <=> PreSkipMet(input)
  BY <1>2 DEF PreSkipMet
<1>7. BlocksMatch(input)' <=> BlocksMatch(input)
  BY DEF BlocksMatch
<1>8. CoverageMatches(input)' <=> CoverageMatches(input)
  BY DEF CoverageMatches
<1>9. NextProgress(input)' = NextProgress(input)
  BY <1>2 DEF NextProgress
<1> QED  BY <1>3, <1>4, <1>5, <1>6, <1>7, <1>8, <1>9 DEF Preflight

\* A step that leaves the units and the progress alone keeps what they say.
LEMMA SameUnits ==
  ASSUME EncInv, IInv', UNCHANGED <<encoder, progress, units, trimmed>>,
         EncTypes', UnitJudged',
         delivered' /\ encoder.opus => trimmed = encoder.pre_skip
  PROVE  EncInv'
<1>1. ProgressTracksUnits'
  BY DEF EncInv, ProgressTracksUnits, UnitIds, UnitStart, UnitEnd
<1>2. StartTrimsLead' /\ EndTrimIsLast'
  BY DEF EncInv, StartTrimsLead, EndTrimIsLast, UnitStart, UnitEnd
<1>4. SameParameters'
  BY DEF EncInv, SameParameters, UnitIds
<1>3. OpusRun'
  BY DEF EncInv, OpusRun
<1> QED  BY <1>1, <1>2, <1>3, <1>4 DEF EncInv

----------------------------------------------------------------------------
(* One more unit                                                           *)

\* What Succeed does to EncInv when it ends the push of a temporal unit.
LEMMA UnitAdded ==
  ASSUME EncInv, IInv', PushSucceeds, call = "push_temporal_unit"
  PROVE  EncInv'
<1>1. PICK input \in Inputs : /\ Preflight(input)
                              /\ next = NextProgress(input)
                              /\ unit = <<Lower(input), input.trimming>>
  BY DEF EncInv, UnitJudged
<1>2. /\ progress' = next /\ units' = Append(units, unit)
      /\ trimmed' = trimmed + AtStart(unit[2])
      /\ encoder' = encoder /\ started' = started /\ next' = next /\ unit' = unit
      /\ call' = "none"
  BY DEF PushSucceeds, Succeed, Return, localVars
<1> DEFINE start == AtStart(input.trimming)
           end   == AtEnd(input.trimming)
           ids   == SubmittedIds(input)
<1>3. /\ start \in Nat /\ end \in Nat /\ ids \in Seq(ParamIds)
      /\ AtStart(unit[2]) = start /\ AtEnd(unit[2]) = end /\ IdsOf(unit) = ids
  BY <1>1, InputFacts
<1>4. /\ encoder \in Encoders /\ units \in Seq(UnitRecords) /\ unit \in UnitRecords
      /\ progress \in Progresses /\ Len(progress.parameter_ids) <= 1 /\ trimmed \in Nat
      /\ encoder.frame_size \in Nat \ {0} /\ encoder.pre_skip \in Nat
      /\ encoder.opus \in BOOLEAN
      /\ progress.start_trim_open \in BOOLEAN /\ progress.start_trim_total \in Nat
      /\ progress.end_trimmed \in BOOLEAN
  BY <1>1, EncodersAssumption DEF EncInv, EncTypes, UnitRecords, Progresses
<1> DEFINE m == Len(units)
<1>5. /\ m \in Nat /\ DOMAIN units = 1..m
      /\ units' \in Seq(UnitRecords) /\ Len(units') = m + 1 /\ DOMAIN units' = 1..(m + 1)
      /\ \A i \in 1..m : units'[i] = units[i]
      /\ units'[m + 1] = unit
  BY <1>2, <1>4
<1> HIDE DEF m, start, end, ids
<1>6. /\ \A i \in 1..m : units'[i][2] = units[i][2] /\ IdsOf(units'[i]) = IdsOf(units[i])
      /\ AtStart(units'[m + 1][2]) = start /\ AtEnd(units'[m + 1][2]) = end
      /\ IdsOf(units'[m + 1]) = ids
  BY <1>3, <1>5
<1>7. \A i \in 1..(m + 1) : i \in 1..m \/ i = m + 1
  BY <1>5
<1>8. /\ progress.start_trim_open =
           (\A i \in 1..m : AtStart(units[i][2]) = encoder.frame_size)
      /\ progress.end_trimmed = (units # <<>> /\ AtEnd(units[m][2]) > 0)
      /\ progress.parameter_ids = IF units = <<>> THEN <<>> ELSE <<IdsOf(units[1])>>
      /\ encoder.opus => progress.start_trim_total = trimmed
  BY <1>4, <1>5 DEF EncInv, ProgressTracksUnits, UnitStart, UnitEnd, UnitIds, m
<1>9. EncTypes'
  BY <1>1, <1>2, <1>3, <1>4, <1>5, NextProgressType DEF EncInv, EncTypes
<1>10. /\ progress'.start_trim_open = (progress.start_trim_open /\ start = encoder.frame_size)
       /\ progress'.end_trimmed = (end > 0)
       /\ progress'.parameter_ids = IF units = <<>> THEN <<ids>> ELSE progress.parameter_ids
       /\ progress'.start_trim_total = IF encoder.opus /\ progress.start_trim_open
                                         THEN progress.start_trim_total + start
                                         ELSE progress.start_trim_total
       /\ trimmed' = trimmed + start
  BY <1>1, <1>2, <1>3, <1>8 DEF NextProgress, RunStaysOpen, NewTotal, start, end, ids
<1>11. /\ ~progress.end_trimmed
       /\ start > 0 => progress.start_trim_open
  BY <1>1 DEF Preflight, TrimPlaced, start
<1>12. encoder.opus /\ progress.start_trim_open =>
         /\ trimmed + start <= encoder.pre_skip
         /\ start # encoder.frame_size => trimmed + start = encoder.pre_skip
  BY <1>1, <1>4, <1>8 DEF Preflight, PreSkipMet, NewTotal, RunStaysOpen, start
<1>13. units = <<>> <=> m = 0
  BY <1>4 DEF m
<1>14. ProgressTracksUnits'
  <2>1. progress'.parameter_ids = <<IdsOf(units'[1])>>
    <3>1. CASE m = 0
      BY <1>6, <1>10, <1>13, <3>1
    <3>2. CASE m # 0
      <4>1. 1 \in 1..m
        BY <1>5, <3>2
      <4> QED  BY <1>6, <1>8, <1>10, <1>13, <3>2, <4>1
    <3> QED  BY <3>1, <3>2
  <2>2. progress'.start_trim_open =
          (\A i \in 1..(m + 1) : AtStart(units'[i][2]) = encoder.frame_size)
    <3>1. (\A i \in 1..(m + 1) : AtStart(units'[i][2]) = encoder.frame_size)
            <=> (\A i \in 1..m : AtStart(units[i][2]) = encoder.frame_size)
                  /\ start = encoder.frame_size
      BY <1>5, <1>6, <1>7
    <3> QED  BY <1>8, <1>10, <3>1
  <2>3. progress'.end_trimmed = (AtEnd(units'[m + 1][2]) > 0)
    BY <1>6, <1>10
  <2>4. encoder.opus => progress'.start_trim_total = trimmed'
    BY <1>3, <1>4, <1>8, <1>10, <1>11
  <2>5. units' # <<>>
    BY <1>5
  <2> QED
    BY <1>2, <1>5, <2>1, <2>2, <2>3, <2>4, <2>5
       DEF ProgressTracksUnits, UnitIds, UnitStart, UnitEnd
<1>15. OpusRun'
  <2>1. ~delivered'
    BY <1>2 DEF IInv
  <2>2. ASSUME encoder.opus
        PROVE  /\ trimmed' <= encoder.pre_skip
               /\ ~progress'.start_trim_open => trimmed' = encoder.pre_skip
    <3>1. CASE progress.start_trim_open
      BY <1>10, <1>12, <2>2, <3>1
    <3>2. CASE ~progress.start_trim_open
      <4>1. trimmed = encoder.pre_skip
        BY <2>2, <3>2 DEF EncInv, OpusRun
      <4> QED  BY <1>3, <1>4, <1>10, <1>11, <3>2, <4>1
    <3> QED  BY <3>1, <3>2
  <2> QED  BY <1>2, <2>1, <2>2 DEF OpusRun
<1>16. StartTrimsLead'
  <2> SUFFICES ASSUME NEW i \in 1..(m + 1), NEW j \in 1..(m + 1), i < j,
                      AtStart(units'[j][2]) > 0
               PROVE  AtStart(units'[i][2]) = encoder.frame_size
    BY <1>2, <1>5 DEF StartTrimsLead, UnitStart
  <2>1. i \in 1..m
    BY <1>5
  <2>2. CASE j \in 1..m
    BY <1>5, <1>6, <2>1, <2>2 DEF EncInv, StartTrimsLead, UnitStart
  <2>3. CASE j = m + 1
    BY <1>6, <1>8, <1>11, <2>1, <2>3
  <2> QED  BY <1>7, <2>2, <2>3
<1>17. EndTrimIsLast'
  <2> SUFFICES ASSUME NEW i \in 1..m PROVE AtEnd(units'[i][2]) = 0
    BY <1>5 DEF EndTrimIsLast, UnitEnd
  <2>1. AtEnd(units'[i][2]) = AtEnd(units[i][2])
    BY <1>6
  <2>2. CASE i < m
    BY <1>5, <2>1, <2>2 DEF EncInv, EndTrimIsLast, UnitEnd, m
  <2>3. CASE i = m
    <3>1. AtEnd(units[m][2]) \in Nat
      <4>1. PICK earlier \in Inputs : units[m] = <<Lower(earlier), earlier.trimming>>
        BY <1>4, <1>5, <2>3 DEF UnitRecords
      <4>2. units[m][2] = earlier.trimming
        BY <4>1
      <4> QED  BY <4>2, InputFacts
    <3>2. units # <<>>
      BY <1>5, <1>13
    <3>3. ~(AtEnd(units[m][2]) > 0)
      BY <1>8, <1>11, <3>2
    <3> QED  BY <2>1, <2>3, <3>1, <3>3
  <2>4. i < m \/ i = m
    BY <1>5
  <2> QED  BY <2>2, <2>3, <2>4
<1>18. SameParameters'
  <2>1. \A k, l \in DOMAIN ids : ids[k] = ids[l] => k = l
    <3>1. DOMAIN ids = DOMAIN input.blocks
      BY InputFacts DEF ids
    <3> QED  BY <1>1, <3>1 DEF Preflight, BlocksMatch, ids, SubmittedIds
  <2>2. SameDistinctIds(ids, IdsOf(units'[1]))
    <3>1. CASE m = 0
      BY <1>6, <2>1, <3>1 DEF SameDistinctIds
    <3>2. CASE m # 0
      <4> DEFINE first == IdsOf(units[1])
      <4>1. 1 \in 1..m /\ IdsOf(units'[1]) = first
        BY <1>5, <1>6, <3>2
      <4>2. progress.parameter_ids # <<>> /\ progress.parameter_ids[1] = first
        BY <1>8, <1>13, <3>2
      <4>3. first \in Seq(ParamIds)
        BY <1>4, <4>2 DEF Progresses
      <4>4. \A k, l \in DOMAIN first : first[k] = first[l] => k = l
        BY <1>5, <4>1 DEF EncInv, SameParameters, SameDistinctIds, UnitIds
      <4> HIDE DEF first
      <4>5. /\ Len(ids) = Len(first)
            /\ \A k \in DOMAIN ids : \E l \in DOMAIN first : ids[k] = first[l]
        BY <1>1, <4>2 DEF Preflight, CoverageMatches, ids
      <4>6. {ids[k] : k \in DOMAIN ids} = {first[k] : k \in DOMAIN first}
        <5>1. \A l \in DOMAIN first : \E k \in DOMAIN ids : first[l] = ids[k]
          <6>1. ids \in Seq(ParamIds) /\ Len(ids) = Len(first)
            BY <1>3, <4>5
          <6>2. Distinct(ids) /\ Distinct(first) /\ Within(ids, first)
            BY <2>1, <4>4, <4>5 DEF Distinct, Within
          <6>3. Within(first, ids)
            BY <4>3, <6>1, <6>2, SameMembers
          <6> QED  BY <6>3 DEF Within
        <5> QED  BY <4>5, <5>1
      <4> QED  BY <2>1, <4>1, <4>5, <4>6 DEF SameDistinctIds
    <3> QED  BY <3>1, <3>2
  <2>3. ASSUME NEW i \in 1..m
        PROVE  SameDistinctIds(IdsOf(units'[i]), IdsOf(units'[1]))
    <3>1. 1 \in 1..m
      BY <1>5
    <3> QED  BY <1>5, <1>6, <3>1 DEF EncInv, SameParameters, UnitIds
  <2> QED  BY <1>5, <1>6, <1>7, <2>2, <2>3 DEF SameParameters, UnitIds
<1>19. UnitJudged'
  BY <1>2 DEF UnitJudged
<1> QED  BY <1>9, <1>14, <1>15, <1>16, <1>17, <1>18, <1>19 DEF EncInv

----------------------------------------------------------------------------
(* The invariant                                                           *)

LEMMA EncInitInv == EncInit => EncInv
<1> SUFFICES ASSUME EncInit PROVE EncInv
  OBVIOUS
<1>1. IInv
  BY InitIInv DEF EncInit
<1>2. Initial \in Progresses /\ Initial.parameter_ids = <<>>
  BY DEF Initial, Progresses
<1>3. EncTypes
  <2>1. <<>> \in Seq(UnitRecords) /\ Len(Initial.parameter_ids) <= 1
    BY <1>2, EmptySeq
  <2>2. /\ encoder \in Encoders /\ started = FALSE /\ trimmed = 0
        /\ progress = Initial /\ next = Initial /\ units = <<>>
    BY DEF EncInit
  <2> QED  BY <1>2, <2>1, <2>2 DEF EncTypes
<1>4. ProgressTracksUnits /\ StartTrimsLead /\ EndTrimIsLast /\ SameParameters
  <2>1. units = <<>> /\ DOMAIN units = {} /\ progress = Initial /\ trimmed = 0
    BY DEF EncInit
  <2>2. ProgressTracksUnits
    BY <2>1 DEF Initial, ProgressTracksUnits
  <2>3. StartTrimsLead /\ EndTrimIsLast /\ SameParameters
    BY <2>1 DEF StartTrimsLead, EndTrimIsLast, SameParameters
  <2> QED  BY <2>2, <2>3
<1>5. OpusRun
  BY EncodersAssumption DEF EncInit, Init, Initial, OpusRun
<1>6. UnitJudged
  BY DEF EncInit, Init, UnitJudged
<1> QED  BY <1>1, <1>3, <1>4, <1>5, <1>6 DEF EncInv

LEMMA EncNextInv ==
  ASSUME EncInv, [EncNext]_allVars
  PROVE  EncInv'
<1>1. /\ IInv /\ EncTypes /\ encoder \in Encoders
      /\ delivered /\ encoder.opus => trimmed = encoder.pre_skip
  BY DEF EncInv, EncTypes, OpusRun
<1>2. IInv'
  BY <1>1, EncNextInner, InnerIInv
<1>3. CASE Start
  <2>1. /\ UNCHANGED encodingVars /\ UNCHANGED delivered
        /\ call' \in {"none", "push_descriptors"}
    BY <1>3, <1>1 DEF Start, PushDescriptors, OutOfTurn, sinkVars
  <2>2. EncTypes' /\ UnitJudged'
    BY <1>1, <2>1 DEF EncTypes, UnitJudged, encodingVars, localVars
  <2> QED  BY <1>1, <1>2, <2>1, <2>2, SameUnits DEF encodingVars
<1>4. CASE \E input \in Inputs : PushUnit(input)
  <2> PICK input \in Inputs : PushUnit(input)
    BY <1>4
  <2>1. UNCHANGED <<encoder, started, progress, units, trimmed, delivered>> /\ call = "none"
    BY DEF PushUnit, SubmitUnit, PushTemporalUnit, OutOfTurn, sinkVars, encodingVars
  <2>2. CASE UNCHANGED <<localVars, call>>
    <3>1. EncTypes' /\ UnitJudged'
      BY <1>1, <2>1, <2>2 DEF EncTypes, UnitJudged, localVars
    <3> QED  BY <1>1, <1>2, <2>1, <3>1, SameUnits
  <2>3. CASE ~UNCHANGED <<localVars, call>>
    <3>1. /\ Preflight(input) /\ next' = NextProgress(input)
          /\ unit' = <<Lower(input), input.trimming>>
      BY <2>1, <2>3 DEF PushUnit, SubmitUnit, encodingVars
    <3>2. Preflight(input)' /\ NextProgress(input)' = NextProgress(input)
      BY <2>1, <3>1, SameJudgement
    <3>3. EncTypes' /\ UnitJudged'
      BY <1>1, <2>1, <3>1, <3>2, NextProgressType DEF EncTypes, UnitJudged
    <3> QED  BY <1>1, <1>2, <2>1, <3>3, SameUnits
  <2> QED  BY <2>2, <2>3
<1>5. CASE PushSucceeds
  <2>1. CASE call = "push_temporal_unit"
    BY <1>2, <1>5, <2>1, UnitAdded
  <2>2. CASE call # "push_temporal_unit"
    <3>1. /\ UNCHANGED <<encoder, progress, units, trimmed, delivered, localVars>>
          /\ started' = TRUE /\ call' = "none"
      BY <1>5, <2>2 DEF PushSucceeds, Succeed, Return, sinkVars
    <3>2. EncTypes' /\ UnitJudged'
      BY <1>1, <3>1 DEF EncTypes, UnitJudged, localVars
    <3> QED  BY <1>1, <1>2, <3>1, <3>2, SameUnits
  <2> QED  BY <2>1, <2>2
<1>6. CASE Flush
  <2>1. UNCHANGED encodingVars /\ UNCHANGED delivered /\ call' \in {call, "none"}
    BY <1>6 DEF Flush, AcceptBytes, RefuseBytes, Interrupted, SinkError, EmitNext, Poison,
       Return, callVars, sinkVars, vars
  <2>2. EncTypes'
    BY <1>1, <2>1 DEF EncTypes, encodingVars, localVars
  <2>3. UnitJudged'
    <3>1. \A input : /\ Preflight(input)' <=> Preflight(input)
                     /\ NextProgress(input)' = NextProgress(input)
      BY <2>1, SameJudgement DEF encodingVars
    <3> QED  BY <2>1, <3>1 DEF EncInv, UnitJudged, encodingVars, localVars
  <2> QED  BY <1>1, <1>2, <2>1, <2>2, <2>3, SameUnits DEF encodingVars
<1>7. CASE FinishEncoding
  <2>1. UNCHANGED encodingVars /\ call' = "finished"
    BY <1>7 DEF FinishEncoding, Finish, Finished
  <2>2. EncTypes' /\ UnitJudged'
    BY <1>1, <2>1 DEF EncTypes, UnitJudged, encodingVars, localVars
  <2>3. delivered' => ~ShortOfPreSkip
    BY <1>7 DEF FinishEncoding, Finish, Finished
  <2>4. delivered' /\ encoder.opus => trimmed = encoder.pre_skip
    BY <2>3 DEF ShortOfPreSkip, EncInv, OpusRun, ProgressTracksUnits
  <2> QED  BY <1>1, <1>2, <2>1, <2>2, <2>4, SameUnits DEF encodingVars
<1>8. CASE Ended \/ UNCHANGED allVars
  <2>1. UNCHANGED <<encodingVars, delivered, call>>
    BY <1>8 DEF Ended, allVars, vars, sinkVars, callVars
  <2>2. EncTypes'
    BY <1>1, <2>1 DEF EncTypes, encodingVars, localVars
  <2>3. UnitJudged'
    <3>1. \A input : /\ Preflight(input)' <=> Preflight(input)
                     /\ NextProgress(input)' = NextProgress(input)
      BY <2>1, SameJudgement DEF encodingVars
    <3> QED  BY <2>1, <3>1 DEF EncInv, UnitJudged, encodingVars, localVars
  <2> QED  BY <1>1, <1>2, <2>1, <2>2, <2>3, SameUnits DEF encodingVars
<1> QED  BY <1>3, <1>4, <1>5, <1>6, <1>7, <1>8 DEF EncNext

THEOREM EncInvariance == EncSpec => []EncInv
BY EncInitInv, EncNextInv, PTL DEF EncSpec

\* Every variable of the encoding writer and of the writer in it keeps its
\* type.
THEOREM EncTypeCorrectness == EncSpec => []EncTypeOK
<1>1. EncInv => EncTypeOK
  BY DEF EncInv, IInv, EncTypes, EncTypeOK
<1> QED  BY <1>1, EncInvariance, PTL

\* The carried progress is a function of the units in the file: no failed push
\* advances it, no successful one is forgotten.
THEOREM Progress == EncSpec => []ProgressTracksUnits
<1>1. EncInv => ProgressTracksUnits
  BY DEF EncInv
<1> QED  BY <1>1, EncInvariance, PTL

\* The start trims of any sequence are one leading run.
THEOREM LeadingTrim == EncSpec => []StartTrimsLead
<1>1. EncInv => StartTrimsLead
  BY DEF EncInv
<1> QED  BY <1>1, EncInvariance, PTL

\* No unit follows one that trims its end.
THEOREM FinalTrim == EncSpec => []EndTrimIsLast
<1>1. EncInv => EndTrimIsLast
  BY DEF EncInv
<1> QED  BY <1>1, EncInvariance, PTL

\* However many units the leading trim is spread over, an Opus sequence that
\* finish hands back has trimmed exactly pre_skip samples.
THEOREM PreSkip == EncSpec => []OpusPreSkip
<1>1. EncInv => OpusPreSkip
  BY DEF EncInv, OpusRun, OpusPreSkip
<1> QED  BY <1>1, EncInvariance, PTL

\* Every unit has one block for each parameter of the first, whatever their
\* order.
THEOREM Coverage == EncSpec => []SameParameters
<1>1. EncInv => SameParameters
  BY DEF EncInv
<1> QED  BY <1>1, EncInvariance, PTL

\* What SequenceWriter guarantees it also guarantees inside an EncodingWriter:
\* the sink is in wire order at every moment, a call leaves it at the end of a
\* unit or poisons the writer, only the sink can bring that about, and a reader
\* finds for every block the definition it was written under.
THEOREM Inside ==
  EncSpec => [](InWireOrder /\ AtUnitBoundary /\ OnlySinkPoisons /\ GovernedAsRead)
<1>1. ASSUME EncInv, GInv
      PROVE  InWireOrder /\ AtUnitBoundary /\ OnlySinkPoisons /\ GovernedAsRead
  <2>1. InWireOrder
    BY <1>1, AccountedInOrder DEF EncInv, IInv, PoisonedAtRest
  <2>2. AtUnitBoundary
    BY <1>1, AtRest DEF EncInv, AtUnitBoundary
  <2>3. OnlySinkPoisons
    BY <1>1 DEF EncInv, IInv, PoisonedAtRest, OnlySinkPoisons
  <2> QED  BY <1>1, <2>1, <2>2, <2>3, GInvGoverned
<1>2. EncInit => GInv
  BY InitGInv DEF EncInit
<1>3. EncInv /\ GInv /\ [EncNext]_allVars => GInv'
  BY EncNextInner, InnerGInv DEF EncInv, EncTypes
<1> QED  BY <1>1, <1>2, <1>3, EncInvariance, PTL DEF EncSpec

----------------------------------------------------------------------------
(* The trims on the wire                                                   *)

SeenNext(ids, id) == IF Contains(ids, id) THEN ids ELSE Append(ids, id)

\* The table that declared_substreams fills.
SeenTable(all, m, f) ==
  f = [n \in 0..m |-> IF n = 0 THEN <<>> ELSE SeenNext(f[n - 1], all[n])]

LEMMA SeenTableExists ==
  ASSUME NEW all, NEW m \in Nat
  PROVE  \E f : SeenTable(all, m, f)
<1> DEFINE S == {k \in Nat : \E f : SeenTable(all, k, f)}
<1>1. 0 \in S
  <2> DEFINE f == [n \in 0..0 |-> <<>>]
  <2>1. SeenTable(all, 0, f)
    BY DEF SeenTable
  <2> QED  BY <2>1
<1>2. ASSUME NEW k \in Nat, k \in S PROVE k + 1 \in S
  <2>1. PICK f : SeenTable(all, k, f)
    BY <1>2
  <2> DEFINE g == [n \in 0..(k + 1) |-> IF n = 0 THEN <<>> ELSE SeenNext(f[n - 1], all[n])]
  <2>2. \A n \in 0..k : g[n] = f[n]
    BY <2>1 DEF SeenTable
  <2>3. \A n \in 0..(k + 1) : (IF n = 0 THEN <<>> ELSE SeenNext(g[n - 1], all[n]))
                               = (IF n = 0 THEN <<>> ELSE SeenNext(f[n - 1], all[n]))
    <3> HIDE DEF g
    <3>1. \A n \in 0..(k + 1) : n # 0 => n - 1 \in 0..k
      OBVIOUS
    <3> QED  BY <2>2, <3>1
  <2>4. g = [n \in 0..(k + 1) |-> IF n = 0 THEN <<>> ELSE SeenNext(g[n - 1], all[n])]
    BY <2>3
  <2>5. SeenTable(all, k + 1, g)
    BY <2>4 DEF SeenTable
  <2> QED  BY <2>5
<1> HIDE DEF S
<1>3. m \in S
  BY <1>1, <1>2, NaturalSteps
<1> QED  BY <1>3 DEF S

\* An encoder declares each substream once.
LEMMA DeclaredOnce ==
  ASSUME NEW enc \in Encoders
  PROVE  DeclaredSubstreams(enc) \in Seq(Nat) /\ Distinct(DeclaredSubstreams(enc))
<1> DEFINE all == FlattenSeq(SubstreamLists(enc.set.elements))
           m   == Len(all)
<1>1. all \in Seq(Nat) /\ m \in Nat
  <2>1. SubstreamLists(enc.set.elements) \in Seq(Seq(Nat))
    BY EncodersAssumption
  <2>2. all \in Seq(Nat)
    BY <2>1, FlattenMembers
  <2> HIDE DEF all
  <2> QED  BY <2>2
<1>2. PICK f : SeenTable(all, m, f) /\ DeclaredSubstreams(enc) = f[m]
  <2> DEFINE f == CHOOSE f : SeenTable(all, m, f)
  <2>1. SeenTable(all, m, f)
    BY <1>1, SeenTableExists
  <2>2. DeclaredSubstreams(enc) = f[m]
    BY DEF DeclaredSubstreams, SeenTable, SeenNext
  <2> HIDE DEF f
  <2> QED  BY <2>1, <2>2
<1> HIDE DEF all
<1> DEFINE T == {n \in Nat : n <= m => f[n] \in Seq(Nat) /\ Distinct(f[n])}
<1> HIDE DEF m
<1>3. 0 \in T
  <2>1. f[0] = <<>>
    BY <1>1, <1>2 DEF SeenTable
  <2>2. <<>> \in Seq(Nat) /\ Distinct(<<>>)
    BY DEF Distinct
  <2> QED  BY <2>1, <2>2
<1>4. ASSUME NEW n \in Nat, n \in T PROVE n + 1 \in T
  <2> SUFFICES ASSUME n + 1 <= m PROVE f[n + 1] \in Seq(Nat) /\ Distinct(f[n + 1])
    OBVIOUS
  <2>1. n + 1 \in 1..m /\ n <= m /\ n + 1 \in 0..m
    BY <1>1
  <2> DEFINE s == f[n]
             x == all[n + 1]
  <2>2. f[n + 1] = IF Contains(s, x) THEN s ELSE Append(s, x)
    <3>1. n + 1 # 0 /\ n + 1 - 1 = n
      OBVIOUS
    <3>2. f[n + 1] = IF n + 1 = 0 THEN <<>> ELSE SeenNext(f[n + 1 - 1], x)
      BY <1>2, <2>1 DEF SeenTable
    <3> QED  BY <3>1, <3>2 DEF SeenNext
  <2>3. s \in Seq(Nat) /\ Distinct(s) /\ x \in Nat
    <3>1. x \in Nat
      BY <1>1, <2>1 DEF m
    <3> QED  BY <1>4, <2>1, <3>1
  <2> HIDE DEF s, x
  <2>4. CASE ~ Contains(s, x)
    <3>1. \A i \in 1..Len(s) : s[i] # x
      BY <2>4 DEF Contains
    <3>2. /\ Append(s, x) \in Seq(Nat) /\ DOMAIN Append(s, x) = 1..(Len(s) + 1)
          /\ \A i \in 1..Len(s) : s[i] = Append(s, x)[i]
          /\ Append(s, x)[Len(s) + 1] = x
          /\ Len(s) \in Nat /\ DOMAIN s = 1..Len(s)
      BY <2>3, AppendMembers, LenProperties
    <3>3. \A i \in 1..(Len(s) + 1) : i \in 1..Len(s) \/ i = Len(s) + 1
      BY <3>2
    <3>4. Distinct(Append(s, x))
      BY <2>3, <3>1, <3>2, <3>3 DEF Distinct
    <3> QED  BY <2>2, <2>4, <3>2, <3>4
  <2> QED  BY <2>2, <2>3, <2>4
<1>5. m \in T
  <2> HIDE DEF T
  <2> QED  BY <1>1, <1>3, <1>4, NaturalSteps
<1> QED  BY <1>1, <1>2, <1>5

IsFrameOf(obu, s) == obu.kind = "frame" /\ obu.frame.substream = s

TrimLists(obus, s) ==
  [i \in DOMAIN obus |-> IF IsFrameOf(obus[i], s) THEN << obus[i].frame.trim >> ELSE <<>>]

LEMMA TrimListsTyped ==
  ASSUME NEW obus \in Seq(Obus), NEW s
  PROVE  /\ ListOf(Seq(Trims), obus, TrimLists(obus, s))
         /\ TrimsOf(obus, s) = FlattenSeq(TrimLists(obus, s))
<1>1. ASSUME NEW i \in DOMAIN obus PROVE TrimLists(obus, s)[i] \in Seq(Trims)
  <2>1. obus[i] \in Obus
    BY SeqMember
  <2>2. obus[i].kind = "frame" => obus[i].frame.trim \in Trims
    <3>1. obus[i].kind = "frame" => obus[i] \in [kind : {"frame"}, frame : Frames]
      BY <2>1 DEF Obus, Delimiter
    <3> QED  BY <3>1 DEF Frames
  <2> QED  BY <2>2 DEF TrimLists, IsFrameOf
<1>2. TrimLists(obus, s) = [i \in DOMAIN obus |-> TrimLists(obus, s)[i]]
  BY DEF TrimLists
<1>3. ListOf(Seq(Trims), obus, TrimLists(obus, s))
  BY <1>1, <1>2, ListTyped
<1>4. TrimsOf(obus, s) = FlattenSeq(TrimLists(obus, s))
  BY DEF TrimsOf, TrimLists, IsFrameOf
<1> QED  BY <1>3, <1>4

\* The trims of one stretch of OBUs follow those of the other.
LEMMA TrimsConcat ==
  ASSUME NEW a \in Seq(Obus), NEW b \in Seq(Obus), NEW s
  PROVE  TrimsOf(a \o b, s) = TrimsOf(a, s) \o TrimsOf(b, s)
<1> DEFINE ab == a \o b
           la == TrimLists(a, s)
           lb == TrimLists(b, s)
           l  == TrimLists(ab, s)
<1>1. /\ ab \in Seq(Obus) /\ Len(a) \in Nat /\ Len(b) \in Nat /\ Len(ab) = Len(a) + Len(b)
      /\ DOMAIN ab = 1..(Len(a) + Len(b)) /\ DOMAIN a = 1..Len(a) /\ DOMAIN b = 1..Len(b)
      /\ \A k \in 1..Len(a) : ab[k] = a[k]
      /\ \A k \in 1..Len(b) : ab[Len(a) + k] = b[k]
  <2>1. Concatenates(Obus, a, b)
    BY ConcatMembers
  <2> QED  BY <2>1 DEF Concatenates
<1> HIDE DEF ab
<1>2. /\ la \in Seq(Seq(Trims)) /\ Len(la) = Len(a)
      /\ lb \in Seq(Seq(Trims)) /\ Len(lb) = Len(b)
      /\ l \in Seq(Seq(Trims)) /\ Len(l) = Len(a) + Len(b)
      /\ TrimsOf(a, s) = FlattenSeq(la) /\ TrimsOf(b, s) = FlattenSeq(lb)
      /\ TrimsOf(ab, s) = FlattenSeq(l)
  BY <1>1, TrimListsTyped DEF ListOf
<1>3. /\ la \o lb \in Seq(Seq(Trims)) /\ Len(la \o lb) = Len(a) + Len(b)
      /\ \A k \in 1..Len(a) : (la \o lb)[k] = la[k]
      /\ \A k \in 1..Len(b) : (la \o lb)[Len(a) + k] = lb[k]
  <2>1. Concatenates(Seq(Trims), la, lb)
    BY <1>2, ConcatMembers
  <2> QED  BY <1>2, <2>1 DEF Concatenates
<1>4. /\ \A k \in 1..Len(a) : l[k] = la[k]
      /\ \A k \in 1..Len(b) : l[Len(a) + k] = lb[k]
  <2>1. \A k \in 1..Len(a) : k \in 1..(Len(a) + Len(b))
    BY <1>1
  <2>2. \A k \in 1..Len(b) : Len(a) + k \in 1..(Len(a) + Len(b))
    BY <1>1
  <2> QED  BY <1>1, <2>1, <2>2 DEF TrimLists
<1>5. \A i \in 1..(Len(a) + Len(b)) :
        i \in 1..Len(a) \/ (i - Len(a) \in 1..Len(b) /\ i = Len(a) + (i - Len(a)))
  BY <1>1
<1> HIDE DEF l, la, lb
<1>6. \A i \in 1..Len(l) : l[i] = (la \o lb)[i]
  <2> TAKE i \in 1..Len(l)
  <2>1. i \in 1..(Len(a) + Len(b))
    BY <1>2
  <2>2. CASE i \in 1..Len(a)
    BY <1>3, <1>4, <2>2
  <2>3. CASE i - Len(a) \in 1..Len(b) /\ i = Len(a) + (i - Len(a))
    <3> DEFINE j == i - Len(a)
    <3>1. l[Len(a) + j] = lb[j] /\ (la \o lb)[Len(a) + j] = lb[j] /\ i = Len(a) + j
      BY <1>3, <1>4, <2>3
    <3> HIDE DEF j
    <3> QED  BY <3>1
  <2> QED  BY <1>5, <2>1, <2>2, <2>3
<1>7. l = la \o lb
  BY <1>2, <1>3, <1>6, SeqEqual
<1>8. FlattenSeq(la \o lb) = FlattenSeq(la) \o FlattenSeq(lb)
  BY <1>2, FlattenConcat
<1> QED  BY <1>2, <1>7, <1>8 DEF ab

\* A unit that passed both preflights has one frame of each declared substream,
\* and that carries the trimming of the input.
LEMMA UnitTrims ==
  ASSUME encoder \in Encoders, NEW input \in Inputs, Preflight(input),
         Acceptable(definitions, Lower(input)),
         NEW k \in DOMAIN DeclaredSubstreams(encoder)
  PROVE  TrimsOf(Image(definitions, Lower(input)), DeclaredSubstreams(encoder)[k])
           = << input.trimming >>
<1> DEFINE lowered  == Lower(input)
           image    == Image(definitions, lowered)
           items    == Items(lowered)
           declared == DeclaredSubstreams(encoder)
           s        == declared[k]
           B        == Len(input.blocks)
           F        == Len(input.frames)
           lists    == TrimLists(image, s)
<1>1. declared \in Seq(Nat) /\ Distinct(declared)
  BY DeclaredOnce
<1>2. /\ B \in Nat /\ F \in Nat
      /\ DOMAIN input.blocks = 1..B /\ DOMAIN input.frames = 1..F
  <2>1. /\ input.blocks \in Seq([handle : Handles, param : ParamIds, shape : Shapes,
                                 timed : BOOLEAN])
        /\ input.frames \in Seq([handle : Handles, valid : BOOLEAN, writable : BOOLEAN])
    BY InputsAssumption
  <2> QED  BY <2>1
<1>3. /\ F = Len(declared) /\ k \in 1..F
      /\ \A i \in 1..F : input.frames[i].handle.index = declared[i]
  <2>1. FramesMatch(input)
    BY DEF Preflight
  <2> QED  BY <1>1, <1>2, <2>1 DEF FramesMatch
<1> HIDE DEF B, F
<1>4. /\ image \in Seq(Obus) /\ Len(image) = Len(items)
      /\ \A i \in 1..Len(items) : image[i] = Serialize(definitions, items[i])
  BY LoweredAssumption, ImageOfUnit
<1>5. /\ Len(items) = B + F
      /\ \A i \in 1..B : items[i] = BlockItem(lowered.blocks[i])
      /\ \A i \in 1..F : items[B + i] = FrameItem(lowered.frames[i])
  <2> DEFINE blocks == [i \in DOMAIN lowered.blocks |-> BlockItem(lowered.blocks[i])]
             frames == [i \in DOMAIN lowered.frames |-> FrameItem(lowered.frames[i])]
             S      == {blocks[i] : i \in 1..B} \cup {frames[i] : i \in 1..F}
  <2>1. DOMAIN lowered.blocks = 1..B /\ DOMAIN lowered.frames = 1..F
    BY <1>2 DEF Lower
  <2>2. items = (<<>> \o blocks) \o frames
    BY DEF Items, Lower
  <2>3. blocks = [i \in 1..B |-> blocks[i]] /\ frames = [i \in 1..F |-> frames[i]]
    BY <2>1
  <2>4. /\ \A i \in 1..B : blocks[i] = BlockItem(lowered.blocks[i])
        /\ \A i \in 1..F : frames[i] = FrameItem(lowered.frames[i])
    BY <2>1
  <2> HIDE DEF blocks, frames
  <2>5. blocks \in Seq(S) /\ Len(blocks) = B /\ frames \in Seq(S) /\ Len(frames) = F
    <3>1. (\A i \in 1..B : blocks[i] \in S) /\ (\A i \in 1..F : frames[i] \in S)
      OBVIOUS
    <3> HIDE DEF S
    <3>2. ASSUME NEW f, NEW n \in Nat, f = [i \in 1..n |-> f[i]], \A i \in 1..n : f[i] \in S
          PROVE  f \in Seq(S) /\ Len(f) = n
      BY <3>2
    <3> QED  BY <1>2, <2>3, <3>1, <3>2
  <2> HIDE DEF S
  <2>6. <<>> \o blocks = blocks
    BY <2>5, ConcatEmptySeq
  <2>7. Concatenates(S, blocks, frames)
    BY <2>5, ConcatMembers
  <2> QED  BY <2>2, <2>4, <2>5, <2>6, <2>7 DEF Concatenates
<1>6. ListOf(Seq(Trims), image, lists) /\ TrimsOf(image, s) = FlattenSeq(lists)
  BY <1>4, TrimListsTyped
<1>7. DOMAIN image = 1..(B + F)
  <2> HIDE DEF image, items
  <2> QED  BY <1>4, <1>5
<1>8. \A i \in 1..B : lists[i] = <<>>
  <2> TAKE i \in 1..B
  <2>1. i \in 1..(B + F)
    BY <1>2
  <2>2. items[i].kind = "block" /\ image[i] = Serialize(definitions, items[i])
    <3>1. items[i] = BlockItem(lowered.blocks[i])
      BY <1>5
    <3>2. items[i].kind = "block"
      BY <3>1 DEF BlockItem
    <3> HIDE DEF items, image
    <3> QED  BY <1>4, <1>5, <2>1, <3>2
  <2>3. image[i].kind = "block"
    BY <2>2 DEF Serialize
  <2> HIDE DEF image, s
  <2> QED  BY <1>7, <2>1, <2>3 DEF TrimLists, IsFrameOf
<1>9. ASSUME NEW i \in 1..F
      PROVE  lists[B + i] = IF i = k THEN << input.trimming >> ELSE <<>>
  <2>1. B + i \in 1..(B + F)
    BY <1>2
  <2>2. items[B + i] = FrameItem(lowered.frames[i]) /\ image[B + i] = Serialize(definitions, items[B + i])
    BY <1>4, <1>5, <2>1
  <2>3. image[B + i] = FrameItem(lowered.frames[i])
    BY <2>2 DEF Serialize, FrameItem
  <2>4. lowered.frames[i].substream = declared[i] /\ lowered.frames[i].trim = input.trimming
    BY <1>2, <1>3 DEF Lower
  <2>5. /\ image[B + i].kind = "frame"
        /\ image[B + i].frame.substream = declared[i]
        /\ image[B + i].frame.trim = input.trimming
    BY <2>3, <2>4 DEF FrameItem
  <2>6. declared[i] = s <=> i = k
    BY <1>1, <1>3 DEF Distinct
  <2> HIDE DEF image, s
  <2> QED  BY <1>7, <2>1, <2>5, <2>6 DEF TrimLists, IsFrameOf
<1>10. EmptyBut(lists, B + k) /\ lists[B + k] = << input.trimming >>
  <2>1. DOMAIN lists = 1..(B + F)
    BY <1>6, <1>7 DEF ListOf
  <2>2. B + k \in 1..(B + F) /\ k \in 1..F
    BY <1>2, <1>3
  <2>3. \A i \in 1..(B + F) : i \in 1..B \/ (i - B \in 1..F /\ i = B + (i - B))
    BY <1>2
  <2> HIDE DEF lists
  <2>4. ASSUME NEW i \in 1..(B + F), i # B + k PROVE lists[i] = <<>>
    <3>1. CASE i \in 1..B
      BY <1>8, <3>1
    <3>2. CASE i - B \in 1..F /\ i = B + (i - B)
      <4>1. i - B # k
        BY <2>4, <3>2
      <4> QED  BY <1>9, <3>2, <4>1
    <3> QED  BY <2>3, <3>1, <3>2
  <2> QED  BY <1>9, <2>1, <2>2, <2>4 DEF EmptyBut
<1>11. FlattenSeq(lists) = lists[B + k]
  <2>1. lists \in Seq(Seq(Trims))
    BY <1>6 DEF ListOf
  <2> HIDE DEF lists
  <2> QED  BY <1>10, <2>1, FlattenSparse
<1> QED  BY <1>6, <1>10, <1>11

\* A prologue has no frames.
LEMMA PrologueTrims ==
  ASSUME NEW set \in DescriptorSets, NEW s
  PROVE  TrimsOf(<<PrologueObu(set)>>, s) = <<>>
<1> DEFINE obus  == <<PrologueObu(set)>>
           lists == TrimLists(obus, s)
<1>1. obus \in Seq(Obus) /\ DOMAIN obus = {1} /\ obus[1].kind = "descriptors"
  BY PrologueType DEF PrologueObu
<1> HIDE DEF obus
<1>2. ListOf(Seq(Trims), obus, lists) /\ TrimsOf(obus, s) = FlattenSeq(lists)
  BY <1>1, TrimListsTyped
<1>3. AllEmpty(lists)
  BY <1>1 DEF AllEmpty, TrimLists, IsFrameOf
<1>4. lists \in Seq(Seq(Trims))
  BY <1>2 DEF ListOf
<1> HIDE DEF lists
<1>5. FlattenSeq(lists) = <<>>
  BY <1>3, <1>4, FlattenSparse
<1> QED  BY <1>2, <1>5 DEF obus

UnitTrimmings == [i \in DOMAIN units |-> units[i][2]]

\* What was asked of the writer inside holds, in each declared substream, the
\* trims of the units, and in a push of one more unit also that of this unit.
TrimsAsked ==
  /\ \A k \in DOMAIN DeclaredSubstreams(encoder) :
       LET s == DeclaredSubstreams(encoder)[k]
       IN  /\ TrimsOf(promised, s) = UnitTrimmings
           /\ call = "push_descriptors" => TrimsOf(pledge, s) = <<>>
           /\ call = "push_temporal_unit" => TrimsOf(pledge, s) = << unit[2] >>
  /\ started => state # "Fresh"

\* Steps that change neither what was asked for nor the units.
LEMMA SameTrims ==
  ASSUME TrimsAsked, UNCHANGED <<encoder, started, promised, pledge, unit, units>>,
         call' \in {call, "none", "finished"},
         state' # "Fresh" \/ state' = state
  PROVE  TrimsAsked'
<1>1. /\ DeclaredSubstreams(encoder)' = DeclaredSubstreams(encoder)
      /\ UnitTrimmings' = UnitTrimmings
  BY DEF UnitTrimmings
<1> QED  BY <1>1 DEF TrimsAsked

LEMMA NextTrims ==
  ASSUME EncInv, TrimsAsked, [EncNext]_allVars
  PROVE  TrimsAsked'
<1>1. IInv /\ encoder \in Encoders /\ units \in Seq(UnitRecords)
  BY DEF EncInv, EncTypes
<1>2. CASE Start
  <2>1. /\ UNCHANGED encodingVars /\ state' = "Fresh" /\ state = "Fresh" /\ promised' = promised
        /\ \/ call' = "push_descriptors" /\ pledge' = <<PrologueObu(encoder.set)>>
           \/ call' = "none" /\ pledge' = pledge
    BY <1>2 DEF Start, PushDescriptors, OutOfTurn, InTurn, historyVars
  <2>2. CASE call' = "none" /\ pledge' = pledge
    BY <2>1, <2>2, SameTrims DEF encodingVars, localVars
  <2>3. CASE call' = "push_descriptors" /\ pledge' = <<PrologueObu(encoder.set)>>
    <3>1. \A s : TrimsOf(pledge', s) = <<>>
      BY <1>1, <2>3, EncodersAssumption, PrologueTrims
    <3>2. /\ DeclaredSubstreams(encoder)' = DeclaredSubstreams(encoder)
          /\ UnitTrimmings' = UnitTrimmings /\ started' = started
      BY <2>1 DEF UnitTrimmings, encodingVars
    <3> QED  BY <2>1, <2>3, <3>1, <3>2 DEF TrimsAsked
  <2> QED  BY <2>1, <2>2, <2>3
<1>3. CASE \E input \in Inputs : PushUnit(input)
  <2> PICK input \in Inputs : PushUnit(input)
    BY <1>3
  <2>1. /\ UNCHANGED <<encoder, started, units, state, promised>> /\ call = "none"
        /\ \/ UNCHANGED <<call, pledge, unit>>
           \/ /\ call' = "push_temporal_unit" /\ unit' = << Lower(input), input.trimming >>
              /\ pledge' = Image(definitions, Lower(input))
              /\ Preflight(input) /\ Acceptable(definitions, Lower(input))
    BY DEF PushUnit, SubmitUnit, PushTemporalUnit, OutOfTurn, writerVars, historyVars,
           encodingVars, localVars
  <2>2. CASE UNCHANGED <<call, pledge, unit>>
    BY <2>1, <2>2, SameTrims
  <2>3. CASE ~ UNCHANGED <<call, pledge, unit>>
    <3>1. \A k \in DOMAIN DeclaredSubstreams(encoder) :
            TrimsOf(pledge', DeclaredSubstreams(encoder)[k]) = << input.trimming >>
      BY <1>1, <2>1, <2>3, UnitTrims
    <3>2. /\ DeclaredSubstreams(encoder)' = DeclaredSubstreams(encoder)
          /\ UnitTrimmings' = UnitTrimmings /\ unit'[2] = input.trimming
      BY <2>1, <2>3 DEF UnitTrimmings
    <3> QED  BY <2>1, <2>3, <3>1, <3>2 DEF TrimsAsked
  <2> QED  BY <2>2, <2>3
<1>4. CASE PushSucceeds
  <2>1. /\ promised' = promised \o pledge /\ call' = "none" /\ encoder' = encoder
        /\ call \in {"push_descriptors", "push_temporal_unit"}
        /\ promised \in Seq(Obus) /\ pledge \in Seq(Obus)
    BY <1>1, <1>4 DEF PushSucceeds, Succeed, Return, IInv, TypeOK
  <2>2. DeclaredSubstreams(encoder)' = DeclaredSubstreams(encoder)
    BY <2>1
  <2>3. ASSUME NEW k \in DOMAIN DeclaredSubstreams(encoder)
        PROVE  TrimsOf(promised', DeclaredSubstreams(encoder)[k]) = UnitTrimmings'
    <3> DEFINE s    == DeclaredSubstreams(encoder)[k]
               hits == [i \in DOMAIN units |-> units[i][2]]
    <3>1. TrimsOf(promised', s) = TrimsOf(promised, s) \o TrimsOf(pledge, s)
      BY <2>1, TrimsConcat
    <3>2. TrimsOf(promised, s) = hits
      BY DEF TrimsAsked, UnitTrimmings
    <3> DEFINE S == {units[i][2] : i \in DOMAIN units} \cup {unit[2]}
    <3>3. hits \in Seq(S) /\ Len(hits) = Len(units) /\ unit[2] \in S
      BY <1>1
    <3>4. CASE call = "push_descriptors"
      <4>1. TrimsOf(pledge, s) = <<>> /\ UnitTrimmings' = hits
        BY <1>4, <3>4 DEF TrimsAsked, UnitTrimmings, PushSucceeds
      <4> HIDE DEF hits
      <4> QED  BY <3>1, <3>2, <3>3, <4>1, ConcatEmptySeq
    <3>5. CASE call = "push_temporal_unit"
      <4>1. TrimsOf(pledge, s) = << unit[2] >> /\ units' = Append(units, unit)
        BY <1>4, <3>5 DEF TrimsAsked, PushSucceeds
      <4>2. unit \in UnitRecords
        BY <3>5 DEF EncInv, UnitJudged, UnitRecords
      <4>3. UnitTrimmings' = Append(hits, unit[2])
        <5> DEFINE m == Len(units)
        <5>1. /\ m \in Nat /\ DOMAIN units = 1..m /\ DOMAIN units' = 1..(m + 1)
              /\ \A i \in 1..m : units'[i] = units[i]
              /\ units'[m + 1] = unit
          BY <1>1, <4>1, <4>2
        <5>2. UnitTrimmings' = [i \in 1..(m + 1) |-> units'[i][2]]
          BY <5>1 DEF UnitTrimmings
        <5>3. Append(hits, unit[2]) = [i \in 1..(m + 1) |-> IF i = m + 1 THEN unit[2] ELSE hits[i]]
          BY <3>3, <5>1
        <5>4. \A i \in 1..(m + 1) : i = m + 1 \/ i \in 1..m
          BY <5>1
        <5>5. \A i \in 1..m : hits[i] = units[i][2]
          BY <5>1
        <5> HIDE DEF m, hits
        <5>6. \A i \in 1..(m + 1) : units'[i][2] = IF i = m + 1 THEN unit[2] ELSE hits[i]
          BY <5>1, <5>4, <5>5
        <5> QED  BY <5>2, <5>3, <5>6
      <4> HIDE DEF hits, S
      <4>4. Append(hits, unit[2]) = hits \o << unit[2] >>
        BY <3>3, AppendIsConcat
      <4> QED  BY <3>1, <3>2, <4>1, <4>3, <4>4
    <3> QED  BY <2>1, <3>4, <3>5
  <2>4. state' # "Fresh"
    BY <1>1, <1>4 DEF PushSucceeds, Succeed, IInv, CallsAgree
  <2> QED  BY <2>1, <2>2, <2>3, <2>4 DEF TrimsAsked
<1>5. CASE Flush
  BY <1>5, SameTrims DEF Flush, AcceptBytes, RefuseBytes, Interrupted, SinkError, EmitNext,
     Poison, Return, callVars, historyVars, vars, writerVars, encodingVars, localVars
<1>6. CASE FinishEncoding
  BY <1>6, SameTrims DEF FinishEncoding, Finish, Finished, historyVars, writerVars,
     encodingVars, localVars
<1>7. CASE Ended \/ UNCHANGED allVars
  BY <1>7, SameTrims DEF Ended, allVars, vars, callVars, historyVars, writerVars,
     encodingVars, localVars
<1> QED  BY <1>2, <1>3, <1>4, <1>5, <1>6, <1>7 DEF EncNext

\* The file tells a reader, substream by substream, the trims of exactly the
\* units that were pushed successfully.
THEOREM WireTrims == EncSpec => []TrimsOnWire
<1>1. ASSUME EncInv, TrimsAsked PROVE TrimsOnWire
  <2> SUFFICES ASSUME started, state # "Poisoned", call # "push_temporal_unit"
               PROVE  \A k \in DOMAIN DeclaredSubstreams(encoder) :
                        TrimsOf(sink, DeclaredSubstreams(encoder)[k]) = UnitTrimmings
    BY DEF TrimsOnWire, UnitTrimmings
  <2>1. call \in {"none", "finished"}
    BY <1>1 DEF TrimsAsked, EncInv, IInv, TypeOK, CallsAgree
  <2>2. sink = promised
    BY <1>1, <2>1, AtRest DEF EncInv
  <2> QED  BY <1>1, <2>2 DEF TrimsAsked
<1>2. EncInit => TrimsAsked
  <2> SUFFICES ASSUME EncInit PROVE TrimsAsked
    OBVIOUS
  <2>1. /\ promised = <<>> /\ call = "none" /\ started = FALSE /\ units = <<>>
    BY DEF EncInit, Init
  <2>2. UnitTrimmings = <<>>
    BY <2>1 DEF UnitTrimmings
  <2>3. \A s : TrimsOf(<<>>, s) = <<>>
    <3> TAKE s
    <3>1. TrimLists(<<>>, s) = <<>>
      BY DEF TrimLists
    <3>2. TrimsOf(<<>>, s) = FlattenSeq(TrimLists(<<>>, s))
      BY EmptySeq, TrimListsTyped
    <3> QED  BY <3>1, <3>2, FlattenEmpty
  <2> QED  BY <2>1, <2>2, <2>3 DEF TrimsAsked
<1> QED  BY <1>1, <1>2, EncInitInv, EncNextInv, NextTrims, PTL DEF EncSpec
=============================================================================
