------------------------------ MODULE Profiles ------------------------------
(***************************************************************************)
(* model::profile: the least profile a sequence needs, and the findings    *)
(* about a header that names less.  A descriptor set grows one descriptor  *)
(* at a time; after each the functions are asked about it.                 *)
(*                                                                         *)
(*   element      [id, fixed, channels, scene, layered, expanded]: fixed   *)
(*                if its channel count is, which channels then is; scene   *)
(*                based; with several layers; its first layer expanded     *)
(*   presentation [refs, sound]: the audio_element_ids it refers to; sound *)
(*                with one sub-mix and no reserved headphones mode         *)
(*                                                                         *)
(* A name with a suffix after an underscore is a faulty form of the        *)
(* definition below it; no specification uses it.                          *)
(***************************************************************************)
EXTENDS Naturals, Sequences, FiniteSets, SequencesExt, FiniteSetsExt

CONSTANTS
  Elements,
  Presentations,
  MaxDescriptors,                                   \* how many the set may hold
  SimpleElements, BaseElements, EnhancedElements,   \* 1, 2 and 28
  SimpleChannels, BaseChannels, EnhancedChannels    \* 16, 18 and 28

ASSUME ElementsAssumption ==
  Elements \subseteq [id : Nat, fixed : BOOLEAN, channels : Nat,
                      scene : BOOLEAN, layered : BOOLEAN, expanded : BOOLEAN]

ASSUME PresentationsAssumption ==
  Presentations \subseteq [refs : Seq(Nat), sound : BOOLEAN]

\* Simple has no combination rule, and needs none while it takes one element.
ASSUME LimitsAssumption ==
  /\ BaseElements \in Nat /\ EnhancedElements \in Nat
  /\ SimpleElements = 1 /\ SimpleElements <= BaseElements /\ BaseElements <= EnhancedElements
  /\ SimpleChannels \in Nat /\ BaseChannels \in Nat /\ EnhancedChannels \in Nat
  /\ SimpleChannels <= BaseChannels /\ BaseChannels <= EnhancedChannels

VARIABLES
  elements,       \* every Audio Element of the sequence, in order
  presentations   \* every Mix Presentation, in order

profileVars == <<elements, presentations>>

Simple       == 0
Base         == 1
BaseEnhanced == 2

Named == {Simple, Base, BaseEnhanced}

\* Errors stand above every profile, as they win over any.
Ceiling == 3     \* more elements or channels than any profile permits
Unfixed == 4     \* a layout without a channel count
Invalid == 5     \* a presentation that cannot be judged

----------------------------------------------------------------------------
(* Floors                                                                  *)

UniqueById_LastBinding(owners) ==
  SelectSeq(owners, LAMBDA element :
              element = owners[Max({i \in DOMAIN owners : owners[i].id = element.id})])

PushUnlessSeen(unique, element) ==
  IF \E k \in DOMAIN unique : unique[k].id = element.id THEN unique ELSE Append(unique, element)

\* Each element at its first binding: a redundant copy is not counted again.
UniqueById(owners) ==
  LET unique[n \in 0..Len(owners)] ==
        IF n = 0 THEN <<>> ELSE PushUnlessSeen(unique[n - 1], owners[n])
  IN  unique[Len(owners)]

AllFixed(owners) == \A i \in DOMAIN owners : owners[i].fixed

Total(amounts) ==
  LET total[n \in 0..Len(amounts)] == IF n = 0 THEN 0 ELSE total[n - 1] + amounts[n]
  IN  total[Len(amounts)]

Channels(owners) == Total([i \in DOMAIN owners |-> owners[i].channels])

IsExpandedFirstLayer(owners) == \E i \in DOMAIN owners : owners[i].expanded

BaseCombinationAllowed_Always(owners) == TRUE

\* Base takes one scene-based element and one with several layers.
BaseCombinationAllowed(owners) ==
  \A i, j \in DOMAIN owners : i # j =>
    /\ ~(owners[i].scene /\ owners[j].scene)
    /\ ~(owners[i].layered /\ owners[j].layered)

\* What one presentation needs; references count as often as they occur.
PresentationFloor(owners) ==
  IF ~AllFixed(owners) THEN Unfixed
  ELSE IF Len(owners) > EnhancedElements \/ Channels(owners) > EnhancedChannels THEN Ceiling
  ELSE IF IsExpandedFirstLayer(owners) THEN BaseEnhanced
  ELSE IF Len(owners) <= SimpleElements /\ Channels(owners) <= SimpleChannels THEN Simple
  ELSE IF /\ Len(owners) <= BaseElements /\ Channels(owners) <= BaseChannels
          /\ BaseCombinationAllowed(owners)
       THEN Base
  ELSE BaseEnhanced

\* What the elements need by their number and kind, in any presentation.
SequenceCountFloor(unique) ==
  IF IsExpandedFirstLayer(unique) THEN BaseEnhanced
  ELSE IF Len(unique) <= SimpleElements THEN Simple
  ELSE IF Len(unique) <= BaseElements /\ BaseCombinationAllowed(unique) THEN Base
  ELSE BaseEnhanced

SequenceFloor(owners) ==
  LET unique == UniqueById(owners)
  IN  IF Len(unique) > EnhancedElements THEN Ceiling
      ELSE IF ~AllFixed(unique) THEN Unfixed
      ELSE IF Channels(unique) > EnhancedChannels THEN Ceiling
      ELSE SequenceCountFloor(unique)

Carrier(owners, id) == SelectInSeq(owners, LAMBDA element : element.id = id)

Carried(owners, refs) == \A k \in DOMAIN refs : Carrier(owners, refs[k]) # 0

\* Each reference is to the first element that carries its id.
Resolve(owners, refs) == [k \in DOMAIN refs |-> owners[Carrier(owners, refs[k])]]

PresentationMinimumProfile_Dangling(presentation, owners) ==
  LET found == SelectSeq(presentation.refs, LAMBDA id : Carrier(owners, id) # 0)
  IN  IF presentation.sound THEN PresentationFloor(Resolve(owners, found)) ELSE Invalid

PresentationMinimumProfile(presentation, owners) ==
  IF presentation.sound /\ Carried(owners, presentation.refs)
    THEN PresentationFloor(Resolve(owners, presentation.refs))
    ELSE Invalid

SelectSequenceProfile_PresentationsOnly(owners, mixes) ==
  Max({Simple} \cup {PresentationMinimumProfile(mixes[i], owners) : i \in DOMAIN mixes})

\* The floor of the sequence, raised by each presentation; an error if any is.
SelectSequenceProfile(owners, mixes) ==
  Max({SequenceFloor(owners)}
        \cup {PresentationMinimumProfile(mixes[i], owners) : i \in DOMAIN mixes})

----------------------------------------------------------------------------
(* Findings about a header                                                 *)

CompliesWith(profile, owners, mixes) ==
  \E i \in DOMAIN mixes : PresentationMinimumProfile(mixes[i], owners) <= profile

\* The fields of the header that no presentation complies with.
ComplianceFindings(primary, additional, owners, mixes) ==
  IF primary \notin Named THEN {}
  ELSE {field \in {"primary_profile", "additional_profile"} :
          \/ field = "primary_profile" /\ ~CompliesWith(primary, owners, mixes)
          \/ /\ field = "additional_profile"
             /\ additional # primary /\ additional \in Named
             /\ ~CompliesWith(additional, owners, mixes)}

\* Without a channel count the other limits still apply.
SequenceLimitFindings(primary, owners) ==
  LET floor  == SequenceFloor(owners)
      needed == IF floor = Unfixed THEN SequenceCountFloor(UniqueById(owners)) ELSE floor
  IN  IF primary \in Named /\ needed > primary THEN {"primary_profile"} ELSE {}

----------------------------------------------------------------------------

ProfileInit == elements = <<>> /\ presentations = <<>>

AddElement(element) ==
  /\ Len(elements) + Len(presentations) < MaxDescriptors
  /\ elements' = Append(elements, element)
  /\ UNCHANGED presentations

AddPresentation(presentation) ==
  /\ Len(elements) + Len(presentations) < MaxDescriptors
  /\ presentations' = Append(presentations, presentation)
  /\ UNCHANGED elements

Complete ==
  /\ Len(elements) + Len(presentations) = MaxDescriptors
  /\ UNCHANGED profileVars

ProfileNext ==
  \/ \E element \in Elements : AddElement(element)
  \/ \E presentation \in Presentations : AddPresentation(presentation)
  \/ Complete

ProfileSpec == ProfileInit /\ [][ProfileNext]_profileVars

----------------------------------------------------------------------------
(* Properties                                                              *)

Selected == SelectSequenceProfile(elements, presentations)

\* The positions at which an id occurs first.
Firsts == {i \in DOMAIN elements : \A j \in 1..(i - 1) : elements[j].id # elements[i].id}

ChannelsAt(positions) ==
  Total([i \in DOMAIN elements |-> IF i \in positions THEN elements[i].channels ELSE 0])

\* The positions a presentation refers to.
Referred(presentation) ==
  {i \in Firsts : \E k \in DOMAIN presentation.refs : presentation.refs[k] = elements[i].id}

AtMostOne(positions) == Cardinality(positions) <= 1

\* The limits as the module documentation tabulates them: which of them span
\* the sequence, and which a presentation on its own.
Permits(profile) ==
  /\ Cardinality(Firsts) <= EnhancedElements /\ ChannelsAt(Firsts) <= EnhancedChannels
  /\ \A i \in Firsts : elements[i].fixed
  /\ profile <= Base =>
       /\ Cardinality(Firsts) <= BaseElements
       /\ AtMostOne({i \in Firsts : elements[i].scene})
       /\ AtMostOne({i \in Firsts : elements[i].layered})
       /\ \A i \in Firsts : ~elements[i].expanded
       /\ \A i \in DOMAIN presentations :
            ChannelsAt(Referred(presentations[i])) <= BaseChannels
  /\ profile = Simple =>
       /\ Cardinality(Firsts) <= SimpleElements
       /\ \A i \in DOMAIN presentations :
            ChannelsAt(Referred(presentations[i])) <= SimpleChannels

\* What EncoderBuilder lets through to profile selection.
IsJudged(presentation) ==
  /\ presentation.sound
  /\ Carried(elements, presentation.refs)
  /\ IsInjective(presentation.refs)

\* The profile selected for a set the builder lets through is the least that
\* permits it, and there is none exactly if nothing does, although the limits
\* are checked by two functions over two lists (select_sequence_profile).
SelectsLeast ==
  (\A i \in DOMAIN presentations : IsJudged(presentations[i])) =>
    IF Selected \in Named
      THEN Permits(Selected) /\ \A profile \in Named : profile < Selected => ~Permits(profile)
      ELSE \A profile \in Named : ~Permits(profile)

\* A header with the selected profile draws no finding from validate: writer
\* and validator agree, though the one wants every presentation to comply and
\* the other any (compliance_findings, sequence_limit_findings).
SelectedValidates ==
  Selected \in Named /\ presentations # <<>> =>
    /\ ComplianceFindings(Selected, Selected, elements, presentations) = {}
    /\ SequenceLimitFindings(Selected, elements) = {}

\* A header without findings can be played: the elements are within the limits
\* of the profile, and some presentation only refers to elements that are
\* there and of known channel counts, within its limits.  An additional profile
\* above it has no finding either, as the profiles nest.
CleanHeaderPlays ==
  \A profile \in Named :
    /\ ComplianceFindings(profile, profile, elements, presentations) = {}
    /\ SequenceLimitFindings(profile, elements) = {}
    =>
    /\ \E i \in DOMAIN presentations :
         /\ presentations[i].sound
         /\ \A k \in DOMAIN presentations[i].refs :
              \E j \in Firsts : elements[j].id = presentations[i].refs[k] /\ elements[j].fixed
         /\ profile = Simple => ChannelsAt(Referred(presentations[i])) <= SimpleChannels
         /\ profile = Base => ChannelsAt(Referred(presentations[i])) <= BaseChannels
    /\ profile = Simple => Cardinality(Firsts) <= SimpleElements
    /\ profile = Base => Cardinality(Firsts) <= BaseElements
    /\ \A additional \in Named : additional >= profile =>
         ComplianceFindings(profile, additional, elements, presentations) = {}

\* What is added to a sequence never lowers the profile it needs, and a
\* redundant copy of an element changes nothing, whatever the copy says
\* (unique_by_id and the lookup of a presentation bind to the first).
GrowthNeverLowers ==
  /\ elements # <<>> =>
       LET earlier == Front(elements)
           before  == SelectSequenceProfile(earlier, presentations)
       IN  /\ before \in Named => Selected >= before
           /\ Carrier(earlier, Last(elements).id) # 0 => Selected = before
  /\ presentations # <<>> =>
       LET before == SelectSequenceProfile(elements, Front(presentations))
       IN  before \in Named => Selected >= before
=============================================================================
