----------------------------- MODULE TagGrammar -----------------------------
(***************************************************************************)
(* The grammar of RFC 5646, section 2.1, and language tags that grow by a  *)
(* subtag at a time.                                                       *)
(***************************************************************************)
EXTENDS LanguageTags

CONSTANTS
  Samples,    \* bound: the subtags tags are made of
  MaxSubtags  \* bound

\* A tag is parted at its hyphens: what lies between them has none.
ASSUME SamplesAssumption == \A subtag \in Samples : subtag \in Seq((0 .. 255) \ {Hyphen})

VARIABLE subtags

TagInit == \E subtag \in Samples : subtags = <<subtag>>

Extend ==
  /\ Len(subtags) < MaxSubtags
  /\ \E subtag \in Samples : subtags' = Append(subtags, subtag)

TagNext == Extend

TagSpec == TagInit /\ [][TagNext]_subtags

Tag == FlattenSeq([i \in DOMAIN subtags |->
         (IF i = 1 THEN <<>> ELSE <<Hyphen>>) \o subtags[i]])

----------------------------------------------------------------------------
(* The grammar, by the positions at which its parts end                    *)

Each(from, to, Class(_)) == \A n \in from + 1 .. to : Class(subtags[n])

\* language = 2*3ALPHA ["-" extlang] / 4ALPHA / 5*8ALPHA
Language(to) ==
  \/ to \in 1 .. 4 /\ IsAlpha(subtags[1], 2, 3) /\ Each(1, to, IsExtlang)
  \/ to = 1 /\ IsAlpha(subtags[1], 4, 8)

AtMostOne(from, to, Class(_)) == to <= from + 1 /\ Each(from, to, Class)

\* *("-" extension): a singleton heads each, and something follows it.
Extensions(from, to) ==
  LET Heads == {n \in from + 1 .. to : IsSingleton(subtags[n])}
  IN  /\ from < to => from + 1 \in Heads
      /\ \A n \in from + 1 .. to : n \in Heads \/ IsExtended(subtags[n])
      /\ \A n \in Heads : n < to /\ n + 1 \notin Heads

\* privateuse = "x" 1*("-" (1*8alphanum))
PrivateUse(from) ==
  /\ from + 1 < Len(subtags)
  /\ IsPrivateUseMarker(subtags[from + 1])
  /\ Each(from + 1, Len(subtags), IsPrivate)

\* langtag = language ["-" script] ["-" region] *("-" variant)
\*           *("-" extension) ["-" privateuse]
Langtag ==
  \E language \in DOMAIN subtags : Language(language) /\
    \E script \in language .. Len(subtags) : AtMostOne(language, script, IsScript) /\
      \E region \in script .. Len(subtags) : AtMostOne(script, region, IsRegion) /\
        \E variants \in region .. Len(subtags) : Each(region, variants, IsVariant) /\
          \E extensions \in variants .. Len(subtags) :
            /\ Extensions(variants, extensions)
            /\ extensions = Len(subtags) \/ PrivateUse(extensions)

----------------------------------------------------------------------------
(* Properties                                                              *)

\* One greedy pass that never goes back finds exactly the tags of the grammar:
\* no part it takes as soon as it can would have been needed for a later one.
GreedyIsGrammar ==
  IsWellFormedLanguageTag(Tag) <=> Lower(Tag) \in Irregular \/ Langtag \/ PrivateUse(0)

=============================================================================
