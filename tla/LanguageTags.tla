---------------------------- MODULE LanguageTags ----------------------------
(***************************************************************************)
(* model::language_tag: whether a tag is a well-formed BCP-47 language tag *)
(* (RFC 5646, section 2.1).  A tag is a sequence of bytes, and so is each  *)
(* subtag between its hyphens.                                             *)
(*                                                                         *)
(* The code makes one greedy pass over the subtags; TagGrammar compares it *)
(* with the grammar.                                                       *)
(*                                                                         *)
(* A name with a suffix after an underscore is a faulty form of the        *)
(* definition below it; no specification uses it.                          *)
(***************************************************************************)
EXTENDS Naturals, Sequences, FiniteSets, SequencesExt, FiniteSetsExt

CONSTANT Irregular  \* the irregular grandfathered tags, in lower case

Hyphen  == 45
Letters == (65 .. 90) \cup (97 .. 122)
Digits  == 48 .. 57

Lower(tag) == [i \in DOMAIN tag |-> IF tag[i] \in 65 .. 90 THEN tag[i] + 32 ELSE tag[i]]

\* eq_ignore_ascii_case
SameTag(a, b) == Lower(a) = Lower(b)

----------------------------------------------------------------------------
(* Subtags                                                                 *)

IsAlpha(subtag, lo, hi) == Len(subtag) \in lo .. hi /\ ToSet(subtag) \subseteq Letters

IsDigits(subtag, n) == Len(subtag) = n /\ ToSet(subtag) \subseteq Digits

IsAlphanumeric(subtag, lo, hi) ==
  Len(subtag) \in lo .. hi /\ ToSet(subtag) \subseteq Letters \cup Digits

IsPrivateUseMarker(subtag) == Lower(subtag) = <<120>>

IsSingleton(subtag) == IsAlphanumeric(subtag, 1, 1) /\ ~IsPrivateUseMarker(subtag)

IsVariant(subtag) ==
  \/ IsAlphanumeric(subtag, 5, 8)
  \/ IsAlphanumeric(subtag, 4, 4) /\ subtag[1] \in Digits

IsExtlang(subtag)   == IsAlpha(subtag, 3, 3)
IsScript(subtag)    == IsAlpha(subtag, 4, 4)
IsRegion(subtag)    == IsAlpha(subtag, 2, 2) \/ IsDigits(subtag, 3)
IsExtended(subtag)  == IsAlphanumeric(subtag, 2, 8)
IsPrivate(subtag)   == IsAlphanumeric(subtag, 1, 8)

\* What lies between the hyphens of a tag; nothing, where two of them meet.
SubtagsOf(tag) ==
  LET hyphens == {i \in DOMAIN tag : tag[i] = Hyphen}
      From(k)  == CHOOSE i \in {0} \cup hyphens : Cardinality({h \in hyphens : h <= i}) = k - 1
      To(k)    == Min({Len(tag) + 1} \cup {h \in hyphens : h > From(k)})
  IN  [k \in 1 .. Cardinality(hyphens) + 1 |-> SubSeq(tag, From(k) + 1, To(k) - 1)]

----------------------------------------------------------------------------
(* The pass                                                                *)

\* The position behind the subtags of a class from at on, limit of them at most.
Behind(subtags, at, limit, Class(_)) ==
  Min({n \in at .. Len(subtags) + 1 :
         \/ n > Len(subtags) \/ n = at + limit
         \/ ~Class(subtags[n])})

\* private_use_tail
PrivateUseTail(subtags, at) ==
  at <= Len(subtags) /\ \A n \in at .. Len(subtags) : IsPrivate(subtags[n])

\* The position behind the extensions from at on; 0 if one of them is empty.
BehindExtensions(subtags, at) ==
  LET behind[n \in 1 .. Len(subtags) + 1] ==
        LET next == Behind(subtags, n + 1, Len(subtags), IsExtended)
        IN  IF n > Len(subtags) \/ ~IsSingleton(subtags[n]) THEN n
            ELSE IF next = n + 1 THEN 0
            ELSE behind[next]
  IN  behind[at]

\* Two extlangs behind a language.
BehindVariants_TwoExtlangs(subtags) ==
  LET extlangs == IF Len(subtags[1]) <= 3 THEN Behind(subtags, 2, 2, IsExtlang) ELSE 2
      script   == Behind(subtags, extlangs, 1, IsScript)
      region   == Behind(subtags, script, 1, IsRegion)
  IN  Behind(subtags, region, Len(subtags), IsVariant)

\* Behind the language, its extlangs, a script, a region and the variants.
BehindVariants(subtags) ==
  LET extlangs == IF Len(subtags[1]) <= 3 THEN Behind(subtags, 2, 3, IsExtlang) ELSE 2
      script   == Behind(subtags, extlangs, 1, IsScript)
      region   == Behind(subtags, script, 1, IsRegion)
  IN  Behind(subtags, region, Len(subtags), IsVariant)

PassSubtags(subtags) ==
  IF IsPrivateUseMarker(subtags[1]) THEN PrivateUseTail(subtags, 2)
  ELSE /\ IsAlpha(subtags[1], 2, 8)
       /\ LET at == BehindExtensions(subtags, BehindVariants(subtags))
          IN  /\ at # 0
              /\ \/ at > Len(subtags)
                 \/ IsPrivateUseMarker(subtags[at]) /\ PrivateUseTail(subtags, at + 1)

\* is_well_formed_language_tag
IsWellFormedLanguageTag(tag) == Lower(tag) \in Irregular \/ PassSubtags(SubtagsOf(tag))

=============================================================================
