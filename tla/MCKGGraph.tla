----------------------------- MODULE MCKGGraph -----------------------------
(***************************************************************************)
(* Instances of KGGraph for TLC.                                           *)
(***************************************************************************)
EXTENDS KGGraph, TLC

CONSTANTS ann, bob, v1, v2, s1, s2   \* slugs, attribute values, sources

MCTypes == {"person"}
MCSlugs == {ann}
MCSlugs2 == {ann, bob}
MCSems == {"same_as", "uses"}
MCSameAs == {"same_as"}

Mention(t, name, slug, value) == [type |-> t, name |-> name, slug |-> slug, value |-> value]

\* Two spellings of one slug, and two names with slugs and values of their own.
MCSpellings == {Mention("person", "Ann", ann, None), Mention("person", "ann", ann, None)}
MCNames == {Mention("person", "Ann", ann, v1), Mention("person", "Bob", bob, v2)}
MCValued == {Mention("person", "Ann", ann, v1), Mention("person", "ann", ann, v2)}
MCSources == {s1, s2}
MCSymmetry == Permutations(MCSources)
=============================================================================
