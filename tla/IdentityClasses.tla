--------------------------- MODULE IdentityClasses ---------------------------
(***************************************************************************)
(* What the memory graph promises about identity, without its tables: every*)
(* id ever handed out names an entity; an entity is a class of ids of one  *)
(* kind, spoken for by one of them; saving adds entities, merging unites   *)
(* two, and nothing ever splits a class or forgets an id.                  *)
(***************************************************************************)
CONSTANTS Ids, KindOf(_), Unknown

VARIABLE speaker   \* speaker[n]: the id that speaks for n's entity

Speakers == {speaker[n] : n \in Ids} \ {Unknown}

Init == speaker = [n \in Ids |-> Unknown]

\* A save introduces new entities, each an id of its own.
Introduce ==
    \E new \in SUBSET {n \in Ids : speaker[n] = Unknown} :
        speaker' = [n \in Ids |-> IF n \in new THEN n ELSE speaker[n]]

\* A merge or a confirmed review makes one entity of two of the same kind.
Unite ==
    \E w, l \in Speakers :
        /\ w # l
        /\ KindOf(w) = KindOf(l)
        /\ speaker' = [n \in Ids |-> IF speaker[n] = l THEN w ELSE speaker[n]]

Next == Introduce \/ Unite

Spec == Init /\ [][Next]_speaker
=============================================================================
