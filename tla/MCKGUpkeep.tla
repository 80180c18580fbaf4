------------------------------ MODULE MCKGUpkeep ------------------------------
(***************************************************************************)
(* An instance of KGUpkeep for TLC.                                        *)
(***************************************************************************)
EXTENDS KGUpkeep, TLC

\* Processes of a kind, and entities, are alike.
Alike == Permutations(Restores) \union Permutations(Syncs) \union Permutations(Entities)

\* At most two commands run at a time.
TwoAtATime ==
  Cardinality(Restoring) + Cardinality({s \in Backups : backup[s] # Missing})
    + Cardinality({p \in Syncs : sync[p].at # "idle"}) <= 2
================================================================================
