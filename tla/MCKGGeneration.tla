---------------------------- MODULE MCKGGeneration ----------------------------
(***************************************************************************)
(* Instances of KGGeneration for TLC.                                      *)
(***************************************************************************)
EXTENDS KGGeneration, TLC

\* Indexers take the same steps, and so do analysts.
Processes == Permutations(Indexers) \union Permutations(Analysts)

\* A client and an analyst share nothing that either of them writes: a behaviour with
\* both shows what one with the clients alone or the analysts alone shows.
OneKindOfReader ==
  \/ \A c \in Clients : request[c].at = "idle" /\ page[c].reading.tag = 0
  \/ /\ \A a \in Analysts : louvain[a].at = "idle"
     /\ \A d \in Databases : now[d].clusters = NoReading
=============================================================================
