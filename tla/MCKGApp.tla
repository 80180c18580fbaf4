-------------------------------- MODULE MCKGApp --------------------------------
(***************************************************************************)
(* An instance of KGApp for TLC.                                           *)
(***************************************************************************)
EXTENDS KGApp, TLC

\* The list of projects and the sidebar of a graph.
MCChildren == {"StatsTab", "Sidebar"}
MCTabOf == [c \in MCChildren |-> IF c = "StatsTab" THEN "stats" ELSE "graph"]

\* The server of this repository; one that answers with other values and unknown
\* keys; one whose answer is not an object.
MCLiveAnswers == {
  [k \in Keys |-> IF k \in {"graph", "projects", "index"} THEN "true" ELSE "false"],
  [k \in {"projects", "code_view", "unknown"} |-> IF k = "code_view" THEN "true" ELSE "other"],
  <<>>}

\* A packaged file that claims more than a snapshot may offer.
MCSnapshotAnswers == {[k \in {"graph", "index"} |-> "true"]}
================================================================================
