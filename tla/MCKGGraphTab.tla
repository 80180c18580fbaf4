----------------------------- MODULE MCKGGraphTab -----------------------------
(***************************************************************************)
(* An instance of KGGraphTab for TLC: two entities, one of them without a   *)
(* file, on a server that may lack the first, and a budget of one or two.   *)
(***************************************************************************)
EXTENDS KGGraphTab, TLC

MCEntities == 1 .. 2
MCLabel == <<"Function", "Document">>
MCStatus == <<"dead", "test">>
MCFile == <<<<"src", "lib", "a.py">>, <<>>>>
MCEdges == {[from |-> 1, to |-> 2, type |-> "calls"]}
MCServerGraphs == {MCEntities, {2}}

\* Projects differ in nothing.
Alike == Permutations(Projects)
================================================================================
