----------------------------- MODULE MCKGGraphArea -----------------------------
(***************************************************************************)
(* An instance of KGGraphArea for TLC: three nodes of which two are related *)
(* within one cluster and two across, a skeleton of one node; the layout   *)
(* is above the references of nodes and of edges, and drawn as spheres.     *)
(* When the first of four entities is archived, each of the others takes    *)
(* the number before its own.                                              *)
(***************************************************************************)
EXTENDS KGGraphArea, TLC

MCNodes == 0 .. 3
MCPlace == [n \in MCNodes |-> <<0, 40, 900, 2000>>[n + 1]]
MCSize == [n \in MCNodes |-> <<4, 9, 4, 3>>[n + 1]]
MCPath == [n \in MCNodes |->
  <<<<"src", "lib", "a.py">>, <<"src", "lib", "b.py">>, <<"docs">>, <<>>>>[n + 1]]
MCStatus == [n \in MCNodes |-> <<"dead", "entry", "exported", "missed">>[n + 1]]
MCStatusColors == [s \in {"dead", "entry", "structural"} |->
  CASE s = "dead" -> [red |-> 860, green |-> 60, blue |-> 60]
    [] s = "entry" -> [red |-> 40, green |-> 220, blue |-> 920]
    [] s = "structural" -> [red |-> 30, green |-> 50, blue |-> 90]]
MCChannels ==
  [n \in MCNodes |-> <<[red |-> 500, green |-> 600, blue |-> 1000],
                       [red |-> 1000, green |-> 400, blue |-> 300],
                       [red |-> 1000, green |-> 1000, blue |-> 1000],
                       [red |-> 900, green |-> 930, blue |-> 960]>>[n + 1]]
MCEdges == {[source |-> 0, target |-> 1, type |-> "CALLS"],
            [source |-> 1, target |-> 2, type |-> "CALLS"]}
MCEntities == {"a", "b", "c", "d", "missed"}
MCNumberings == {[n \in MCNodes |-> <<"a", "b", "c", "missed">>[n + 1]],
                 [n \in MCNodes |-> <<"b", "c", "d", "missed">>[n + 1]]}
MCLayouts == {{0, 1, 2}}
MCHidings == {{}, {0, 1, 2}}
MCPaths == {{}, {0, 1}}
\* 90.4 pixels towards the panel.
MCMoves == {-90400}
================================================================================
