----------------------------- MODULE MCKGRetrieval -----------------------------
(***************************************************************************)
(* An instance of KGRetrieval for TLC.                                     *)
(***************************************************************************)
EXTENDS KGRetrieval

Graph(active, merged, linked) ==
  [status |-> [n \in Ids |-> IF n \in active THEN "active"
                             ELSE IF n \in merged THEN "tombstoned" ELSE "absent"],
   links |-> linked]

\* A chain with a cycle of two edges, a star of two types, a node that was merged away,
\* and nodes without edges.
SomeStarts ==
  {Graph({1, 2, 3}, {}, {<<1, "uses", 2>>, <<2, "uses", 3>>, <<3, "knows", 2>>}),
   Graph({1, 2, 3}, {}, {<<2, "uses", 1>>, <<2, "knows", 3>>}),
   Graph({1, 3}, {2}, {<<3, "uses", 1>>})}
SomeBatches == {[nodes |-> {2}, edges |-> {<<1, "uses", 2>>}], [nodes |-> {}, edges |-> {<<3, "uses", 1>>}]}

Expansion(ids, hops, direction, types, cap, work) ==
  [ids |-> ids, hops |-> hops, direction |-> direction, types |-> types, cap |-> cap, work |-> work]

SomeAsks ==
  {Expansion(<<1>>, 2, "both", {}, 3, 3), Expansion(<<2>>, 1, "outbound", {"uses"}, 3, 3),
   Expansion(<<1, 1>>, 2, "out", {}, 2, 1), Expansion(<<3, 2>>, 2, "in", {}, 1, 0),
   Expansion(<<1, 3>>, 0, "both", {}, 3, 3)}
SomePacks == {[expansion |-> Expansion(<<2>>, 1, "both", {}, 3, 3), tokens |-> t] : t \in {1, 4, 6}}
SomeQueries == {[hops |-> 1, cap |-> 2, tokens |-> 0], [hops |-> 2, cap |-> 3, tokens |-> 4]}

SomeDocs == [n \in Ids |-> IF n = 3 THEN "b" ELSE "a"]
SomeTokens == [n \in Ids |-> n]

\* bound: two transactions of others meet an expansion or a pack_context, one a `kg query` of
\* one hop, none one of two hops.
FewWrites == kind = "query" => writes <= (IF query.hops = 1 THEN 1 ELSE 0)
================================================================================
