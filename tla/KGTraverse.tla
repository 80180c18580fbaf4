------------------------------ MODULE KGTraverse ------------------------------
(***************************************************************************)
(* Expanding a list of nodes into a subgraph (SQLiteAdapter.neighbors and  *)
(* expand_with_meta), beside processes that write to the graph.            *)
(*                                                                         *)
(* The expansion runs one SQL statement after another, each of which sees  *)
(* the graph of its own moment: one get per seed, a recursive query, one   *)
(* get per node found, and a query for the edges.  Others may commit       *)
(* between two statements.  The recursive query takes the rows <<node,     *)
(* distance>> out of its queue in an order that SQLite leaves open.        *)
(*                                                                         *)
(* A node id is a number, for the order of the ids.                        *)
(***************************************************************************)
EXTENDS FiniteSets, Integers, Sequences

CONSTANTS
  Ids,         \* node ids
  Sems,        \* semantic edge types
  Starts,      \* the graphs a command may find
  Batches,     \* bound: what a save may add, [nodes, edges]
  MaxWrites    \* bound on the transactions of other processes

EdgeIds == Ids \X Sems \X Ids
Statuses == {"absent", "active", "tombstoned"}

\* An active edge joins active nodes (EdgesAnchored of KGGraph).
Anchored(state, active) ==
  \A e \in active : state[e[1]] = "active" /\ state[e[3]] = "active"

Graphs == {g \in [status : [Ids -> Statuses], links : SUBSET EdgeIds] :
             Anchored(g.status, g.links)}

\* What expand is asked: types is empty where edge_types is not given, cap bounds
\* the nodes shown, work is max_nodes.
Directions == {"out", "in", "both", "outbound", "inbound"}
Expansions == [ids : Seq(Ids), hops : Nat, direction : Directions, types : SUBSET Sems,
               cap : Int, work : Int]

ASSUMPTION TraverseConstants ==
  /\ Ids \subseteq Nat \ {0} /\ IsFiniteSet(Ids) /\ IsFiniteSet(Sems)
  /\ Starts \subseteq Graphs
  /\ Batches \subseteq [nodes : SUBSET Ids, edges : SUBSET EdgeIds]
  /\ MaxWrites \in Nat

VARIABLES
  status,   \* nodes.status, "absent" when the table has no such row
  links,    \* the active edges
  writes,   \* the transactions of other processes so far
  at,       \* the statement the command runs next
  asked,    \* the arguments of the expansion
  next,     \* the position of the seed that is read next
  seeds,    \* the positions of the seeds that were active
  view,     \* the active edges when the recursive query ran
  queue,    \* the rows of the query still to be taken
  table,    \* the rows taken, at most as many as its LIMIT
  todo,     \* nodes found that are still to be read
  nodes,    \* those that were read and are not tombstoned
  edges,    \* the edges read
  answer    \* the subgraph: <<position or 0, node>> for each node, and the edges

database == <<status, links, writes>>
traverseVars == <<status, links, writes, at, asked, next, seeds, view, queue, table, todo,
                  nodes, edges, answer>>

NoAnswer == [entries |-> {}, edges |-> {}]
NoExpansion == [ids |-> <<>>, hops |-> 0, direction |-> "both", types |-> {}, cap |-> 0, work |-> 0]

TraverseSteps == {"seeds", "reach", "nodes", "edges", "rank"}

-----------------------------------------------------------------------------
(* Other processes: the transactions of the gate (see KGGraph).            *)

Active == {n \in Ids : status[n] = "active"}

\* What becomes of an edge of the loser l.
Repointed(e, w, l) ==
  <<IF e[1] = l THEN w ELSE e[1], e[2], IF e[3] = l THEN w ELSE e[3]>>

\* Gate.merge.  An edge that collides with a pending or rejected one of the winner
\* takes its status, so not all that are re-pointed stay active.
Merge(w, l) ==
  /\ {w, l} \subseteq Active /\ w # l
  /\ status' = [status EXCEPT ![l] = "tombstoned"]
  /\ LET losing == {e \in links : l \in {e[1], e[3]}}
         rebuilt == {Repointed(e, w, l) : e \in losing}
     IN  \E kept \in SUBSET {e \in rebuilt : e[1] # e[3]} : links' = (links \ losing) \union kept

\* Gate.normalize: new nodes, and edges between what is active then.
Save(batch) ==
  /\ status' = [n \in Ids |-> IF n \in batch.nodes /\ status[n] = "absent" THEN "active"
                              ELSE status[n]]
  /\ links' = links \union batch.edges
  /\ Anchored(status', batch.edges)

Write ==
  /\ writes < MaxWrites
  /\ writes' = writes + 1
  /\ (\E w, l \in Ids : Merge(w, l)) \/ (\E batch \in Batches : Save(batch))

-----------------------------------------------------------------------------
(* The recursive query of neighbors.                                       *)

SetOf(s) == {s[i] : i \in DOMAIN s}

\* The pairs of nodes that an edge leads between.  What is neither "out" nor "in"
\* is taken as "both".
Crossings(e, direction) ==
  CASE direction = "out" -> {<<e[1], e[3]>>}
    [] direction = "in" -> {<<e[3], e[1]>>}
    [] OTHER -> {<<e[1], e[3]>>, <<e[3], e[1]>>}

\* Whether an edge of the right type leads from n to m.
Leads(n, m, among, direction, types) ==
  \E e \in among : (types = {} \/ e[2] \in types) /\ <<n, m>> \in Crossings(e, direction)

\* The nodes that an edge of the right type leads to.
NeighboursOf(n) == {m \in Ids : Leads(n, m, view, asked.direction, asked.types)}

\* (fault) A row adds others at the last distance too.
ProducedTooFar(row) ==
  IF row[2] <= asked.hops THEN {<<m, row[2] + 1>> : m \in NeighboursOf(row[1])} ELSE {}

\* (fault) A node is added once, at whatever distance it is found first.
ProducedOnce(row) ==
  IF row[2] < asked.hops
  THEN {<<m, row[2] + 1>> : m \in NeighboursOf(row[1]) \ {taken[1] : taken \in table}}
  ELSE {}

\* The rows that one row adds.
Produced(row) ==
  IF row[2] < asked.hops THEN {<<m, row[2] + 1>> : m \in NeighboursOf(row[1])} ELSE {}

AtLeastZero(x) == IF x < 0 THEN 0 ELSE x
Limit == Len(asked.ids) + AtLeastZero(asked.work)

\* Nothing has been read for the expansion.
Forget(expansion) ==
  /\ asked' = expansion
  /\ next' = 1
  /\ seeds' = {} /\ view' = {} /\ queue' = {} /\ table' = {} /\ todo' = {} /\ nodes' = {}
  /\ edges' = {} /\ answer' = NoAnswer

BeginExpand(expansion) == at' = "seeds" /\ Forget(expansion)

ReadSeed ==
  /\ at = "seeds" /\ next <= Len(asked.ids)
  /\ seeds' = IF asked.ids[next] \in Active THEN seeds \union {next} ELSE seeds
  /\ next' = next + 1
  /\ UNCHANGED <<at, asked, view, queue, table, todo, nodes, edges, answer>>

\* All the ids asked for are where the query starts, the inactive ones included.
StartQuery ==
  /\ at = "seeds" /\ next > Len(asked.ids)
  /\ asked.hops > 0 /\ seeds # {}
  /\ at' = "reach"
  /\ view' = links
  /\ queue' = {<<n, 0>> : n \in SetOf(asked.ids)}
  /\ UNCHANGED <<asked, next, seeds, table, todo, nodes, edges, answer>>

SkipQuery ==
  /\ at = "seeds" /\ next > Len(asked.ids)
  /\ asked.hops = 0 \/ seeds = {}
  /\ at' = "rank"
  /\ UNCHANGED <<asked, next, seeds, view, queue, table, todo, nodes, edges, answer>>

\* UNION: a row that was there already is not added again.
TakeRow(row) ==
  /\ at = "reach" /\ row \in queue /\ Cardinality(table) < Limit
  /\ table' = table \union {row}
  /\ queue' = (queue \union Produced(row)) \ table'
  /\ UNCHANGED <<at, asked, next, seeds, view, todo, nodes, edges, answer>>

Reached == {n \in Ids : \E row \in table : row[1] = n /\ row[2] > 0}

FetchRows ==
  /\ at = "reach" /\ (queue = {} \/ Cardinality(table) >= Limit)
  /\ todo' = Reached
  /\ at' = "nodes"
  /\ UNCHANGED <<asked, next, seeds, view, queue, table, nodes, edges, answer>>

ReadNode(n) ==
  /\ at = "nodes" /\ n \in todo
  /\ todo' = todo \ {n}
  /\ nodes' = IF n \in Active THEN nodes \union {n} ELSE nodes
  /\ UNCHANGED <<at, asked, next, seeds, view, queue, table, edges, answer>>

\* (fault) The edges of the seeds are not read.
TouchedByRows == Reached

\* The nodes whose edges are read.
Touched == SetOf(asked.ids) \union Reached

ReadEdges ==
  /\ at = "nodes" /\ todo = {}
  /\ edges' = {e \in links : {e[1], e[3]} \subseteq Touched}
  /\ at' = "rank"
  /\ UNCHANGED <<asked, next, seeds, view, queue, table, todo, nodes, answer>>

-----------------------------------------------------------------------------
(* What expand_with_meta makes of the rows.                                *)

SeedIds == {asked.ids[i] : i \in seeds}
OtherNodes == nodes \ SeedIds

\* A seed that was asked for twice is there twice.
Entries == {<<i, asked.ids[i]>> : i \in seeds} \union {<<0, n>> : n \in OtherNodes}

Among(some, ids) == {e \in some : e[1] \in ids /\ e[3] \in ids}
Named(entries) == {x[2] : x \in entries}

\* degree_centrality, up to its divisor.
Degree(n, some) == Cardinality({e \in some : e[1] = n}) + Cardinality({e \in some : e[3] = n})

\* The key (not a seed, -centrality, id) of the cut; equals keep their order.
Before(x, y, some) ==
  LET dx == Degree(x[2], some)
      dy == Degree(y[2], some)
  IN  IF (x[1] = 0) # (y[1] = 0) THEN y[1] = 0
      ELSE \/ dx > dy
           \/ dx = dy /\ x[2] < y[2]
           \/ dx = dy /\ x[2] = y[2] /\ x[1] < y[1]

\* (fault) One more than cap.
FirstOfOneMore(entries, cap, some) ==
  {x \in entries : Cardinality({y \in entries : Before(y, x, some)}) <= cap}

\* The first cap entries.
FirstOf(entries, cap, some) ==
  {x \in entries : Cardinality({y \in entries : Before(y, x, some)}) < cap}

Shown ==
  IF Cardinality(Entries) > asked.cap
  THEN FirstOf(Entries, asked.cap, Among(edges, Named(Entries)))
  ELSE Entries

Answered == [entries |-> Shown, edges |-> Among(edges, Named(Shown))]

Rank ==
  /\ at = "rank"
  /\ answer' = Answered
  /\ at' = "expanded"
  /\ UNCHANGED <<asked, next, seeds, view, queue, table, todo, nodes, edges>>

TraverseStep ==
  /\ \/ ReadSeed \/ StartQuery \/ SkipQuery \/ FetchRows \/ ReadEdges \/ Rank
     \/ \E row \in queue : TakeRow(row)
     \/ \E n \in todo : ReadNode(n)
  /\ UNCHANGED database

TraverseInit ==
  /\ \E g \in Starts : status = g.status /\ links = g.links
  /\ writes = 0
  /\ at = "idle"
  /\ asked = NoExpansion
  /\ next = 1
  /\ seeds = {} /\ view = {} /\ queue = {} /\ table = {} /\ todo = {} /\ nodes = {}
  /\ edges = {} /\ answer = NoAnswer

Rows == Ids \X Nat
EntriesType == Nat \X Ids

TraverseTypeOK ==
  /\ status \in [Ids -> Statuses] /\ links \in SUBSET EdgeIds /\ writes \in 0..MaxWrites
  /\ asked \in Expansions
  /\ next \in 1..Len(asked.ids) + 1
  /\ seeds \in SUBSET (1..Len(asked.ids))
  /\ view \in SUBSET EdgeIds /\ edges \in SUBSET EdgeIds
  /\ queue \in SUBSET Rows /\ table \in SUBSET Rows
  /\ todo \in SUBSET Ids /\ nodes \in SUBSET Ids
  /\ answer \in [entries : SUBSET EntriesType, edges : SUBSET EdgeIds]
================================================================================
