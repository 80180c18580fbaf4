----------------------------- MODULE KGGeneration -----------------------------
(***************************************************************************)
(* The generation counter of kg.db and the readers that trust it.          *)
(*                                                                         *)
(* Every upsert of active rows increments the counter first.  Inside a     *)
(* transaction of the gate the increment and the rows become visible       *)
(* together; the code indexer calls the storage outside any transaction,   *)
(* so its increment is committed alone and the rows follow later.  Two     *)
(* readers take an equal generation for an equal graph: the layout request *)
(* of the web server (its ETag) and the cached Louvain clusters.  A        *)
(* rebuild puts another database file, with another counter, at the same   *)
(* path while connections to the old file may be open.                     *)
(*                                                                         *)
(* The active node rows and the active edge rows of a database are each a  *)
(* stamp that is new at every change, 0 when there is none.                *)
(***************************************************************************)
EXTENDS Naturals

CONSTANTS
  Indexers,      \* processes running `kg index scan`, or the job of the web server
  Clients,       \* browsers asking for the layout
  Analysts,      \* processes asking for the clusters
  MaxChanges,    \* bound on the changes of rows
  MaxBumps,      \* bound on the generation of a database
  MaxDatabases,  \* bound on the database files, the first one included
  None           \* no rebuild candidate

ASSUMPTION ConstantsAssumption ==
  /\ MaxChanges \in Nat
  /\ MaxBumps \in Nat \ {0}
  /\ MaxDatabases \in Nat \ {0}
  /\ None \notin Nat

VARIABLES
  now,        \* what each database file holds
  main,       \* what a copy of the file alone holds: what is checkpointed
  used,       \* the number of database files made so far
  live,       \* the file at the path kg.db
  candidate,  \* the file of a staged rebuild, or None
  indexing,   \* where each indexer stands, and the file it opened
  request,    \* where the layout request of each client stands
  page,       \* the layout each client keeps, with its ETag
  louvain,    \* where the cluster computation of each analyst stands
  clock       \* the last stamp given

vars == <<now, main, used, live, candidate, indexing, request, page, louvain, clock>>

Databases == 1..MaxDatabases
Stamps == 0..MaxChanges
Generations == 1..MaxBumps

\* What was read at a generation.  settled is history: no increment was waiting for
\* its rows when the generation was read.  The tag 0 means that nothing was read.
Readings == [tag : Generations \union {0}, settled : BOOLEAN, nodes : Stamps, edges : Stamps]
NoReading == [tag |-> 0, settled |-> TRUE, nodes |-> 0, edges |-> 0]

Contents == [generation : Generations, nodes : Stamps, edges : Stamps, clusters : Readings]
EmptyContent == [generation |-> 1, nodes |-> 0, edges |-> 0, clusters |-> NoReading]

IndexerSteps == {"closed", "nodes", "nodesBumped", "edges", "edgesBumped"}
ReaderSteps == {"idle", "cache", "nodes", "edges", "store"}

\* A connection that reads the database d.
At(step, d, reading) == [at |-> step, on |-> d, reading |-> reading]
Idle == At("idle", 1, NoReading)

Init ==
  /\ now = [d \in Databases |-> EmptyContent]
  /\ main = [d \in Databases |-> EmptyContent]
  /\ used = 1
  /\ live = 1
  /\ candidate = None
  /\ indexing = [i \in Indexers |-> [at |-> "closed", on |-> 1]]
  /\ request = [c \in Clients |-> Idle]
  /\ page = [c \in Clients |-> [on |-> 1, reading |-> NoReading]]
  /\ louvain = [a \in Analysts |-> Idle]
  /\ clock = 0

-----------------------------------------------------------------------------
(* Writers.                                                                *)

\* A database whose counter was incremented for rows that are not there yet.
Pending(d) ==
  \E i \in Indexers : indexing[i].on = d /\ indexing[i].at \in {"nodesBumped", "edgesBumped"}

CanChange(d) ==
  /\ clock < MaxChanges
  /\ now[d].generation < MaxBumps

\* The content with other rows, and with the counter incremented.
WithRows(content, nodes, edges) ==
  [generation |-> content.generation, nodes |-> nodes, edges |-> edges,
   clusters |-> content.clusters]
Bumped(content) ==
  [generation |-> content.generation + 1, nodes |-> content.nodes, edges |-> content.edges,
   clusters |-> content.clusters]

\* _bump_generation: the increment, committed by itself when no transaction is open.
Bump(d) == now' = [now EXCEPT ![d] = Bumped(now[d])]

Move(i, step) == indexing' = [indexing EXCEPT ![i] = [at |-> step, on |-> indexing[i].on]]

OpenIndexer(i) ==
  /\ indexing[i].at = "closed"
  /\ indexing' = [indexing EXCEPT ![i] = [at |-> "nodes", on |-> live]]
  /\ UNCHANGED <<now, main, used, live, candidate, request, page, louvain, clock>>

\* upsert_nodes of one file, first half.
BumpForNodes(i) ==
  /\ indexing[i].at = "nodes"
  /\ CanChange(indexing[i].on)
  /\ Bump(indexing[i].on)
  /\ Move(i, "nodesBumped")
  /\ UNCHANGED <<main, used, live, candidate, request, page, louvain, clock>>

\* upsert_nodes, second half: the transaction of the rows.
CommitNodes(i) ==
  /\ indexing[i].at = "nodesBumped"
  /\ clock < MaxChanges
  /\ clock' = clock + 1
  /\ LET d == indexing[i].on
     IN  now' = [now EXCEPT ![d] = WithRows(now[d], clock + 1, now[d].edges)]
  /\ Move(i, "edges")
  /\ UNCHANGED <<main, used, live, candidate, request, page, louvain>>

BumpForEdges(i) ==
  /\ indexing[i].at = "edges"
  /\ CanChange(indexing[i].on)
  /\ Bump(indexing[i].on)
  /\ Move(i, "edgesBumped")
  /\ UNCHANGED <<main, used, live, candidate, request, page, louvain, clock>>

\* The next file of the scan follows.
CommitEdges(i) ==
  /\ indexing[i].at = "edgesBumped"
  /\ clock < MaxChanges
  /\ clock' = clock + 1
  /\ LET d == indexing[i].on
     IN  now' = [now EXCEPT ![d] = WithRows(now[d], now[d].nodes, clock + 1)]
  /\ Move(i, "nodes")
  /\ UNCHANGED <<main, used, live, candidate, request, page, louvain>>

\* A file without edges, or an upsert that raises (the database is locked, the disk
\* full): the scan notes the failure and goes on with the next file.
NextFile(i) ==
  /\ indexing[i].at \in {"nodesBumped", "edges", "edgesBumped"}
  /\ Move(i, "nodes")
  /\ UNCHANGED <<now, main, used, live, candidate, request, page, louvain, clock>>

\* The scan ends, or its process dies where it stands.
CloseIndexer(i) ==
  /\ indexing[i].at # "closed"
  /\ indexing' = [indexing EXCEPT ![i] = [at |-> "closed", on |-> 1]]
  /\ UNCHANGED <<now, main, used, live, candidate, request, page, louvain, clock>>

\* normalize, merge and the review decisions: one transaction that increments the
\* counter and changes nodes, edges or both.
GateWrite ==
  /\ CanChange(live)
  /\ clock' = clock + 1
  /\ \E nodes \in {now[live].nodes, clock + 1}, edges \in {now[live].edges, clock + 1} :
       /\ <<nodes, edges>> # <<now[live].nodes, now[live].edges>>
       /\ now' = [now EXCEPT ![live] = WithRows(Bumped(now[live]), nodes, edges)]
  /\ UNCHANGED <<main, used, live, candidate, indexing, request, page, louvain>>

-----------------------------------------------------------------------------
(* Readers.                                                                *)

ReadingOf(d) ==
  [tag |-> now[d].generation, settled |-> ~Pending(d), nodes |-> 0, edges |-> 0]
WithNodes(reading, nodes) ==
  [tag |-> reading.tag, settled |-> reading.settled, nodes |-> nodes, edges |-> 0]
WithEdges(reading, edges) ==
  [tag |-> reading.tag, settled |-> reading.settled, nodes |-> reading.nodes, edges |-> edges]

EndRequest(c) == request' = [request EXCEPT ![c] = Idle]

\* GET /api/layout: a connection of its own, and the generation.  A client that
\* sends back the current tag is answered 304 and keeps its page.
AskLayout(c) ==
  /\ request[c].at = "idle"
  /\ page[c].reading.tag # now[live].generation
  /\ request' = [request EXCEPT ![c] = At("nodes", live, ReadingOf(live))]
  /\ UNCHANGED <<now, main, used, live, candidate, indexing, page, louvain, clock>>

\* build_layout_payload: the node rows and the edge rows, two statements apart.
LayoutNodes(c) ==
  /\ request[c].at = "nodes"
  /\ LET d == request[c].on
     IN  request' = [request EXCEPT
                       ![c] = At("edges", d, WithNodes(request[c].reading, now[d].nodes))]
  /\ UNCHANGED <<now, main, used, live, candidate, indexing, page, louvain, clock>>

\* Mutant: the tag is taken once the payload is built.
LayoutEdgesTaggedLate(c) ==
  /\ request[c].at = "edges"
  /\ LET d == request[c].on
     IN  page' = [page EXCEPT ![c] =
                    [on |-> d,
                     reading |-> WithEdges(WithNodes(ReadingOf(d), request[c].reading.nodes),
                                           now[d].edges)]]
  /\ EndRequest(c)
  /\ UNCHANGED <<now, main, used, live, candidate, indexing, louvain, clock>>

LayoutEdges(c) ==
  /\ request[c].at = "edges"
  /\ LET d == request[c].on
     IN  page' = [page EXCEPT ![c] =
                    [on |-> d, reading |-> WithEdges(request[c].reading, now[d].edges)]]
  /\ EndRequest(c)
  /\ UNCHANGED <<now, main, used, live, candidate, indexing, louvain, clock>>

\* The payload is too large, or the client or the server goes away.
LayoutFails(c) ==
  /\ request[c].at # "idle"
  /\ EndRequest(c)
  /\ UNCHANGED <<now, main, used, live, candidate, indexing, page, louvain, clock>>

EndLouvain(a) == louvain' = [louvain EXCEPT ![a] = Idle]

\* louvain_cached: the generation, then the clusters kept for it.
AskClusters(a) ==
  /\ louvain[a].at = "idle"
  /\ louvain' = [louvain EXCEPT ![a] = At("cache", live, ReadingOf(live))]
  /\ UNCHANGED <<now, main, used, live, candidate, indexing, request, page, clock>>

GetClusters(a) ==
  /\ louvain[a].at = "cache"
  /\ LET d == louvain[a].on
     IN  IF now[d].clusters.tag = louvain[a].reading.tag
           THEN EndLouvain(a)
           ELSE louvain' = [louvain EXCEPT ![a] = At("nodes", d, louvain[a].reading)]
  /\ UNCHANGED <<now, main, used, live, candidate, indexing, request, page, clock>>

LouvainNodes(a) ==
  /\ louvain[a].at = "nodes"
  /\ LET d == louvain[a].on
     IN  IF now[d].nodes = 0
           THEN EndLouvain(a)
           ELSE louvain' = [louvain EXCEPT
                              ![a] = At("edges", d, WithNodes(louvain[a].reading, now[d].nodes))]
  /\ UNCHANGED <<now, main, used, live, candidate, indexing, request, page, clock>>

LouvainEdges(a) ==
  /\ louvain[a].at = "edges"
  /\ LET d == louvain[a].on
     IN  louvain' = [louvain EXCEPT
                       ![a] = At("store", d, WithEdges(louvain[a].reading, now[d].edges))]
  /\ UNCHANGED <<now, main, used, live, candidate, indexing, request, page, clock>>

WithClusters(content, clusters) ==
  [generation |-> content.generation, nodes |-> content.nodes, edges |-> content.edges,
   clusters |-> clusters]

\* Mutant: the clusters are kept under the generation found when they are stored.
StoreClustersRetagged(a) ==
  /\ louvain[a].at = "store"
  /\ LET d == louvain[a].on
     IN  now' = [now EXCEPT ![d] =
                   WithClusters(@, [louvain[a].reading EXCEPT !.tag = now[d].generation])]
  /\ EndLouvain(a)
  /\ UNCHANGED <<main, used, live, candidate, indexing, request, page, clock>>

\* store_clusters replaces whatever is kept, for any generation.
StoreClusters(a) ==
  /\ louvain[a].at = "store"
  /\ LET d == louvain[a].on
     IN  now' = [now EXCEPT ![d] = WithClusters(now[d], louvain[a].reading)]
  /\ EndLouvain(a)
  /\ UNCHANGED <<main, used, live, candidate, indexing, request, page, clock>>

\* No active node is left, or the process of the analyst ends.
LouvainFails(a) ==
  /\ louvain[a].at # "idle"
  /\ EndLouvain(a)
  /\ UNCHANGED <<now, main, used, live, candidate, indexing, request, page, clock>>

-----------------------------------------------------------------------------
(* Rebuild.                                                                *)

\* External: SQLite moves the committed pages of the write-ahead log into the file.
\* Only a copy of the file shows it, so it need not happen when none can follow.
Checkpoint ==
  /\ used < MaxDatabases
  /\ candidate = None
  /\ main[live] # now[live]
  /\ main' = [main EXCEPT ![live] = now[live]]
  /\ UNCHANGED <<now, used, live, candidate, indexing, request, page, louvain, clock>>

\* RebuildCandidate.create: an empty file (--full), or a copy of kg.db without the
\* write-ahead log beside it.
CreateCandidate(full) ==
  /\ candidate = None
  /\ used < MaxDatabases
  /\ LET content == IF full THEN EmptyContent ELSE main[live]
     IN  /\ now' = [now EXCEPT ![used + 1] = content]
         /\ main' = [main EXCEPT ![used + 1] = content]
  /\ used' = used + 1
  /\ candidate' = used + 1
  /\ UNCHANGED <<live, indexing, request, page, louvain, clock>>

\* publish: the candidate replaces kg.db, whoever has the old file open.
Publish ==
  /\ candidate # None
  /\ live' = candidate
  /\ candidate' = None
  /\ UNCHANGED <<now, main, used, indexing, request, page, louvain, clock>>

-----------------------------------------------------------------------------
IndexerStep(i) ==
  \/ OpenIndexer(i) \/ BumpForNodes(i) \/ CommitNodes(i) \/ BumpForEdges(i)
  \/ CommitEdges(i) \/ NextFile(i) \/ CloseIndexer(i)
ClientStep(c) == AskLayout(c) \/ LayoutNodes(c) \/ LayoutEdges(c) \/ LayoutFails(c)
AnalystStep(a) ==
  \/ AskClusters(a) \/ GetClusters(a) \/ LouvainNodes(a) \/ LouvainEdges(a)
  \/ StoreClusters(a) \/ LouvainFails(a)

Next ==
  \/ \E i \in Indexers : IndexerStep(i)
  \/ GateWrite
  \/ \E c \in Clients : ClientStep(c)
  \/ \E a \in Analysts : AnalystStep(a)
  \/ Checkpoint
  \/ \E full \in BOOLEAN : CreateCandidate(full)
  \/ Publish

Spec == Init /\ [][Next]_vars

-----------------------------------------------------------------------------
TypeOK ==
  /\ now \in [Databases -> Contents]
  /\ main \in [Databases -> Contents]
  /\ used \in Databases
  /\ live \in 1..used
  /\ candidate \in (1..used) \union {None}
  /\ indexing \in [Indexers -> [at : IndexerSteps, on : 1..used]]
  /\ request \in [Clients -> [at : ReaderSteps, on : 1..used, reading : Readings]]
  /\ page \in [Clients -> [on : 1..used, reading : Readings]]
  /\ louvain \in [Analysts -> [at : ReaderSteps, on : 1..used, reading : Readings]]
  /\ clock \in Stamps

\* What was read at this content's generation is this content.
SameRows(reading, content) ==
  reading.settled /\ reading.tag = content.generation =>
    reading.nodes = content.nodes /\ reading.edges = content.edges

(***************************************************************************)
(* A client that is answered 304 keeps a layout that is current, if the    *)
(* file is the one it was read from and no increment of the indexer was    *)
(* waiting for its rows when the tag was taken: neither the two statements *)
(* of the payload, nor a write in between, nor another writer's abandoned  *)
(* increment can make the page old under its tag.                          *)
(***************************************************************************)
PagesCurrent ==
  \A c \in Clients : SameRows(page[c].reading, now[page[c].on])

(***************************************************************************)
(* Clusters that louvain_cached serves for the current generation were     *)
(* computed from the current rows, under the same proviso, even when a     *)
(* slow computation stores its result after the graph has moved on, and in *)
(* every copy a rebuild can take of the file.                              *)
(***************************************************************************)
ClustersCurrent ==
  \A d \in 1..used : /\ SameRows(now[d].clusters, now[d])
                     /\ SameRows(main[d].clusters, main[d])

\* The inductive invariant.  A settled tag is never ahead of the counter, and no
\* increment waits for its rows while the counter still shows the tag.
Safe(reading, d) ==
  reading.settled =>
    /\ reading.tag <= now[d].generation
    /\ reading.tag = now[d].generation => ~Pending(d)

NodesSame(reading, content) ==
  reading.settled /\ reading.tag = content.generation => reading.nodes = content.nodes

PageInv(c) ==
  /\ Safe(page[c].reading, page[c].on)
  /\ SameRows(page[c].reading, now[page[c].on])
RequestInv(c) ==
  /\ Safe(request[c].reading, request[c].on)
  /\ request[c].at = "edges" => NodesSame(request[c].reading, now[request[c].on])
LouvainInv(a) ==
  /\ Safe(louvain[a].reading, louvain[a].on)
  /\ louvain[a].at = "edges" => NodesSame(louvain[a].reading, now[louvain[a].on])
  /\ louvain[a].at = "store" => SameRows(louvain[a].reading, now[louvain[a].on])
ClustersInv(d) ==
  /\ Safe(now[d].clusters, d)
  /\ SameRows(now[d].clusters, now[d])
  /\ main[d].clusters.settled => main[d].clusters.tag <= main[d].generation
  /\ SameRows(main[d].clusters, main[d])

GenerationInv ==
  /\ \A c \in Clients : PageInv(c) /\ RequestInv(c)
  /\ \A a \in Analysts : LouvainInv(a)
  /\ \A d \in 1..used : ClustersInv(d)
=============================================================================
