--------------------------- MODULE KGReadingProofs ---------------------------
(***************************************************************************)
(* What holds of those who read the graph while others write to it: the    *)
(* generation counter with its pages and clusters, for any number of       *)
(* indexers, clients, analysts and database files (KGGeneration), and the  *)
(* commands that retrieve, for any graph, question and bounds              *)
(* (KGRetrieval).                                                          *)
(***************************************************************************)
EXTENDS KGGeneration, KGRetrieval, FiniteSetTheorems, WellFoundedInduction, TLAPS

\* An increment below the bound gives a content.
LEMMA BumpedType ==
  ASSUME NEW content \in Contents, content.generation < MaxBumps
  PROVE  Bumped(content) \in Contents
BY ConstantsAssumption DEF Bumped, Contents, Generations

\* What is typed before a step looks at it.
LEMMA Typed ==
  ASSUME TypeOK
  PROVE  /\ 1..used \subseteq Databases /\ used \in Databases /\ live \in 1..used /\ 1 \in 1..used
         /\ NoReading \in Readings /\ EmptyContent \in Contents
         /\ \A d \in Databases : now[d] \in Contents /\ main[d] \in Contents
         /\ \A d \in Databases : ReadingOf(d) \in Readings
<1>1. /\ 1..used \subseteq Databases /\ used \in Databases /\ live \in 1..used /\ 1 \in 1..used
      /\ \A d \in Databases : now[d] \in Contents /\ main[d] \in Contents
  BY ConstantsAssumption DEF TypeOK, Databases
<1>2. 1 \in Generations
  <2>1. now[1] \in Contents BY <1>1
  <2> QED BY <2>1, ConstantsAssumption DEF Contents, Generations
<1>3. 0 \in Stamps BY ConstantsAssumption DEF Stamps
<1>4. NoReading \in Readings BY <1>3 DEF NoReading, Readings
<1>5. EmptyContent \in Contents BY <1>2, <1>3, <1>4 DEF EmptyContent, Contents
<1>6. \A d \in Databases : Pending(d) \in BOOLEAN BY DEF Pending
<1>7. ASSUME NEW d \in Databases PROVE ReadingOf(d) \in Readings
  BY <1>1, <1>3, <1>6 DEF ReadingOf, Readings, Contents
<1> QED BY <1>1, <1>4, <1>5, <1>7

-----------------------------------------------------------------------------
(***************************************************************************)
(* Types.                                                                  *)
(***************************************************************************)

LEMMA TypeInductive == TypeOK /\ [Next]_vars => TypeOK'
<1> SUFFICES ASSUME TypeOK, [Next]_vars PROVE TypeOK'
  OBVIOUS
<1>0. /\ 1..used \subseteq Databases /\ used \in Databases /\ live \in 1..used /\ 1 \in 1..used
      /\ NoReading \in Readings /\ EmptyContent \in Contents
      /\ \A d \in Databases : now[d] \in Contents /\ main[d] \in Contents
      /\ \A d \in Databases : ReadingOf(d) \in Readings
  BY Typed
<1>1. ASSUME NEW i \in Indexers, OpenIndexer(i) PROVE TypeOK'
  BY <1>0, <1>1 DEF OpenIndexer, TypeOK, IndexerSteps
<1>2. ASSUME NEW i \in Indexers, BumpForNodes(i) PROVE TypeOK'
  <2>1. indexing[i].on \in Databases BY <1>0 DEF TypeOK
  <2>2. Bumped(now[indexing[i].on]) \in Contents
    BY <1>0, <1>2, <2>1, BumpedType DEF BumpForNodes, CanChange
  <2> QED BY <1>2, <2>1, <2>2 DEF BumpForNodes, Bump, Move, TypeOK, IndexerSteps
<1>3. ASSUME NEW i \in Indexers, BumpForEdges(i) PROVE TypeOK'
  <2>1. indexing[i].on \in Databases BY <1>0 DEF TypeOK
  <2>2. Bumped(now[indexing[i].on]) \in Contents
    BY <1>0, <1>3, <2>1, BumpedType DEF BumpForEdges, CanChange
  <2> QED BY <1>3, <2>1, <2>2 DEF BumpForEdges, Bump, Move, TypeOK, IndexerSteps
<1>4. ASSUME NEW i \in Indexers, CommitNodes(i) PROVE TypeOK'
  <2>1. clock + 1 \in Stamps BY <1>4, ConstantsAssumption DEF CommitNodes, TypeOK, Stamps
  <2>2. WithRows(now[indexing[i].on], clock + 1, now[indexing[i].on].edges) \in Contents
    BY <1>0, <2>1 DEF WithRows, Contents, TypeOK
  <2> QED BY <1>4, <2>1, <2>2 DEF CommitNodes, Move, TypeOK, IndexerSteps
<1>5. ASSUME NEW i \in Indexers, CommitEdges(i) PROVE TypeOK'
  <2>1. clock + 1 \in Stamps BY <1>5, ConstantsAssumption DEF CommitEdges, TypeOK, Stamps
  <2>2. WithRows(now[indexing[i].on], now[indexing[i].on].nodes, clock + 1) \in Contents
    BY <1>0, <2>1 DEF WithRows, Contents, TypeOK
  <2> QED BY <1>5, <2>1, <2>2 DEF CommitEdges, Move, TypeOK, IndexerSteps
<1>6. ASSUME NEW i \in Indexers, NextFile(i) PROVE TypeOK'
  BY <1>6 DEF NextFile, Move, TypeOK, IndexerSteps
<1>7. ASSUME NEW i \in Indexers, CloseIndexer(i) PROVE TypeOK'
  BY <1>0, <1>7 DEF CloseIndexer, TypeOK, IndexerSteps
<1>8. ASSUME GateWrite PROVE TypeOK'
  <2>1. clock + 1 \in Stamps
    BY <1>8, ConstantsAssumption DEF GateWrite, CanChange, TypeOK, Stamps
  <2>2. Bumped(now[live]) \in Contents
    BY <1>0, <1>8, BumpedType DEF GateWrite, CanChange
  <2>3. now[live].nodes \in Stamps /\ now[live].edges \in Stamps
    BY <1>0 DEF Contents
  <2>4. PICK ns \in {now[live].nodes, clock + 1}, es \in {now[live].edges, clock + 1} :
          now' = [now EXCEPT ![live] = WithRows(Bumped(now[live]), ns, es)]
    BY <1>8 DEF GateWrite
  <2>5. ns \in Stamps /\ es \in Stamps BY <2>1, <2>3
  <2>6. WithRows(Bumped(now[live]), ns, es) \in Contents BY <2>2, <2>5 DEF WithRows, Contents
  <2>7. now' \in [Databases -> Contents]
    <3>1. now \in [Databases -> Contents] /\ live \in Databases BY <1>0 DEF TypeOK
    <3> QED BY <2>4, <2>6, <3>1
  <2> QED BY <1>8, <2>1, <2>7 DEF GateWrite, TypeOK
<1>9. ASSUME NEW c \in Clients, ClientStep(c) PROVE TypeOK'
  <2>0. Idle \in [at : ReaderSteps, on : 1..used, reading : Readings]
    BY <1>0 DEF Idle, At, ReaderSteps
  <2> USE DEF EndRequest
  <2>1. CASE AskLayout(c)
    BY <2>1, <1>0 DEF AskLayout, At, TypeOK, ReaderSteps
  <2>2. CASE LayoutNodes(c)
    <3>1. WithNodes(request[c].reading, now[request[c].on].nodes) \in Readings
      BY <1>0, ConstantsAssumption DEF WithNodes, Readings, Contents, TypeOK, Stamps
    <3> QED BY <2>2, <3>1 DEF LayoutNodes, At, TypeOK, ReaderSteps
  <2>3. CASE LayoutEdges(c)
    <3>1. WithEdges(request[c].reading, now[request[c].on].edges) \in Readings
      BY <1>0 DEF WithEdges, Readings, Contents, TypeOK
    <3> QED BY <2>0, <2>3, <3>1 DEF LayoutEdges, TypeOK
  <2>4. CASE LayoutFails(c) BY <2>0, <2>4 DEF LayoutFails, TypeOK
  <2> QED BY <1>9, <2>1, <2>2, <2>3, <2>4 DEF ClientStep
<1>10. ASSUME NEW a \in Analysts, AnalystStep(a) PROVE TypeOK'
  <2>0. Idle \in [at : ReaderSteps, on : 1..used, reading : Readings]
    BY <1>0 DEF Idle, At, ReaderSteps
  <2> USE DEF EndLouvain
  <2>1. CASE AskClusters(a)
    BY <2>1, <1>0 DEF AskClusters, At, TypeOK, ReaderSteps
  <2>2. CASE GetClusters(a)
    BY <2>0, <2>2 DEF GetClusters, At, TypeOK, ReaderSteps
  <2>3. CASE LouvainNodes(a)
    <3>1. WithNodes(louvain[a].reading, now[louvain[a].on].nodes) \in Readings
      BY <1>0, ConstantsAssumption DEF WithNodes, Readings, Contents, TypeOK, Stamps
    <3> QED BY <2>0, <2>3, <3>1 DEF LouvainNodes, At, TypeOK, ReaderSteps
  <2>4. CASE LouvainEdges(a)
    <3>1. WithEdges(louvain[a].reading, now[louvain[a].on].edges) \in Readings
      BY <1>0 DEF WithEdges, Readings, Contents, TypeOK
    <3> QED BY <2>4, <3>1 DEF LouvainEdges, At, TypeOK, ReaderSteps
  <2>5. CASE StoreClusters(a)
    <3>1. WithClusters(now[louvain[a].on], louvain[a].reading) \in Contents
      BY <1>0 DEF WithClusters, Contents, TypeOK
    <3> QED BY <2>0, <2>5, <3>1 DEF StoreClusters, TypeOK
  <2>6. CASE LouvainFails(a) BY <2>0, <2>6 DEF LouvainFails, TypeOK
  <2> QED BY <1>10, <2>1, <2>2, <2>3, <2>4, <2>5, <2>6 DEF AnalystStep
<1>11. CASE Checkpoint BY <1>0, <1>11 DEF Checkpoint, TypeOK
<1>12. ASSUME NEW full \in BOOLEAN, CreateCandidate(full) PROVE TypeOK'
  <2> DEFINE content == IF full THEN EmptyContent ELSE main[live]
  <2>1. content \in Contents BY <1>0
  <2>2. /\ now' = [now EXCEPT ![used + 1] = content]
        /\ main' = [main EXCEPT ![used + 1] = content]
    BY <1>12 DEF CreateCandidate
  <2> HIDE DEF content
  <2>3. now' \in [Databases -> Contents] /\ main' \in [Databases -> Contents]
    BY <2>1, <2>2 DEF TypeOK
  <2>4. used' = used + 1 /\ used' \in Databases /\ 1..used \subseteq 1..used'
    BY <1>0, <1>12, ConstantsAssumption DEF CreateCandidate, Databases
  <2>5. /\ live' = live /\ candidate' = used' /\ indexing' = indexing /\ request' = request
        /\ page' = page /\ louvain' = louvain /\ clock' = clock
    BY <1>12, <2>4 DEF CreateCandidate
  <2> QED BY <2>3, <2>4, <2>5 DEF TypeOK, Databases
<1>13. CASE Publish BY <1>13 DEF Publish, TypeOK
<1>14. CASE UNCHANGED vars BY <1>14 DEF vars, TypeOK
<1> QED
  BY <1>1, <1>2, <1>3, <1>4, <1>5, <1>6, <1>7, <1>8, <1>9, <1>10, <1>11, <1>12, <1>13, <1>14
  DEF Next, IndexerStep

LEMMA InitType == Init => TypeOK
<1> SUFFICES ASSUME Init PROVE TypeOK
  OBVIOUS
<1>1. 1 \in Databases /\ 0 \in Stamps
  BY ConstantsAssumption DEF Databases, Stamps
<1>2. NoReading \in Readings BY <1>1 DEF NoReading, Readings
<1>3. EmptyContent \in Contents BY <1>1, <1>2, ConstantsAssumption DEF EmptyContent, Contents, Generations
<1> QED BY <1>1, <1>2, <1>3 DEF Init, TypeOK, Idle, At, ReaderSteps, IndexerSteps

-----------------------------------------------------------------------------
(***************************************************************************)
(* Readings.                                                               *)
(***************************************************************************)

\* A step changes the rows of a database only when an increment is waiting for them,
\* or with an increment.
LEMMA RowsFollowIncrements ==
  ASSUME TypeOK, [Next]_vars, NEW d \in 1..used
  PROVE  \/ /\ now'[d].generation = now[d].generation
            /\ now'[d].nodes = now[d].nodes /\ now'[d].edges = now[d].edges
            /\ Pending(d)' => Pending(d)
         \/ now'[d].generation = now[d].generation + 1
         \/ Pending(d) /\ now'[d].generation = now[d].generation
<1>0. d \in Databases /\ now[d] \in Contents /\ now \in [Databases -> Contents]
      /\ indexing \in [Indexers -> [at : IndexerSteps, on : 1..used]]
  BY Typed DEF TypeOK
<1> DEFINE Quiet == /\ now'[d].generation = now[d].generation
                    /\ now'[d].nodes = now[d].nodes /\ now'[d].edges = now[d].edges
                    /\ Pending(d)' => Pending(d)
           Advanced == now'[d].generation = now[d].generation + 1
           Filled == Pending(d) /\ now'[d].generation = now[d].generation
<1>1. ASSUME NEW i \in Indexers, OpenIndexer(i) PROVE Quiet
  BY <1>0, <1>1 DEF OpenIndexer, Pending
<1>2. ASSUME NEW i \in Indexers, BumpForNodes(i) \/ BumpForEdges(i) PROVE Quiet \/ Advanced
  <2>1. CASE d = indexing[i].on
    BY <1>0, <1>2, <2>1 DEF BumpForNodes, BumpForEdges, Bump, Bumped
  <2>2. CASE d # indexing[i].on
    BY <1>0, <1>2, <2>2 DEF BumpForNodes, BumpForEdges, Bump, Move, Pending
  <2> QED BY <2>1, <2>2
<1>3. ASSUME NEW i \in Indexers, CommitNodes(i) \/ CommitEdges(i) PROVE Quiet \/ Filled
  <2>1. CASE d = indexing[i].on
    BY <1>0, <1>3, <2>1 DEF CommitNodes, CommitEdges, WithRows, Pending
  <2>2. CASE d # indexing[i].on
    BY <1>0, <1>3, <2>2 DEF CommitNodes, CommitEdges, Move, Pending
  <2> QED BY <2>1, <2>2
<1>4. ASSUME NEW i \in Indexers, NextFile(i) \/ CloseIndexer(i) PROVE Quiet
  BY <1>0, <1>4 DEF NextFile, CloseIndexer, Move, Pending
<1>5. CASE GateWrite
  <2>1. CASE d = live
    BY <1>0, <1>5, <2>1 DEF GateWrite, WithRows, Bumped
  <2>2. CASE d # live
    BY <1>0, <1>5, <2>2 DEF GateWrite, Pending
  <2> QED BY <2>1, <2>2
<1>6. ASSUME NEW a \in Analysts, StoreClusters(a) PROVE Quiet
  BY <1>0, <1>6 DEF StoreClusters, WithClusters, Pending
<1>7. ASSUME NEW full \in BOOLEAN, CreateCandidate(full) PROVE Quiet
  <2>1. d # used + 1 BY Typed DEF Databases
  <2>2. now'[d] = now[d]
    BY <1>0, <1>7, <2>1 DEF CreateCandidate
  <2> QED BY <1>7, <2>2 DEF CreateCandidate, Pending
<1>8. ASSUME UNCHANGED <<now, indexing>> PROVE Quiet
  BY <1>8 DEF Pending
<1>9. ASSUME NEW c \in Clients, ClientStep(c) PROVE UNCHANGED <<now, indexing>>
  BY <1>9 DEF ClientStep, AskLayout, LayoutNodes, LayoutEdges, LayoutFails
<1>10. ASSUME NEW a \in Analysts, AnalystStep(a), ~StoreClusters(a)
       PROVE  UNCHANGED <<now, indexing>>
  BY <1>10 DEF AnalystStep, AskClusters, GetClusters, LouvainNodes, LouvainEdges, LouvainFails
<1>11. CASE Checkpoint \/ Publish \/ UNCHANGED vars
  BY <1>8, <1>11 DEF Checkpoint, Publish, vars
<1> QED
  BY <1>1, <1>2, <1>3, <1>4, <1>5, <1>6, <1>7, <1>8, <1>9, <1>10, <1>11 DEF Next, IndexerStep

\* So what was read at a settled generation stays true of it.
LEMMA ReadingsKept ==
  ASSUME TypeOK, [Next]_vars, NEW d \in 1..used, NEW r \in Readings, Safe(r, d)
  PROVE  /\ Safe(r, d)'
         /\ NodesSame(r, now[d]) => NodesSame(r, now[d])'
         /\ SameRows(r, now[d]) => SameRows(r, now[d])'
<1>1. now[d].generation \in Nat /\ r.tag \in Nat
  BY Typed, ConstantsAssumption DEF Contents, Readings, Generations
<1>2. Pending(d) \in BOOLEAN /\ Pending(d)' \in BOOLEAN BY DEF Pending
<1>3. CASE now'[d].generation = now[d].generation + 1
  BY <1>1, <1>3 DEF Safe, NodesSame, SameRows
<1>4. CASE Pending(d) /\ now'[d].generation = now[d].generation
  BY <1>1, <1>4 DEF Safe, NodesSame, SameRows
<1>5. CASE /\ now'[d].generation = now[d].generation
           /\ now'[d].nodes = now[d].nodes /\ now'[d].edges = now[d].edges
           /\ Pending(d)' => Pending(d)
  BY <1>1, <1>5 DEF Safe, NodesSame, SameRows
<1> QED BY <1>3, <1>4, <1>5, RowsFollowIncrements

\* What is read first at a generation is safe.
LEMMA FirstReading ==
  ASSUME TypeOK, NEW d \in Databases
  PROVE  Safe(ReadingOf(d), d)
<1>1. now[d].generation \in Nat
  BY Typed DEF Contents, Generations
<1>2. ReadingOf(d).tag = now[d].generation /\ ReadingOf(d).settled = ~Pending(d)
  BY DEF ReadingOf
<1>3. ReadingOf(d).settled => ~Pending(d) BY <1>2, Zenon
<1>4. ReadingOf(d).tag <= now[d].generation BY <1>1, <1>2
<1> QED BY <1>3, <1>4 DEF Safe

\* Nothing read is safe, and the same as anything.
LEMMA NothingRead ==
  ASSUME TypeOK, NEW d \in Databases
  PROVE  /\ Safe(NoReading, d)
         /\ SameRows(NoReading, now[d]) /\ NodesSame(NoReading, now[d])
<1>1. now[d].generation \in Nat \ {0}
  BY Typed DEF Contents, Generations
<1> QED BY <1>1 DEF Safe, NoReading, SameRows, NodesSame

\* What each kind of step leaves alone.
LEMMA IndexerFrame ==
  ASSUME NEW i \in Indexers, IndexerStep(i)
  PROVE  UNCHANGED <<main, used, live, candidate, request, page, louvain>>
BY DEF IndexerStep, OpenIndexer, BumpForNodes, CommitNodes, BumpForEdges, CommitEdges, NextFile,
   CloseIndexer

LEMMA ClientFrame ==
  ASSUME NEW c \in Clients, ClientStep(c)
  PROVE  /\ UNCHANGED <<now, main, used, live, candidate, indexing, louvain>>
         /\ \A x \in Clients \ {c} : TypeOK => UNCHANGED <<request[x], page[x]>>
<1>1. UNCHANGED <<now, main, used, live, candidate, indexing, louvain>>
  BY DEF ClientStep, AskLayout, LayoutNodes, LayoutEdges, LayoutFails
<1>2. ASSUME NEW x \in Clients \ {c}, TypeOK PROVE UNCHANGED <<request[x], page[x]>>
  BY <1>2 DEF ClientStep, AskLayout, LayoutNodes, LayoutEdges, LayoutFails, EndRequest, TypeOK
<1> QED BY <1>1, <1>2

LEMMA AnalystFrame ==
  ASSUME NEW a \in Analysts, AnalystStep(a)
  PROVE  /\ UNCHANGED <<main, used, live, candidate, indexing, request, page>>
         /\ ~StoreClusters(a) => UNCHANGED now
         /\ \A x \in Analysts \ {a} : TypeOK => UNCHANGED louvain[x]
<1>1. UNCHANGED <<main, used, live, candidate, indexing, request, page>>
  BY DEF AnalystStep, AskClusters, GetClusters, LouvainNodes, LouvainEdges, StoreClusters, LouvainFails
<1>2. ~StoreClusters(a) => UNCHANGED now
  BY DEF AnalystStep, AskClusters, GetClusters, LouvainNodes, LouvainEdges, LouvainFails
<1>3. ASSUME NEW x \in Analysts \ {a}, TypeOK PROVE UNCHANGED louvain[x]
  BY <1>3 DEF AnalystStep, AskClusters, GetClusters, LouvainNodes, LouvainEdges, StoreClusters,
     LouvainFails, EndLouvain, TypeOK
<1> QED BY <1>1, <1>2, <1>3

LEMMA OtherFrame ==
  ASSUME GateWrite \/ Checkpoint \/ Publish \/ (\E full \in BOOLEAN : CreateCandidate(full))
  PROVE  UNCHANGED <<indexing, request, page, louvain>>
BY DEF GateWrite, Checkpoint, Publish, CreateCandidate

\* A reader that goes on with a safe reading, while no database changes.
LEMMA ReadingHanded ==
  ASSUME NEW step, NEW d, NEW r, Safe(r, d), UNCHANGED <<now, indexing>>,
         step = "edges" => NodesSame(r, now[d]), step = "store" => SameRows(r, now[d])
  PROVE  /\ \A c : request'[c] = At(step, d, r) => RequestInv(c)'
         /\ \A a : louvain'[a] = At(step, d, r) => LouvainInv(a)'
         /\ \A c : page'[c] = [on |-> d, reading |-> r] /\ SameRows(r, now[d]) => PageInv(c)'
<1>1. Safe(r, d)' BY DEF Safe, Pending
<1>2. /\ At(step, d, r).at = step /\ At(step, d, r).on = d /\ At(step, d, r).reading = r
      /\ now' = now
  BY DEF At
<1>3. ASSUME NEW c, request'[c] = At(step, d, r) PROVE RequestInv(c)'
  BY <1>1, <1>2, <1>3 DEF RequestInv, NodesSame
<1>4. ASSUME NEW a, louvain'[a] = At(step, d, r) PROVE LouvainInv(a)'
  BY <1>1, <1>2, <1>4 DEF LouvainInv, NodesSame, SameRows
<1>5. ASSUME NEW c, page'[c] = [on |-> d, reading |-> r], SameRows(r, now[d]) PROVE PageInv(c)'
  BY <1>1, <1>2, <1>5 DEF PageInv, SameRows
<1> QED BY <1>3, <1>4, <1>5

LEMMA GenerationInductive == TypeOK /\ GenerationInv /\ [Next]_vars => GenerationInv'
<1> SUFFICES ASSUME TypeOK, GenerationInv, [Next]_vars PROVE GenerationInv'
  OBVIOUS
<1>0. /\ TypeOK' /\ 1..used \subseteq Databases /\ live \in 1..used /\ 1 \in 1..used
      /\ used \in Databases
  BY Typed, TypeInductive
<1>1. ASSUME NEW c \in Clients, UNCHANGED page[c] PROVE PageInv(c)'
  <2>1. page[c].on \in 1..used /\ page[c].reading \in Readings BY DEF TypeOK
  <2>2. PageInv(c) BY DEF GenerationInv
  <2>3. /\ Safe(page[c].reading, page[c].on) /\ SameRows(page[c].reading, now[page[c].on])
        /\ page'[c] = page[c]
    BY <1>1, <2>2 DEF PageInv
  <2> QED BY <2>1, <2>3, ReadingsKept DEF PageInv
<1>2. ASSUME NEW c \in Clients, UNCHANGED request[c] PROVE RequestInv(c)'
  <2>1. request[c].on \in 1..used /\ request[c].reading \in Readings BY DEF TypeOK
  <2>2. RequestInv(c) BY DEF GenerationInv
  <2> QED BY <1>2, <2>1, <2>2, ReadingsKept DEF RequestInv
<1>3. ASSUME NEW a \in Analysts, UNCHANGED louvain[a] PROVE LouvainInv(a)'
  <2>1. louvain[a].on \in 1..used /\ louvain[a].reading \in Readings BY DEF TypeOK
  <2>2. LouvainInv(a) BY DEF GenerationInv
  <2> QED BY <1>3, <2>1, <2>2, ReadingsKept DEF LouvainInv
<1>4. ASSUME NEW d \in 1..used, now'[d].clusters = now[d].clusters,
             main'[d] \in {main[d], now[d]}
      PROVE  ClustersInv(d)'
  <2>1. now[d].clusters \in Readings BY Typed DEF Contents
  <2>2. ClustersInv(d) BY DEF GenerationInv
  <2>3. Safe(now[d].clusters, d)' /\ SameRows(now[d].clusters, now[d])'
    BY <1>4, <2>1, <2>2, ReadingsKept DEF ClustersInv
  <2>4. /\ main'[d].clusters.settled => main'[d].clusters.tag <= main'[d].generation
        /\ SameRows(main'[d].clusters, main'[d])
    BY <1>4, <2>2 DEF ClustersInv, Safe
  <2> QED BY <2>3, <2>4 DEF ClustersInv
<1>5. \A c \in Clients : (PageInv(c) /\ RequestInv(c))'
  <2> SUFFICES ASSUME NEW c \in Clients PROVE PageInv(c)' /\ RequestInv(c)'
    OBVIOUS
  <2> DEFINE d == request[c].on
  <2>0. d \in 1..used /\ d \in Databases /\ request[c].reading \in Readings
    BY <1>0 DEF TypeOK
  <2>1. CASE AskLayout(c)
    <3>1. request'[c] = At("nodes", live, ReadingOf(live)) /\ page' = page
          /\ now' = now /\ indexing' = indexing
      BY <2>1 DEF AskLayout, TypeOK
    <3>2. Safe(ReadingOf(live), live) BY <1>0, FirstReading
    <3>3. RequestInv(c)'
      BY <3>1, <3>2, ReadingHanded
    <3> QED BY <1>1, <3>1, <3>3
  <2>2. CASE LayoutNodes(c)
    <3>1. request'[c] = At("edges", d, WithNodes(request[c].reading, now[d].nodes))
          /\ page' = page /\ now' = now /\ indexing' = indexing
      BY <2>2 DEF LayoutNodes, TypeOK
    <3>2. Safe(request[c].reading, d) BY DEF GenerationInv, RequestInv
    <3>3. Safe(WithNodes(request[c].reading, now[d].nodes), d)
          /\ NodesSame(WithNodes(request[c].reading, now[d].nodes), now[d])
      BY <3>2 DEF Safe, NodesSame, WithNodes
    <3>4. RequestInv(c)'
      BY <3>1, <3>3, ReadingHanded
    <3> QED BY <1>1, <3>1, <3>4
  <2>3. CASE LayoutEdges(c)
    <3>1. /\ page'[c] = [on |-> d, reading |-> WithEdges(request[c].reading, now[d].edges)]
          /\ request'[c] = Idle /\ now' = now /\ indexing' = indexing
      BY <2>3 DEF LayoutEdges, EndRequest, TypeOK
    <3>2. Safe(request[c].reading, d) /\ NodesSame(request[c].reading, now[d])
      BY <2>3 DEF GenerationInv, RequestInv, LayoutEdges
    <3>3. Safe(WithEdges(request[c].reading, now[d].edges), d)
          /\ SameRows(WithEdges(request[c].reading, now[d].edges), now[d])
      BY <3>2 DEF Safe, NodesSame, SameRows, WithEdges
    <3>4. PageInv(c)'
      BY <3>1, <3>3, ReadingHanded
    <3>5. Safe(NoReading, 1) BY <1>0, NothingRead
    <3>6. RequestInv(c)'
      BY <3>1, <3>5, ReadingHanded DEF Idle
    <3> QED BY <3>4, <3>6
  <2>4. CASE LayoutFails(c)
    <3>1. request'[c] = Idle /\ page' = page /\ now' = now /\ indexing' = indexing
      BY <2>4 DEF LayoutFails, EndRequest, TypeOK
    <3>2. Safe(NoReading, 1) BY <1>0, NothingRead
    <3>3. RequestInv(c)'
      BY <3>1, <3>2, ReadingHanded DEF Idle
    <3> QED BY <1>1, <3>1, <3>3
  <2>5. CASE ~ClientStep(c)
    <3>1. UNCHANGED <<request[c], page[c]>>
      <4>1. CASE UNCHANGED vars BY <4>1 DEF vars
      <4>2. CASE \E x \in Clients : ClientStep(x) BY <2>5, <4>2, ClientFrame
      <4> QED BY <4>1, <4>2, IndexerFrame, AnalystFrame, OtherFrame DEF Next
    <3> QED BY <1>1, <1>2, <3>1
  <2> QED BY <2>1, <2>2, <2>3, <2>4, <2>5 DEF ClientStep
<1>6. \A a \in Analysts : LouvainInv(a)'
  <2> SUFFICES ASSUME NEW a \in Analysts PROVE LouvainInv(a)'
    OBVIOUS
  <2> DEFINE d == louvain[a].on
  <2>0. d \in 1..used /\ d \in Databases /\ louvain[a].reading \in Readings
    BY <1>0 DEF TypeOK
  <2>00. LouvainInv(a) BY DEF GenerationInv
  <2>1. CASE AskClusters(a)
    <3>1. louvain'[a] = At("cache", live, ReadingOf(live)) /\ now' = now /\ indexing' = indexing
      BY <2>1 DEF AskClusters, TypeOK
    <3>2. Safe(ReadingOf(live), live) BY <1>0, FirstReading
    <3> QED BY <3>1, <3>2, ReadingHanded
  <2>2. ASSUME louvain'[a] = Idle PROVE LouvainInv(a)'
    <3>1. Safe(NoReading, 1) BY <1>0, NothingRead
    <3>2. Safe(NoReading, 1)' BY <1>0, <3>1, ReadingsKept, Typed
    <3> QED BY <2>2, <3>2 DEF LouvainInv, Idle, At
  <2>3. CASE GetClusters(a)
    <3>1. CASE louvain'[a] = At("nodes", d, louvain[a].reading)
      <4>1. now' = now /\ indexing' = indexing BY <2>3 DEF GetClusters
      <4> QED BY <2>00, <3>1, <4>1, ReadingHanded DEF LouvainInv
    <3> QED BY <2>2, <2>3, <3>1 DEF GetClusters, EndLouvain, TypeOK
  <2>4. CASE LouvainNodes(a)
    <3>1. CASE louvain'[a] = At("edges", d, WithNodes(louvain[a].reading, now[d].nodes))
      <4>1. now' = now /\ indexing' = indexing BY <2>4 DEF LouvainNodes
      <4>2. Safe(WithNodes(louvain[a].reading, now[d].nodes), d)
            /\ NodesSame(WithNodes(louvain[a].reading, now[d].nodes), now[d])
        BY <2>00 DEF LouvainInv, Safe, NodesSame, WithNodes
      <4> QED BY <3>1, <4>1, <4>2, ReadingHanded
    <3> QED BY <2>2, <2>4, <3>1 DEF LouvainNodes, EndLouvain, TypeOK
  <2>5. CASE LouvainEdges(a)
    <3>1. louvain'[a] = At("store", d, WithEdges(louvain[a].reading, now[d].edges))
          /\ now' = now /\ indexing' = indexing
      BY <2>5 DEF LouvainEdges, TypeOK
    <3>2. Safe(WithEdges(louvain[a].reading, now[d].edges), d)
          /\ SameRows(WithEdges(louvain[a].reading, now[d].edges), now[d])
      BY <2>00, <2>5 DEF LouvainInv, LouvainEdges, Safe, NodesSame, SameRows, WithEdges
    <3> QED BY <3>1, <3>2, ReadingHanded
  <2>6. CASE StoreClusters(a) \/ LouvainFails(a)
    BY <2>2, <2>6 DEF StoreClusters, LouvainFails, EndLouvain, TypeOK
  <2>7. CASE ~AnalystStep(a)
    <3>1. UNCHANGED louvain[a]
      <4>1. CASE UNCHANGED vars BY <4>1 DEF vars
      <4>2. CASE \E x \in Analysts : AnalystStep(x) BY <2>7, <4>2, AnalystFrame
      <4> QED BY <4>1, <4>2, IndexerFrame, ClientFrame, OtherFrame DEF Next
    <3> QED BY <1>3, <3>1
  <2> QED BY <2>1, <2>3, <2>4, <2>5, <2>6, <2>7 DEF AnalystStep
<1>7. \A d \in 1..used' : ClustersInv(d)'
  <2> SUFFICES ASSUME NEW d \in 1..used' PROVE ClustersInv(d)'
    OBVIOUS
  <2>1. CASE \E a \in Analysts : StoreClusters(a) /\ louvain[a].on = d
    <3>1. PICK a \in Analysts : StoreClusters(a) /\ louvain[a].on = d BY <2>1
    <3> DEFINE r == louvain[a].reading
    <3>2. /\ d \in 1..used /\ d \in Databases /\ now[d] \in Contents
          /\ r \in Readings
      BY <1>0, <3>1, Typed DEF StoreClusters, TypeOK
    <3>3. /\ now'[d] = WithClusters(now[d], r) /\ main' = main /\ indexing' = indexing
      BY <3>1, <3>2 DEF StoreClusters, TypeOK
    <3>4. Safe(r, d) /\ SameRows(r, now[d])
      BY <3>1 DEF GenerationInv, LouvainInv, StoreClusters
    <3>5. ClustersInv(d) BY <3>2 DEF GenerationInv
    <3> QED BY <3>3, <3>4, <3>5 DEF ClustersInv, WithClusters, Safe, SameRows, Pending
  <2>2. CASE \E full \in BOOLEAN : CreateCandidate(full) /\ d = used + 1
    <3>1. PICK full \in BOOLEAN : CreateCandidate(full) /\ d = used + 1 BY <2>2
    <3> DEFINE content == IF full THEN EmptyContent ELSE main[live]
    <3>2. d \in Databases BY <1>0, <3>1, ConstantsAssumption DEF CreateCandidate, Databases
    <3>3. now' = [now EXCEPT ![d] = content] /\ main' = [main EXCEPT ![d] = content]
          /\ indexing' = indexing
      BY <3>1 DEF CreateCandidate
    <3>4. content.clusters.settled => content.clusters.tag <= content.generation
      BY <1>0 DEF GenerationInv, ClustersInv, EmptyContent, NoReading
    <3>5. SameRows(content.clusters, content)
      BY <1>0 DEF GenerationInv, ClustersInv, EmptyContent, NoReading, SameRows
    <3> HIDE DEF content
    <3>6. now'[d] = content /\ main'[d] = content
      BY <3>2, <3>3 DEF TypeOK
    <3>7. \A i \in Indexers : indexing[i].on # d
      BY <3>1, <1>0 DEF TypeOK, Databases
    <3>8. ~Pending(d)' BY <3>3, <3>7 DEF Pending
    <3> QED BY <3>4, <3>5, <3>6, <3>8 DEF ClustersInv, Safe, SameRows
  <2>3. CASE /\ ~\E a \in Analysts : StoreClusters(a) /\ louvain[a].on = d
             /\ ~\E full \in BOOLEAN : CreateCandidate(full) /\ d = used + 1
    <3>1. d \in 1..used
      <4>1. CASE \E full \in BOOLEAN : CreateCandidate(full)
        <5>1. used' = used + 1 /\ d # used + 1 BY <2>3, <4>1 DEF CreateCandidate
        <5> QED BY <1>0, <5>1 DEF Databases
      <4>2. CASE ~\E full \in BOOLEAN : CreateCandidate(full)
        <5>1. used' = used
          BY <4>2, IndexerFrame, ClientFrame, AnalystFrame DEF Next, vars, GateWrite, Checkpoint, Publish
        <5> QED BY <5>1
      <4> QED BY <4>1, <4>2
    <3>2. d \in Databases /\ now \in [Databases -> Contents] /\ main \in [Databases -> Contents]
      BY <1>0, <3>1 DEF TypeOK
    <3>3. now'[d].clusters = now[d].clusters
      <4>1. CASE \E a \in Analysts : StoreClusters(a)
        BY <2>3, <3>2, <4>1 DEF StoreClusters
      <4>2. CASE \E full \in BOOLEAN : CreateCandidate(full)
        BY <2>3, <3>2, <4>2 DEF CreateCandidate
      <4>3. CASE \E i \in Indexers : IndexerStep(i)
        BY <3>2, <4>3 DEF IndexerStep, OpenIndexer, BumpForNodes, CommitNodes, BumpForEdges,
           CommitEdges, NextFile, CloseIndexer, Bump, Bumped, WithRows
      <4>4. CASE GateWrite BY <3>2, <4>4 DEF GateWrite, Bumped, WithRows
      <4> QED
        BY <4>1, <4>2, <4>3, <4>4, ClientFrame, AnalystFrame DEF Next, vars, Checkpoint, Publish
    <3>4. main'[d] \in {main[d], now[d]}
      <4>1. CASE \E full \in BOOLEAN : CreateCandidate(full)
        BY <2>3, <3>2, <4>1 DEF CreateCandidate
      <4>2. CASE Checkpoint BY <3>2, <4>2 DEF Checkpoint
      <4> QED
        BY <4>1, <4>2, IndexerFrame, ClientFrame, AnalystFrame DEF Next, vars, GateWrite, Publish
    <3> QED BY <1>4, <3>1, <3>3, <3>4
  <2> QED BY <2>1, <2>2, <2>3
<1> QED BY <1>5, <1>6, <1>7 DEF GenerationInv

-----------------------------------------------------------------------------
(***************************************************************************)
(* The theorems.                                                           *)
(***************************************************************************)

LEMMA GenerationInvariance == Spec => [](TypeOK /\ GenerationInv)
<1>1. Init => TypeOK /\ GenerationInv
  <2> SUFFICES ASSUME Init PROVE GenerationInv
    BY InitType
  <2>1. \A d \in Databases : now[d] = EmptyContent /\ main[d] = EmptyContent BY DEF Init
  <2>2. 1 \in Databases /\ 1..used \subseteq Databases
    BY ConstantsAssumption DEF Databases, Init
  <2>3. \A d \in Databases : Safe(NoReading, d) /\ SameRows(NoReading, EmptyContent)
    BY <2>1 DEF Safe, SameRows, NoReading, EmptyContent
  <2>4. \A c \in Clients : PageInv(c) BY <2>1, <2>2, <2>3 DEF Init, PageInv
  <2>5. \A c \in Clients : RequestInv(c)
    BY <2>2, <2>3 DEF Init, RequestInv, Idle, At
  <2>6. \A a \in Analysts : LouvainInv(a)
    BY <2>2, <2>3 DEF Init, LouvainInv, Idle, At
  <2>7. ASSUME NEW d \in 1..used PROVE ClustersInv(d)
    <3>1. now[d] = EmptyContent /\ main[d] = EmptyContent /\ d \in Databases
      BY <2>1, <2>2
    <3>2. EmptyContent.clusters = NoReading /\ NoReading.tag = 0 /\ EmptyContent.generation = 1
      BY DEF EmptyContent, NoReading
    <3> QED BY <2>3, <3>1, <3>2 DEF ClustersInv
  <2> QED BY <2>4, <2>5, <2>6, <2>7 DEF GenerationInv
<1> QED BY <1>1, TypeInductive, GenerationInductive, PTL DEF Spec

\* storage/sqlite.py:97-118: the rows, the counters and the connections keep their types.
THEOREM TypeCorrect == Spec => []TypeOK
BY GenerationInvariance, PTL

\* viz/server.py:150-157: a page kept by a 304 is current, unless its tag was taken
\* while an increment of the indexer waited for its rows.
THEOREM PagesAlwaysCurrent == Spec => []PagesCurrent
<1>1. GenerationInv => PagesCurrent BY DEF GenerationInv, PageInv, PagesCurrent
<1> QED BY <1>1, GenerationInvariance, PTL

\* community.py:80-89: so are the clusters kept for the current generation.
THEOREM ClustersAlwaysCurrent == Spec => []ClustersCurrent
<1>1. GenerationInv => ClustersCurrent BY DEF GenerationInv, ClustersInv, ClustersCurrent
<1> QED BY <1>1, GenerationInvariance, PTL

-----------------------------------------------------------------------------
(***************************************************************************)
(* Retrieval: types.                                                       *)
(***************************************************************************)

\* A ranking is a sequence without repetition of what it ranks.
LEMMA RankingType ==
  ASSUME NEW S, NEW n \in Nat, NEW s \in Rankings(S, n)
  PROVE  /\ Len(s) \in 0..n /\ DOMAIN s = 1..Len(s) /\ s \in Seq(S)
         /\ SetOf(s) \subseteq S
         /\ \A i, j \in DOMAIN s : s[i] = s[j] => i = j
<1>1. PICK k \in 0..n : s \in [1..k -> S] BY DEF Rankings
<1>2. s \in Seq(S) /\ Len(s) = k BY <1>1
<1> QED BY <1>1, <1>2 DEF Rankings, SetOf

\* And a ranking of more.
LEMMA RankingOfMore ==
  ASSUME NEW S, NEW T, S \subseteq T, NEW n \in Nat, NEW m \in Nat, n <= m, NEW s \in Rankings(S, n)
  PROVE  s \in Rankings(T, m)
<1>1. PICK k \in 0..n : s \in [1..k -> S] BY DEF Rankings
<1>2. s \in [1..k -> T] /\ k \in 0..m BY <1>1
<1> QED BY <1>2 DEF Rankings

LEMMA NoRanking == ASSUME NEW S, NEW n \in Nat PROVE <<>> \in Rankings(S, n)
<1>1. <<>> \in [1..0 -> S] OBVIOUS
<1> QED BY <1>1 DEF Rankings

\* There are only so many ids, and only so many of them are ranked.
LEMMA FiniteIds ==
  /\ IsFiniteSet(Ids) /\ Cardinality(Ids) \in Nat
  /\ \A S \in SUBSET Ids : IsFiniteSet(S) /\ Cardinality(S) \in 0..Cardinality(Ids)
<1>1. IsFiniteSet(Ids) /\ Cardinality(Ids) \in Nat BY TraverseConstants, FS_CardinalityType
<1>2. ASSUME NEW S \in SUBSET Ids PROVE IsFiniteSet(S) /\ Cardinality(S) \in 0..Cardinality(Ids)
  <2>1. IsFiniteSet(S) /\ Cardinality(S) <= Cardinality(Ids) BY <1>1, FS_Subset
  <2>2. Cardinality(S) \in Nat BY <2>1, FS_CardinalityType
  <2> QED BY <1>1, <2>1, <2>2
<1> QED BY <1>1, <1>2

\* What is asked for is made of ids.
LEMMA AskedIds ==
  ASSUME TraverseTypeOK
  PROVE  /\ DOMAIN asked.ids = 1..Len(asked.ids) /\ Len(asked.ids) \in Nat
         /\ \A i \in 1..Len(asked.ids) : asked.ids[i] \in Ids
         /\ SetOf(asked.ids) \subseteq Ids
         /\ asked.hops \in Nat /\ asked.cap \in Int /\ asked.work \in Int /\ asked.types \subseteq Sems
<1>1. asked.ids \in Seq(Ids) BY DEF TraverseTypeOK, Expansions
<1>2. \A i \in 1..Len(asked.ids) : asked.ids[i] \in Ids BY <1>1
<1> QED BY <1>1, <1>2 DEF TraverseTypeOK, Expansions, SetOf

LEMMA NoExpansionType == NoExpansion \in Expansions
BY DEF NoExpansion, Expansions, Directions

LEMMA LimitType == ASSUME TraverseTypeOK PROVE Limit \in Nat /\ AtLeastZero(asked.cap) \in Nat
BY AskedIds DEF Limit, AtLeastZero

\* The rows that a row adds.
LEMMA ProducedRows ==
  ASSUME TraverseTypeOK, NEW row \in Rows
  PROVE  Produced(row) \subseteq Rows
BY AskedIds DEF Produced, Rows, NeighboursOf

\* What the answer is made of.
LEMMA EntriesTyped ==
  ASSUME TraverseTypeOK
  PROVE  /\ Entries \subseteq EntriesType /\ Shown \subseteq Entries
         /\ \A S \in SUBSET EntriesType : Named(S) \subseteq Ids
         /\ Answered \in [entries : SUBSET EntriesType, edges : SUBSET EdgeIds]
<1>1. seeds \subseteq 1..Len(asked.ids) /\ nodes \subseteq Ids /\ edges \subseteq EdgeIds BY DEF TraverseTypeOK
<1>2. Entries \subseteq EntriesType
  <2>1. \A i \in seeds : <<i, asked.ids[i]>> \in EntriesType BY <1>1, AskedIds DEF EntriesType
  <2>2. \A n \in OtherNodes : <<0, n>> \in EntriesType BY <1>1 DEF EntriesType, OtherNodes
  <2> QED BY <2>1, <2>2 DEF Entries
<1>3. Shown \subseteq Entries BY DEF Shown, FirstOf
<1>4. \A S \in SUBSET EntriesType : Named(S) \subseteq Ids BY DEF Named, EntriesType
<1>5. Among(edges, Named(Shown)) \subseteq EdgeIds BY <1>1 DEF Among
<1> QED BY <1>2, <1>3, <1>4, <1>5 DEF Answered

LEMMA ForgetType ==
  ASSUME NEW expansion \in Expansions, Forget(expansion), TraverseTypeOK, UNCHANGED database
  PROVE  TraverseTypeOK'
<1>1. Len(expansion.ids) \in Nat BY DEF Expansions
<1> QED BY <1>1 DEF Forget, TraverseTypeOK, database, NoAnswer

\* What other processes write.
LEMMA WriteType ==
  ASSUME TraverseTypeOK, Write, UNCHANGED <<at, expansionVars>>
  PROVE  TraverseTypeOK'
<1>1. status \in [Ids -> Statuses] /\ links \subseteq EdgeIds /\ writes \in 0..MaxWrites /\ MaxWrites \in Nat
  BY TraverseConstants DEF TraverseTypeOK
<1>2. writes' \in 0..MaxWrites BY <1>1 DEF Write
<1>3. status' \in [Ids -> Statuses] /\ links' \subseteq EdgeIds
  <2>1. ASSUME NEW w \in Ids, NEW l \in Ids, Merge(w, l)
        PROVE  status' \in [Ids -> Statuses] /\ links' \subseteq EdgeIds
    <3>1. status' \in [Ids -> Statuses] BY <1>1, <2>1 DEF Merge, Statuses
    <3>2. \A e \in links : Repointed(e, w, l) \in EdgeIds BY <1>1 DEF Repointed, EdgeIds
    <3>3. links' \subseteq links \union {Repointed(e, w, l) : e \in links} BY <2>1 DEF Merge
    <3> QED BY <1>1, <3>1, <3>2, <3>3
  <2>2. ASSUME NEW batch \in Batches, Save(batch)
        PROVE  status' \in [Ids -> Statuses] /\ links' \subseteq EdgeIds
    <3>1. batch.edges \subseteq EdgeIds BY TraverseConstants
    <3>2. status' \in [Ids -> Statuses] BY <1>1, <2>2 DEF Save, Statuses
    <3> QED BY <1>1, <2>2, <3>1, <3>2 DEF Save
  <2> QED BY <2>1, <2>2 DEF Write
<1>4. asked' = asked /\ next' = next /\ seeds' = seeds /\ view' = view /\ queue' = queue /\ table' = table
      /\ todo' = todo /\ nodes' = nodes /\ edges' = edges /\ answer' = answer
  BY DEF expansionVars
<1> QED BY <1>2, <1>3, <1>4 DEF TraverseTypeOK

\* The statements of an expansion.
LEMMA ExpandType ==
  ASSUME TraverseTypeOK, TraverseStep
  PROVE  TraverseTypeOK' /\ at \in TraverseSteps /\ at' \in TraverseSteps \union {"expanded"}
<1> USE DEF TraverseSteps
<1>1. status' = status /\ links' = links /\ writes' = writes BY DEF TraverseStep, database
<1>2. CASE ReadSeed
  <2>1. next + 1 \in 1..Len(asked.ids) + 1 /\ next \in 1..Len(asked.ids) BY <1>2, AskedIds DEF ReadSeed, TraverseTypeOK
  <2> QED BY <1>1, <1>2, <2>1 DEF ReadSeed, TraverseTypeOK
<1>3. CASE StartQuery
  <2>1. {<<n, 0>> : n \in SetOf(asked.ids)} \subseteq Rows BY AskedIds DEF Rows
  <2> QED BY <1>1, <1>3, <2>1 DEF StartQuery, TraverseTypeOK
<1>4. CASE SkipQuery
  BY <1>1, <1>4 DEF SkipQuery, TraverseTypeOK
<1>5. CASE FetchRows
  <2>1. Reached \subseteq Ids BY DEF Reached
  <2> QED BY <1>1, <1>5, <2>1 DEF FetchRows, TraverseTypeOK
<1>6. CASE ReadEdges
  BY <1>1, <1>6 DEF ReadEdges, TraverseTypeOK
<1>7. CASE Rank
  BY <1>1, <1>7, EntriesTyped DEF Rank, TraverseTypeOK
<1>8. ASSUME NEW row \in queue, TakeRow(row)
      PROVE  TraverseTypeOK' /\ at \in TraverseSteps /\ at' \in TraverseSteps \union {"expanded"}
  <2>1. row \in Rows BY DEF TraverseTypeOK
  <2>2. Produced(row) \subseteq Rows BY <2>1, ProducedRows
  <2> QED BY <1>1, <1>8, <2>1, <2>2 DEF TakeRow, TraverseTypeOK
<1>9. ASSUME NEW n \in todo, ReadNode(n)
      PROVE  TraverseTypeOK' /\ at \in TraverseSteps /\ at' \in TraverseSteps \union {"expanded"}
  BY <1>1, <1>9 DEF ReadNode, TraverseTypeOK
<1> QED BY <1>2, <1>3, <1>4, <1>5, <1>6, <1>7, <1>8, <1>9 DEF TraverseStep

\* A list of seeds.
LEMMA SeedListType ==
  ASSUME NEW text \in Rankings(Ids, MaxHits), NEW vectors \in Rankings(Ids, MaxHits),
         NEW list \in SeedLists(text, vectors)
  PROVE  list \in Seq(Ids)
<1> DEFINE first == FirstFew(text, SeedWindow)
           found == SetOf(first) \union SetOf(FirstFew(vectors, SeedWindow))
<1>1. ASSUME NEW s \in Rankings(Ids, MaxHits) PROVE SetOf(FirstFew(s, SeedWindow)) \subseteq Ids
  <2>1. s \in Seq(Ids) /\ MaxHits \in Nat /\ SeedWindow \in Nat BY RetrievalConstants, RankingType
  <2> QED BY <2>1 DEF FirstFew, SetOf
<1>2. found \subseteq Ids BY <1>1
<1>3. Cardinality(found) \in Nat BY <1>2, FiniteIds
<1>4. list \in Rankings(found, Cardinality(found)) BY DEF SeedLists
<1>5. list \in Seq(found) BY <1>3, <1>4, RankingType
<1> QED BY <1>2, <1>5

\* Asking for something begins with nothing found.
LEMMA BeginType ==
  ASSUME RetrievalTypeOK, NEW command \in Kinds, NEW policy \in Policies,
         NEW tokens \in Int, NEW expansion \in Expansions, Forget(expansion), Begin(command, policy, tokens),
         at' \in Places
  PROVE  RetrievalTypeOK'
<1>1. TraverseTypeOK' BY ForgetType DEF RetrievalTypeOK, Begin
<1>2. <<>> \in Rankings(Ids, MaxHits) /\ <<>> \in Rankings(Ids, Cardinality(Ids))
  BY NoRanking, FiniteIds, RetrievalConstants
<1>3. [n \in {} |-> 0] \in [{} -> Scores] /\ DOMAIN [n \in {} |-> 0] = {} OBVIOUS
<1>4. score' \in [DOMAIN score' -> Scores] /\ DOMAIN score' \subseteq Ids
  BY <1>3 DEF Begin, NothingPacked
<1>5. packed' \in Seq(Ids) /\ spent' \in Nat /\ rest' \in SUBSET Ids
  BY DEF Begin, NothingPacked
<1> QED BY <1>1, <1>2, <1>4, <1>5 DEF RetrievalTypeOK, Begin, NothingFound

LEMMA AskType == ASSUME RetrievalTypeOK, Ask PROVE RetrievalTypeOK'
<1> USE RetrievalConstants
<1>1. NoQuery \in Policies BY DEF NoQuery, Policies
<1>2. "seeds" \in Places /\ "text" \in Places BY DEF Places, TraverseSteps
<1>3. CASE AskExpand
  BY <1>1, <1>2, <1>3, BeginType DEF AskExpand, BeginExpand, Kinds
<1>4. CASE AskPack
  BY <1>1, <1>2, <1>4, BeginType DEF AskPack, BeginExpand, Kinds
<1>5. CASE AskQuery
  BY <1>1, <1>2, <1>5, NoExpansionType, BeginType DEF AskQuery, Kinds
<1> QED BY <1>3, <1>4, <1>5 DEF Ask

\* What the type of the expansion rests on.
LEMMA ExpansionKept ==
  ASSUME TraverseTypeOK, UNCHANGED <<database, expansionVars>>
  PROVE  TraverseTypeOK'
BY DEF TraverseTypeOK, database, expansionVars

\* The two searches, and the rankings made of them.
LEMMA SearchType ==
  ASSUME RetrievalTypeOK, SearchText \/ SearchVectors \/ Fuse \/ LimitNext
  PROVE  RetrievalTypeOK'
<1> USE RetrievalConstants, FiniteIds
<1>1. \A s \in Rankings(Active, MaxHits) : s \in Rankings(Ids, MaxHits)
  BY RankingOfMore DEF Active
<1>2. CASE SearchText
  <2>1. TraverseTypeOK' BY <1>2, ExpansionKept DEF RetrievalTypeOK, SearchText
  <2>2. lexical' \in Rankings(Ids, MaxHits) BY <1>1, <1>2 DEF SearchText
  <2> QED BY <1>2, <2>1, <2>2 DEF RetrievalTypeOK, SearchText, packVars, Places
<1>3. CASE SearchVectors
  <2>1. semantic' \in Rankings(Ids, MaxHits) BY <1>1, <1>3 DEF SearchVectors
  <2>2. TraverseTypeOK' /\ at' \in Places
    <3>1. PICK list \in SeedLists(lexical, semantic') :
            IF query.hops > 0 /\ list # <<>>
            THEN BeginExpand([ids |-> list, hops |-> query.hops, direction |-> "both",
                              types |-> {}, cap |-> query.cap, work |-> TraverseBudget])
            ELSE at' = "expanded" /\ UNCHANGED expansionVars
      BY <1>3 DEF SearchVectors
    <3>2. UNCHANGED database BY <1>3 DEF SearchVectors
    <3>3. CASE query.hops > 0 /\ list # <<>>
      <4>1. list \in Seq(Ids) BY <2>1, SeedListType DEF RetrievalTypeOK
      <4>2. [ids |-> list, hops |-> query.hops, direction |-> "both",
             types |-> {}, cap |-> query.cap, work |-> TraverseBudget] \in Expansions
        BY <4>1 DEF RetrievalTypeOK, Policies, Expansions, Directions
      <4> QED BY <3>1, <3>2, <3>3, <4>2, ForgetType DEF BeginExpand, Places, TraverseSteps, RetrievalTypeOK
    <3>4. CASE ~(query.hops > 0 /\ list # <<>>)
      BY <3>1, <3>2, <3>4, ExpansionKept DEF RetrievalTypeOK, Places
    <3> QED BY <3>3, <3>4
  <2> QED BY <1>3, <2>1, <2>2 DEF RetrievalTypeOK, SearchVectors, packVars
<1>4. CASE Fuse
  <2>1. TraverseTypeOK' BY <1>4, ExpansionKept DEF RetrievalTypeOK, Fuse
  <2>2. ranked' \in Rankings(Ids, Cardinality(Ids))
    <3> DEFINE found == SetOf(lexical) \union SetOf(semantic) \union Named(answer.entries)
               length == IF query.cap < Cardinality(found) THEN query.cap ELSE Cardinality(found)
    <3>1. found \subseteq Ids
      <4>1. MaxHits \in Nat /\ lexical \in Rankings(Ids, MaxHits) /\ semantic \in Rankings(Ids, MaxHits)
        BY DEF RetrievalTypeOK
      <4>2. SetOf(lexical) \subseteq Ids /\ SetOf(semantic) \subseteq Ids BY <4>1, RankingType
      <4>3. TraverseTypeOK BY DEF RetrievalTypeOK
      <4>4. answer.entries \in SUBSET EntriesType BY <4>3 DEF TraverseTypeOK
      <4>5. Named(answer.entries) \subseteq Ids BY <4>3, <4>4, EntriesTyped
      <4> QED BY <4>2, <4>5
    <3>2. query.cap \in Nat BY DEF RetrievalTypeOK, Policies
    <3>3. ranked' \in Rankings(found, length) BY <1>4 DEF Fuse
    <3> HIDE DEF found
    <3>4. found \in SUBSET Ids BY <3>1
    <3>5. Cardinality(Ids) \in Nat /\ Cardinality(found) \in 0..Cardinality(Ids) BY <3>4, FiniteIds
    <3>6. length \in Nat /\ length <= Cardinality(Ids) BY <3>2, <3>5
    <3> HIDE DEF length
    <3> QED BY <3>1, <3>3, <3>5, <3>6, RankingOfMore
  <2>3. <<>> \in Rankings(Ids, MaxHits) BY NoRanking
  <2>4. kept' = {} /\ limited' = 1 BY <1>4 DEF Fuse
  <2>5. Len(ranked') \in Nat
    <3>1. Cardinality(Ids) \in Nat BY FiniteIds
    <3>2. Len(ranked') \in 0..Cardinality(Ids) BY <2>2, <3>1, RankingType
    <3> QED BY <3>1, <3>2
  <2> QED BY <1>4, <2>1, <2>2, <2>3, <2>4, <2>5 DEF RetrievalTypeOK, Fuse, packVars, Places
<1>5. CASE LimitNext
  <2>1. TraverseTypeOK' BY <1>5, ExpansionKept DEF RetrievalTypeOK, LimitNext
  <2>2. DOMAIN ranked = 1..Len(ranked) /\ Len(ranked) \in Nat BY RankingType DEF RetrievalTypeOK
  <2>3. kept' \subseteq DOMAIN ranked /\ limited' \in 1..Len(ranked) + 1
    <3>1. limited \in 1..Len(ranked) + 1 /\ kept \subseteq 1..Len(ranked) BY <2>2 DEF RetrievalTypeOK
    <3>2. limited \in 1..Len(ranked) /\ limited' = limited + 1 /\ kept' \subseteq kept \union {limited}
      BY <1>5, <2>2, <3>1 DEF LimitNext
    <3> QED BY <2>2, <3>1, <3>2
  <2> QED BY <1>5, <2>1, <2>3 DEF RetrievalTypeOK, LimitNext, packVars
<1> QED BY <1>2, <1>3, <1>4, <1>5

\* The budget and the pack.
LEMMA PackType ==
  ASSUME RetrievalTypeOK,
         ChooseBudget \/ CountNodes \/ CountEdges \/ StartPack \/ EndCommand \/ \E n \in rest : PackBlock(n)
  PROVE  RetrievalTypeOK'
<1> USE RetrievalConstants, FiniteIds
<1>1. CASE ChooseBudget
  <2>1. TraverseTypeOK' BY <1>1, ExpansionKept DEF RetrievalTypeOK, ChooseBudget
  <2> QED BY <1>1, <2>1 DEF RetrievalTypeOK, ChooseBudget, Policies, searchVars, Places
<1>2. CASE CountNodes
  <2>1. TraverseTypeOK' BY <1>2, ExpansionKept DEF RetrievalTypeOK, CountNodes
  <2>2. counted' \in Nat BY <1>2 DEF CountNodes, Active
  <2> QED BY <1>2, <2>1, <2>2 DEF RetrievalTypeOK, CountNodes, packVars, Places
<1>3. CASE CountEdges
  <2>1. TraverseTypeOK' BY <1>3, ExpansionKept DEF RetrievalTypeOK, CountEdges
  <2>2. \A n, e : Adapted(n, e) \in Int BY DEF Adapted
  <2> QED BY <1>3, <2>1, <2>2 DEF RetrievalTypeOK, CountEdges, searchVars, Places
<1>4. CASE StartPack
  <2>1. TraverseTypeOK' BY <1>4, ExpansionKept DEF RetrievalTypeOK, StartPack
  <2>2. Named(answer.entries) \subseteq Ids BY EntriesTyped DEF RetrievalTypeOK, TraverseTypeOK
  <2>3. score' \in [DOMAIN score' -> Scores] /\ DOMAIN score' \subseteq Ids BY <1>4, <2>2 DEF StartPack
  <2>4. packed' \in Seq(Ids) /\ spent' \in Nat /\ rest' \subseteq Ids BY <1>4, <2>2 DEF StartPack
  <2> QED BY <1>4, <2>1, <2>3, <2>4 DEF RetrievalTypeOK, StartPack, searchVars, Places
<1>5. CASE EndCommand
  <2>1. TraverseTypeOK' BY <1>5, ExpansionKept DEF RetrievalTypeOK, EndCommand
  <2> QED BY <1>5, <2>1 DEF RetrievalTypeOK, EndCommand, searchVars, packVars, Places
<1>6. ASSUME NEW n \in rest, PackBlock(n) PROVE RetrievalTypeOK'
  <2>1. TraverseTypeOK' BY <1>6, ExpansionKept DEF RetrievalTypeOK, PackBlock
  <2>2. n \in Ids /\ Tokens[n] \in Nat BY DEF RetrievalTypeOK
  <2>3. packed' \in Seq(Ids) /\ spent' \in Nat /\ rest' \subseteq Ids
    <3>1. packed \in Seq(Ids) /\ spent \in Nat /\ rest \subseteq Ids BY DEF RetrievalTypeOK
    <3>2. packed' \in {packed, Append(packed, n)} /\ spent' \in {spent, spent + Tokens[n]} /\ rest' \subseteq rest
      BY <1>6 DEF PackBlock
    <3>3. Append(packed, n) \in Seq(Ids) BY <2>2, <3>1
    <3>4. packed' \in Seq(Ids) BY <3>1, <3>2, <3>3
    <3>5. spent' \in Nat BY <2>2, <3>1, <3>2
    <3> QED BY <3>1, <3>2, <3>4, <3>5
  <2> QED BY <1>6, <2>1, <2>3 DEF RetrievalTypeOK, PackBlock, searchVars
<1> QED BY <1>1, <1>2, <1>3, <1>4, <1>5, <1>6

LEMMA RetrievalTypeStep ==
  ASSUME RetrievalTypeOK, [RetrievalNext]_retrievalVars
  PROVE  RetrievalTypeOK'
<1>1. CASE Ask BY <1>1, AskType
<1>2. CASE ExpandStep
  <2>1. TraverseTypeOK' /\ at' \in Places
    BY <1>2, ExpandType DEF ExpandStep, RetrievalTypeOK, Places
  <2> QED BY <1>2, <2>1 DEF ExpandStep, RetrievalTypeOK, searchVars, packVars
<1>3. CASE SearchText \/ SearchVectors \/ Fuse \/ LimitNext BY <1>3, SearchType
<1>4. CASE ChooseBudget \/ CountNodes \/ CountEdges \/ StartPack \/ EndCommand \/ \E n \in rest : PackBlock(n)
  BY <1>4, PackType
<1>5. CASE OtherWrites
  <2>1. TraverseTypeOK' BY <1>5, WriteType DEF OtherWrites, RetrievalTypeOK
  <2> QED BY <1>5, <2>1 DEF OtherWrites, RetrievalTypeOK, searchVars, packVars
<1>6. CASE UNCHANGED retrievalVars
  <2>1. TraverseTypeOK'
    BY <1>6, ExpansionKept DEF RetrievalTypeOK, retrievalVars, traverseVars, database, expansionVars
  <2> QED BY <1>6, <2>1 DEF RetrievalTypeOK, retrievalVars, traverseVars, searchVars, packVars
<1> QED BY <1>1, <1>2, <1>3, <1>4, <1>5, <1>6 DEF RetrievalNext, RunStep

LEMMA RetrievalTypeInit == ASSUME RetrievalInit PROVE RetrievalTypeOK
<1> USE RetrievalConstants, TraverseConstants, FiniteIds
<1>1. TraverseTypeOK
  BY NoExpansionType DEF RetrievalInit, TraverseInit, TraverseTypeOK, Graphs, NoExpansion, NoAnswer
<1>2. <<>> \in Rankings(Ids, MaxHits) /\ <<>> \in Rankings(Ids, Cardinality(Ids)) BY NoRanking
<1>3. score \in [DOMAIN score -> Scores] /\ DOMAIN score \subseteq Ids
  <2>1. [n \in {} |-> 0] \in [{} -> Scores] /\ DOMAIN [n \in {} |-> 0] = {} OBVIOUS
  <2> QED BY <2>1 DEF RetrievalInit
<1> QED BY <1>1, <1>2, <1>3 DEF RetrievalInit, RetrievalTypeOK, TraverseInit, Places, Kinds, Policies, NoQuery

\* Types are kept: whatever the graphs, the questions and the bounds are.
THEOREM RetrievalTypeCorrect == RetrievalSpec => []RetrievalTypeOK
<1>1. RetrievalInit => RetrievalTypeOK BY RetrievalTypeInit
<1>2. RetrievalTypeOK /\ [RetrievalNext]_retrievalVars => RetrievalTypeOK' BY RetrievalTypeStep
<1> QED BY <1>1, <1>2, PTL DEF RetrievalSpec

-----------------------------------------------------------------------------
(* The cut.                                                                *)

\* A total order, and the elements that fewer than cap come before.
TotalOrder(R, S) ==
  /\ \A x \in S : <<x, x>> \notin R
  /\ \A x, y, z \in S : <<x, y>> \in R /\ <<y, z>> \in R => <<x, z>> \in R
  /\ \A x, y \in S : x # y => <<x, y>> \in R \/ <<y, x>> \in R

FirstIn(S, R, cap) == {x \in S : Cardinality({y \in S : <<y, x>> \in R}) < cap}

\* In a finite set they are cap elements, and come before the others.
LEMMA FirstOnes ==
  ASSUME NEW S, IsFiniteSet(S), NEW R, TotalOrder(R, S), NEW cap \in Nat
  PROVE  /\ Cardinality(FirstIn(S, R, cap)) <= cap
         /\ Cardinality(S) >= cap => Cardinality(FirstIn(S, R, cap)) = cap
         /\ \A x \in FirstIn(S, R, cap), y \in S \ FirstIn(S, R, cap) : <<x, y>> \in R
<1> DEFINE Below(x) == {y \in S : <<y, x>> \in R}
           count == Cardinality(S)
           rank == [x \in S |-> Cardinality(Below(x))]
           first == {x \in S : Cardinality(Below(x)) < cap}
<1>1. count \in Nat BY FS_CardinalityType
<1>10. /\ \A x \in S : <<x, x>> \notin R
       /\ \A x, y, z \in S : <<x, y>> \in R /\ <<y, z>> \in R => <<x, z>> \in R
       /\ \A x, y \in S : x # y => <<x, y>> \in R \/ <<y, x>> \in R
  BY DEF TotalOrder
<1>2. ASSUME NEW x \in S PROVE IsFiniteSet(Below(x)) /\ Cardinality(Below(x)) \in 0..count - 1
  <2>1. Below(x) \in SUBSET S /\ Below(x) # S BY <1>10
  <2>2. IsFiniteSet(Below(x)) /\ Cardinality(Below(x)) <= count /\ count # Cardinality(Below(x))
    <3> HIDE DEF Below
    <3> QED BY <2>1, FS_Subset
  <2>3. Cardinality(Below(x)) \in Nat BY <2>2, FS_CardinalityType
  <2> QED BY <1>1, <2>2, <2>3
<1>3. ASSUME NEW x \in S, NEW y \in S, <<x, y>> \in R PROVE Cardinality(Below(x)) < Cardinality(Below(y))
  <2>1. Below(x) \in SUBSET Below(y) /\ x \in Below(y) /\ x \notin Below(x) BY <1>3, <1>10
  <2>2. Cardinality(Below(x)) <= Cardinality(Below(y)) /\ Cardinality(Below(y)) # Cardinality(Below(x))
    <3>1. IsFiniteSet(Below(y)) BY <1>2
    <3> HIDE DEF Below
    <3> QED BY <2>1, <3>1, FS_Subset
  <2>3. Cardinality(Below(x)) \in Nat /\ Cardinality(Below(y)) \in Nat
    <3> HIDE DEF Below
    <3> QED BY <1>1, <1>2
  <2> QED BY <2>2, <2>3
<1>4. ASSUME NEW x \in S, NEW y \in S, Cardinality(Below(x)) = Cardinality(Below(y)) PROVE x = y
  <2>1. Cardinality(Below(x)) \in Int /\ Cardinality(Below(y)) \in Int
    <3> HIDE DEF Below
    <3> QED BY <1>1, <1>2
  <2>2. ~(Cardinality(Below(x)) < Cardinality(Below(y))) /\ ~(Cardinality(Below(y)) < Cardinality(Below(x)))
    <3>1. Cardinality(Below(x)) = Cardinality(Below(y)) BY <1>4
    <3> HIDE DEF Below
    <3> QED BY <2>1, <3>1
  <2>3. <<x, y>> \notin R
    <3> HIDE DEF Below
    <3> QED BY <1>3, <2>2
  <2>4. <<y, x>> \notin R
    <3> HIDE DEF Below
    <3> QED BY <1>3, <2>2
  <2> QED BY <1>10, <2>3, <2>4
<1>5. \A k \in 0..count - 1 : \E x \in S : Cardinality(Below(x)) = k
  <2> HIDE DEF Below
  <2>1. rank \in [S -> 0..count - 1] BY <1>2
  <2>2. rank \in Injection(S, 0..count - 1) BY <1>4, <2>1 DEF Injection, IsInjective
  <2>3. IsFiniteSet(0..count - 1) /\ Cardinality(0..count - 1) = count
    <3> HIDE DEF count
    <3>1. count - 1 \in Int /\ (0 > count - 1 => count = 0) BY <1>1
    <3>2. IsFiniteSet(0..count - 1) /\ Cardinality(0..count - 1) = IF 0 > count - 1 THEN 0 ELSE count - 1 - 0 + 1
      BY <3>1, FS_Interval
    <3> QED BY <1>1, <3>1, <3>2
  <2>4. rank \in Surjection(S, 0..count - 1) BY <2>2, <2>3, FS_Injection
  <2> QED BY <2>4 DEF Surjection
<1>6. \A x \in first : x \in S /\ Cardinality(Below(x)) \in 0..cap - 1 BY <1>1, <1>2
<1>7. first \subseteq S /\ IsFiniteSet(first) BY FS_Subset
<1>8. Cardinality(first) <= cap /\ (count >= cap => Cardinality(first) = cap)
  <2> DEFINE place == [x \in first |-> Cardinality(Below(x))]
  <2>1. ASSUME NEW k \in 0..cap - 1, count >= cap PROVE \E x \in first : Cardinality(Below(x)) = k
    <3>1. k \in 0..count - 1 BY <1>1, <2>1
    <3>2. PICK x \in S : Cardinality(Below(x)) = k BY <1>5, <3>1
    <3>3. Cardinality(Below(x)) < cap
      <4> HIDE DEF Below
      <4> QED BY <3>2
    <3> QED BY <3>2, <3>3
  <2> HIDE DEF Below, first
  <2>2. place \in [first -> 0..cap - 1] BY <1>6
  <2>3. place \in Injection(first, 0..cap - 1) BY <1>4, <1>6, <2>2 DEF Injection, IsInjective
  <2>4. IsFiniteSet(0..cap - 1) /\ Cardinality(0..cap - 1) = cap BY FS_Interval
  <2>5. count >= cap => place \in Surjection(first, 0..cap - 1) BY <2>1, <2>2 DEF Surjection
  <2> QED BY <2>3, <2>4, <2>5, FS_Injection
<1>9. ASSUME NEW x \in first, NEW y \in S \ first PROVE <<x, y>> \in R
  <2>1. x # y /\ x \in S /\ y \in S OBVIOUS
  <2>2. Cardinality(Below(x)) < cap /\ ~(Cardinality(Below(y)) < cap) OBVIOUS
  <2>3. Cardinality(Below(x)) \in Int /\ Cardinality(Below(y)) \in Int
    <3> HIDE DEF Below
    <3> QED BY <1>1, <1>2, <2>1
  <2>4. <<y, x>> \in R => Cardinality(Below(y)) < Cardinality(Below(x)) BY <1>3, <2>1
  <2> QED BY <1>10, <2>1, <2>2, <2>3, <2>4
<1> QED BY <1>8, <1>9 DEF FirstIn

\* The edges read are finitely many, so degrees are numbers.
LEMMA DegreeType ==
  ASSUME NEW some \in SUBSET EdgeIds, NEW n
  PROVE  Degree(n, some) \in Nat
<1>1. IsFiniteSet(EdgeIds)
  <2> DEFINE pairs == Ids \X Sems
             Flat(e) == <<<<e[1], e[2]>>, e[3]>>
             flat == [e \in EdgeIds |-> Flat(e)]
  <2>1. IsFiniteSet(pairs \X Ids) BY FS_Product, TraverseConstants
  <2>2. flat \in Injection(EdgeIds, pairs \X Ids)
    <3>1. \A e \in EdgeIds : Flat(e) \in pairs \X Ids BY DEF EdgeIds
    <3>2. \A e, f \in EdgeIds : Flat(e) = Flat(f) => e = f BY DEF EdgeIds
    <3> HIDE DEF Flat, pairs
    <3> QED BY <3>1, <3>2 DEF Injection, IsInjective
  <2> QED BY <2>1, <2>2, FS_Injection
<1>2. \A S \in SUBSET EdgeIds : Cardinality(S) \in Nat
  BY <1>1, FS_Subset, FS_CardinalityType
<1>3. {e \in some : e[1] = n} \in SUBSET EdgeIds /\ {e \in some : e[3] = n} \in SUBSET EdgeIds OBVIOUS
<1> QED BY <1>2, <1>3 DEF Degree

\* The key of the cut tells all entries apart.
LEMMA BeforeTotal ==
  ASSUME NEW some \in SUBSET EdgeIds
  PROVE  /\ \A x \in EntriesType : ~Before(x, x, some)
         /\ \A x, y, z \in EntriesType : Before(x, y, some) /\ Before(y, z, some) => Before(x, z, some)
         /\ \A x, y \in EntriesType : x # y => Before(x, y, some) \/ Before(y, x, some)
         /\ \A x, y \in EntriesType : Before(x, y, some) => ~Before(y, x, some)
<1>1. \A n : Degree(n, some) \in Int BY DegreeType
<1>2. \A x \in EntriesType : x[1] \in Int /\ x[2] \in Int /\ x = <<x[1], x[2]>>
  <2>1. \A x \in EntriesType : x[1] \in Nat /\ x[2] \in Ids /\ x = <<x[1], x[2]>> BY DEF EntriesType
  <2>2. Ids \subseteq Nat BY TraverseConstants
  <2> QED BY <2>1, <2>2
<1>3. \A x, y \in EntriesType : x[1] = y[1] /\ x[2] = y[2] => x = y BY <1>2
<1>4. ASSUME NEW x \in EntriesType PROVE ~Before(x, x, some) BY <1>1, <1>2 DEF Before
<1>5. ASSUME NEW x \in EntriesType, NEW y \in EntriesType, NEW z \in EntriesType,
             Before(x, y, some), Before(y, z, some)
      PROVE  Before(x, z, some)
  BY <1>1, <1>2, <1>5 DEF Before
<1>6. ASSUME NEW x \in EntriesType, NEW y \in EntriesType, x # y
      PROVE  Before(x, y, some) \/ Before(y, x, some)
  BY <1>1, <1>2, <1>3, <1>6 DEF Before
<1>7. \A x, y \in EntriesType : Before(x, y, some) => ~Before(y, x, some)
  <2> QED BY <1>4, <1>5
<1> QED BY <1>4, <1>5, <1>6, <1>7

\* What is shown of so many entries.
LEMMA ShownOfEntries ==
  ASSUME TraverseTypeOK
  PROVE  /\ IsFiniteSet(Entries)
         /\ Cardinality(Shown) <= AtLeastZero(asked.cap)
         /\ Entries \ Shown # {} => Cardinality(Shown) = AtLeastZero(asked.cap)
         /\ \A x \in Shown, y \in Entries \ Shown :
              Before(x, y, Among(edges, Named(Entries))) /\ ~Before(y, x, Among(edges, Named(Entries)))
<1> DEFINE some == Among(edges, Named(Entries))
           cap == AtLeastZero(asked.cap)
           R == {p \in EntriesType \X EntriesType : Before(p[1], p[2], some)}
           first == FirstIn(Entries, R, cap)
<1>1. some \in SUBSET EdgeIds BY DEF TraverseTypeOK, Among
<1>2. cap \in Nat /\ asked.cap \in Int BY LimitType, AskedIds
<1>3. Entries \subseteq EntriesType BY EntriesTyped
<1>4. IsFiniteSet(Entries)
  <2> DEFINE all == (0..Len(asked.ids)) \X Ids
  <2>1. IsFiniteSet(all)
    <3>1. Len(asked.ids) \in Int BY AskedIds
    <3>2. IsFiniteSet(0..Len(asked.ids)) BY <3>1, FS_Interval
    <3>3. IsFiniteSet(Ids) BY TraverseConstants
    <3> QED BY <3>2, <3>3, FS_Product
  <2>2. Entries \subseteq all
    <3>1. \A i \in seeds : <<i, asked.ids[i]>> \in all BY AskedIds DEF TraverseTypeOK
    <3>2. \A n \in OtherNodes : <<0, n>> \in all BY AskedIds DEF TraverseTypeOK, OtherNodes
    <3> QED BY <3>1, <3>2 DEF Entries
  <2> HIDE DEF all
  <2> QED BY <2>1, <2>2, FS_Subset
<1> HIDE DEF some
<1>5. \A x, y \in Entries : <<y, x>> \in R <=> Before(y, x, some) BY <1>3
<1>6. TotalOrder(R, Entries)
  <2> HIDE DEF R
  <2>1. /\ \A x \in EntriesType : ~Before(x, x, some)
        /\ \A x, y, z \in EntriesType : Before(x, y, some) /\ Before(y, z, some) => Before(x, z, some)
        /\ \A x, y \in EntriesType : x # y => Before(x, y, some) \/ Before(y, x, some)
    BY <1>1, BeforeTotal
  <2> QED BY <1>3, <1>5, <2>1 DEF TotalOrder
<1>7. /\ Cardinality(first) <= cap
      /\ Cardinality(Entries) >= cap => Cardinality(first) = cap
      /\ \A x \in first, y \in Entries \ first : <<x, y>> \in R
  <2> HIDE DEF R, cap
  <2> QED BY <1>2, <1>4, <1>6, FirstOnes
<1>8. FirstOf(Entries, asked.cap, some) = first
  <2>1. ASSUME NEW x \in Entries
        PROVE  Cardinality({y \in Entries : Before(y, x, some)}) < asked.cap
               <=> Cardinality({y \in Entries : <<y, x>> \in R}) < cap
    <3> DEFINE below == {y \in Entries : Before(y, x, some)}
    <3>1. {y \in Entries : <<y, x>> \in R} = below
      <4> HIDE DEF R
      <4> QED BY <1>5
    <3>2. Cardinality(below) \in Nat BY <1>4, FS_Subset, FS_CardinalityType
    <3>3. Cardinality(below) < asked.cap <=> Cardinality(below) < cap
      <4> HIDE DEF below
      <4> QED BY <1>2, <3>2 DEF AtLeastZero
    <3> QED BY <3>1, <3>3
  <2> QED BY <2>1 DEF FirstOf, FirstIn
<1>9. Cardinality(Entries) \in Nat BY <1>4, FS_CardinalityType
<1>10. CASE Cardinality(Entries) > asked.cap
  <2>1. Shown = first BY <1>8, <1>10 DEF Shown, some
  <2>2. Cardinality(Entries) >= cap BY <1>2, <1>9, <1>10 DEF AtLeastZero
  <2>3. \A x \in first, y \in Entries \ first : Before(x, y, some) /\ ~Before(y, x, some)
    BY <1>1, <1>3, <1>5, <1>7, BeforeTotal
  <2>4. Cardinality(first) = cap BY <1>7, <2>2
  <2> HIDE DEF first
  <2> QED BY <1>4, <1>7, <2>1, <2>3, <2>4 DEF some
<1>11. CASE ~(Cardinality(Entries) > asked.cap)
  <2>1. Shown = Entries BY <1>11 DEF Shown
  <2>2. Cardinality(Entries) <= cap BY <1>2, <1>9, <1>11 DEF AtLeastZero
  <2> QED BY <1>4, <2>1, <2>2
<1> QED BY <1>10, <1>11

-----------------------------------------------------------------------------
(***************************************************************************)
(* What holds between two statements of an expansion.                      *)
(***************************************************************************)

\* One statement after another.
ReadInOrder ==
  /\ at \in {"idle", "text", "vectors"} => asked = NoExpansion /\ seeds = {}
  /\ at \in {"idle", "text", "vectors", "seeds"} => queue = {} /\ table = {}
  /\ at \in {"idle", "text", "vectors", "seeds", "reach"} => nodes = {} /\ edges = {}
  /\ at # "nodes" => todo = {}
  /\ todo \subseteq Reached
  /\ at # "seeds" => next = Len(asked.ids) + 1

\* The rows that were taken, and those that still may be.
RowsClosed ==
  /\ table \union queue # {} =>
       asked.hops > 0 /\ \A n \in SetOf(asked.ids) : <<n, 0>> \in table \union queue
  /\ \A row \in table : Produced(row) \subseteq table \union queue
  /\ queue \intersect table = {}

RowsBounded == IsFiniteSet(table) /\ Cardinality(table) <= Limit

QueryInv == RowsClosed /\ RowsBounded /\ ReachedWalks

\* As long as nobody else writes, what was read is what the graph holds.
QuietInv ==
  quiet =>
    /\ seeds = {i \in 1..next - 1 : asked.ids[i] \in Active}
    /\ at # "reach" => nodes = (Reached \ todo) \intersect Active
    /\ table # {} /\ at \notin {"reach", "nodes"} =>
         edges = {e \in links : {e[1], e[3]} \subseteq Touched}

\* The answer is made of what was read, and not changed any more.
AnswerInv == answer = IF HasAnswer THEN Answered ELSE NoAnswer

ExpandInv == ReadInOrder /\ QueryInv /\ QuietInv /\ AnswerInv

\* An expansion is asked for.
LEMMA ForgottenInv ==
  ASSUME NEW expansion \in Expansions, Forget(expansion),
         at' = "seeds" \/ (at' = "text" /\ expansion = NoExpansion)
  PROVE  ExpandInv'
<1>1. /\ asked' = expansion /\ next' = 1 /\ seeds' = {} /\ queue' = {} /\ table' = {} /\ todo' = {}
      /\ nodes' = {} /\ edges' = {} /\ answer' = NoAnswer
  BY DEF Forget
<1>2. Len(expansion.ids) \in Nat /\ expansion.work \in Int BY DEF Expansions
<1>3. ReadInOrder' BY <1>1 DEF ReadInOrder, NoExpansion
<1>4. QueryInv'
  <2>1. RowsClosed' BY <1>1 DEF RowsClosed
  <2>2. RowsBounded'
    <3>1. Limit' \in Nat BY <1>1, <1>2 DEF Limit, AtLeastZero
    <3> QED BY <1>1, <3>1, FS_EmptySet DEF RowsBounded
  <2>3. ReachedWalks' BY <1>1 DEF ReachedWalks
  <2> QED BY <2>1, <2>2, <2>3 DEF QueryInv
<1>5. QuietInv'
  <2>1. Reached' = {} BY <1>1 DEF Reached
  <2>2. {i \in 1..next' - 1 : asked'.ids[i] \in Active'} = {} BY <1>1
  <2> QED BY <1>1, <2>1, <2>2 DEF QuietInv
<1>6. AnswerInv'
  <2>1. Answered' = NoAnswer
    <3>1. Entries' = {} BY <1>1 DEF Entries, OtherNodes
    <3>2. Shown' = {} BY <3>1 DEF Shown, FirstOf
    <3>3. Among(edges, Named(Shown))' = {} BY <1>1 DEF Among
    <3> QED BY <3>2, <3>3 DEF Answered, NoAnswer
  <2> QED BY <1>1, <2>1 DEF AnswerInv, NoAnswer
<1> QED BY <1>3, <1>4, <1>5, <1>6 DEF ExpandInv

\* Nothing of the expansion changes, and none is under way.
LEMMA ElsewhereInv ==
  ASSUME ExpandInv, UNCHANGED <<database, expansionVars, quiet>>,
         at \notin TraverseSteps, at' \notin TraverseSteps \union {"idle"},
         at' \in {"text", "vectors"} => at = "text"
  PROVE  ExpandInv'
<1> USE DEF database, expansionVars, TraverseSteps
<1>1. ReadInOrder' BY DEF ExpandInv, ReadInOrder, Reached
<1>2. QueryInv'
  BY DEF ExpandInv, QueryInv, RowsClosed, RowsBounded, ReachedWalks, Walk, Produced, NeighboursOf, Limit
<1>3. QuietInv'
  <2>1. Reached' = Reached /\ Touched' = Touched /\ Active' = Active BY DEF Reached, Touched, Active
  <2>2. quiet' = quiet /\ seeds' = seeds /\ next' = next /\ asked' = asked /\ nodes' = nodes /\ todo' = todo
        /\ table' = table /\ edges' = edges /\ links' = links
    OBVIOUS
  <2>3. at \notin {"reach", "nodes"} OBVIOUS
  <2> QED BY <2>1, <2>2, <2>3 DEF ExpandInv, QuietInv
<1>4. AnswerInv'
  <2>1. Answered' = Answered
    BY DEF Answered, Shown, Entries, OtherNodes, SeedIds
  <2>2. HasAnswer /\ HasAnswer' BY DEF HasAnswer
  <2>3. answer' = answer OBVIOUS
  <2> QED BY <2>1, <2>2, <2>3 DEF ExpandInv, AnswerInv
<1> QED BY <1>1, <1>2, <1>3, <1>4 DEF ExpandInv

\* Another process writes.
LEMMA WriteInv ==
  ASSUME ExpandInv, UNCHANGED <<at, expansionVars>>, quiet' = FALSE
  PROVE  ExpandInv'
<1> USE DEF expansionVars
<1>1. ReadInOrder' BY DEF ExpandInv, ReadInOrder, Reached
<1>2. QueryInv'
  BY DEF ExpandInv, QueryInv, RowsClosed, RowsBounded, ReachedWalks, Walk, Produced, NeighboursOf, Limit
<1>3. QuietInv' BY DEF QuietInv
<1>4. AnswerInv'
  <2>1. Answered' = Answered BY DEF Answered, Shown, Entries, OtherNodes, SeedIds
  <2>2. HasAnswer' = HasAnswer BY DEF HasAnswer
  <2>3. answer' = answer OBVIOUS
  <2> QED BY <2>1, <2>2, <2>3 DEF ExpandInv, AnswerInv
<1> QED BY <1>1, <1>2, <1>3, <1>4 DEF ExpandInv

-----------------------------------------------------------------------------
(* The steps of an expansion.                                              *)

LEMMA OrderStep ==
  ASSUME TraverseTypeOK, ReadInOrder, TraverseStep
  PROVE  ReadInOrder'
<1>1. Len(asked.ids) \in Nat /\ next \in 1..Len(asked.ids) + 1 BY AskedIds DEF TraverseTypeOK
<1>2. CASE ReadSeed BY <1>2 DEF ReadSeed, ReadInOrder, Reached
<1>3. CASE StartQuery BY <1>1, <1>3 DEF StartQuery, ReadInOrder, Reached
<1>4. CASE SkipQuery BY <1>1, <1>4 DEF SkipQuery, ReadInOrder, Reached
<1>5. CASE FetchRows BY <1>5 DEF FetchRows, ReadInOrder, Reached
<1>6. CASE ReadEdges BY <1>6 DEF ReadEdges, ReadInOrder, Reached
<1>7. CASE Rank BY <1>7 DEF Rank, ReadInOrder, Reached
<1>8. ASSUME NEW row \in queue, TakeRow(row) PROVE ReadInOrder'
  BY <1>8 DEF TakeRow, ReadInOrder, Reached
<1>9. ASSUME NEW n \in todo, ReadNode(n) PROVE ReadInOrder'
  BY <1>9 DEF ReadNode, ReadInOrder, Reached
<1> QED BY <1>2, <1>3, <1>4, <1>5, <1>6, <1>7, <1>8, <1>9 DEF TraverseStep

\* A walk is one step longer for the nodes that an edge leads to.
LEMMA WalkOn ==
  ASSUME TraverseTypeOK, NEW n \in Ids, NEW d \in Nat, Walk(n, d, asked.direction), NEW m \in NeighboursOf(n)
  PROVE  Walk(m, d + 1, asked.direction)
<1>1. PICK p \in [0..d -> Ids] :
        /\ p[0] \in SetOf(asked.ids) /\ p[d] = n
        /\ \A i \in 0..d - 1 : Leads(p[i], p[i + 1], view, asked.direction, asked.types)
  BY DEF Walk
<1>2. m \in Ids /\ Leads(n, m, view, asked.direction, asked.types) BY DEF NeighboursOf
<1> DEFINE q == [i \in 0..d + 1 |-> IF i <= d THEN p[i] ELSE m]
<1>3. q \in [0..d + 1 -> Ids] BY <1>2
<1>4. q[0] = p[0] /\ q[d + 1] = m OBVIOUS
<1>5. ASSUME NEW i \in 0..d + 1 - 1
      PROVE  Leads(q[i], q[i + 1], view, asked.direction, asked.types)
  <2>1. CASE i < d
    <3>1. i \in 0..d - 1 /\ q[i] = p[i] /\ q[i + 1] = p[i + 1] BY <2>1
    <3> QED BY <1>1, <3>1
  <2>2. CASE i >= d
    <3>1. i = d /\ q[i] = n /\ q[i + 1] = m BY <1>1, <2>2
    <3> QED BY <1>2, <3>1
  <2> QED BY <2>1, <2>2
<1> HIDE DEF q
<1> QED BY <1>1, <1>3, <1>4, <1>5 DEF Walk

\* A walk of no steps.
LEMMA WalkOfNone ==
  ASSUME TraverseTypeOK
  PROVE  /\ \A n \in SetOf(asked.ids) : Walk(n, 0, asked.direction)
         /\ \A n : Walk(n, 0, asked.direction) => n \in SetOf(asked.ids)
<1>1. ASSUME NEW n \in SetOf(asked.ids) PROVE Walk(n, 0, asked.direction)
  <2> DEFINE p == [i \in 0..0 |-> n]
  <2>1. n \in Ids BY AskedIds
  <2>2. p \in [0..0 -> Ids] /\ p[0] = n /\ 0..0 - 1 = {} BY <2>1
  <2> HIDE DEF p
  <2> QED BY <2>2 DEF Walk
<1>2. ASSUME NEW n, Walk(n, 0, asked.direction) PROVE n \in SetOf(asked.ids) BY <1>2 DEF Walk
<1> QED BY <1>1, <1>2

\* The rows of the query begin with the ids that were asked for.
LEMMA StartQueryInv ==
  ASSUME TraverseTypeOK, ReadInOrder, StartQuery
  PROVE  QueryInv'
<1>1. table = {} /\ table' = {} /\ queue' = {<<n, 0>> : n \in SetOf(asked.ids)} /\ asked' = asked /\ asked.hops \in Nat
      /\ asked.hops > 0
  BY AskedIds DEF StartQuery, ReadInOrder
<1>2. RowsClosed' BY <1>1 DEF RowsClosed
<1>3. RowsBounded'
  <2>1. Limit' = Limit /\ Limit \in Nat BY <1>1, LimitType DEF Limit
  <2> QED BY <1>1, <2>1, FS_EmptySet DEF RowsBounded
<1>4. ReachedWalks'
  <2>1. ASSUME NEW n \in SetOf(asked.ids) PROVE Walk(n, 0, asked.direction)'
    <3> DEFINE p == [i \in 0..0 |-> n]
    <3>1. n \in Ids BY AskedIds
    <3>2. p \in [0..0 -> Ids] /\ p[0] = n /\ 0..0 - 1 = {} BY <3>1
    <3> HIDE DEF p
    <3> QED BY <1>1, <3>2 DEF Walk
  <2> QED BY <1>1, <2>1 DEF ReachedWalks
<1> QED BY <1>2, <1>3, <1>4 DEF QueryInv

\* A row is taken.
LEMMA TakeRowInv ==
  ASSUME TraverseTypeOK, QueryInv, NEW row \in queue, TakeRow(row)
  PROVE  QueryInv'
<1>1. /\ table' = table \union {row} /\ queue' = (queue \union Produced(row)) \ table'
      /\ asked' = asked /\ view' = view /\ Cardinality(table) < Limit
  BY DEF TakeRow
<1>2. row \in Rows /\ queue \subseteq Rows /\ table \subseteq Rows BY DEF TraverseTypeOK
<1>3. table' \union queue' = table \union queue \union Produced(row) BY <1>1
<1>4. \A r : Produced(r)' = Produced(r) BY <1>1 DEF Produced, NeighboursOf
<1>5. RowsClosed'
  <2>1. \A r \in table' : Produced(r) \subseteq table' \union queue'
    BY <1>1, <1>3 DEF QueryInv, RowsClosed
  <2> QED BY <1>1, <1>3, <1>4, <2>1 DEF QueryInv, RowsClosed
<1>6. RowsBounded'
  <2>1. IsFiniteSet(table) /\ Cardinality(table) \in Nat BY FS_CardinalityType DEF QueryInv, RowsBounded
  <2>2. IsFiniteSet(table') /\ Cardinality(table') <= Cardinality(table) + 1
    <3>1. IsFiniteSet(table \union {row})
          /\ Cardinality(table \union {row}) = IF row \in table THEN Cardinality(table) ELSE Cardinality(table) + 1
      BY <2>1, FS_AddElement
    <3> QED BY <1>1, <2>1, <3>1
  <2>3. Limit' = Limit /\ Limit \in Nat BY <1>1, LimitType DEF Limit
  <2>4. Cardinality(table') \in Nat BY <2>2, FS_CardinalityType
  <2> QED BY <1>1, <2>1, <2>2, <2>3, <2>4 DEF RowsBounded
<1>7. ReachedWalks'
  <2>1. row[2] <= asked.hops /\ Walk(row[1], row[2], asked.direction) /\ row[1] \in Ids /\ row[2] \in Nat
    BY <1>2 DEF QueryInv, ReachedWalks, Rows
  <2>2. \A r \in Produced(row) : r[2] <= asked.hops /\ Walk(r[1], r[2], asked.direction)
    <3>1. CASE row[2] < asked.hops
      <4>1. \A m \in NeighboursOf(row[1]) : Walk(m, row[2] + 1, asked.direction) BY <2>1, WalkOn
      <4>2. row[2] + 1 <= asked.hops BY <2>1, <3>1, AskedIds
      <4> QED BY <3>1, <4>1, <4>2 DEF Produced
    <3>2. CASE ~(row[2] < asked.hops) BY <3>2 DEF Produced
    <3> QED BY <3>1, <3>2
  <2>3. \A r \in table \union queue \union Produced(row) : r[2] <= asked.hops /\ Walk(r[1], r[2], asked.direction)
    BY <2>2 DEF QueryInv, ReachedWalks
  <2>4. \A n, d : Walk(n, d, asked.direction)' = Walk(n, d, asked.direction) BY <1>1 DEF Walk
  <2> QED BY <1>1, <1>3, <2>3, <2>4 DEF ReachedWalks
<1> QED BY <1>5, <1>6, <1>7 DEF QueryInv

LEMMA QueryStep ==
  ASSUME TraverseTypeOK, ReadInOrder, QueryInv, TraverseStep
  PROVE  QueryInv'
<1>1. CASE StartQuery BY <1>1, StartQueryInv
<1>2. CASE \E row \in queue : TakeRow(row) BY <1>2, TakeRowInv
<1>3. CASE UNCHANGED <<asked, view, queue, table>>
  BY <1>3 DEF QueryInv, RowsClosed, RowsBounded, ReachedWalks, Walk, Produced, NeighboursOf, Limit
<1>4. CASE ReadSeed \/ SkipQuery \/ FetchRows \/ ReadEdges \/ Rank \/ \E n \in todo : ReadNode(n)
  BY <1>3, <1>4 DEF ReadSeed, SkipQuery, FetchRows, ReadEdges, Rank, ReadNode
<1> QED BY <1>1, <1>2, <1>4 DEF TraverseStep

LEMMA QuietStep ==
  ASSUME TraverseTypeOK, ReadInOrder, QuietInv, TraverseStep, UNCHANGED quiet
  PROVE  QuietInv'
<1>1. links' = links /\ Active' = Active BY DEF TraverseStep, database, Active
<1>2. SUFFICES ASSUME quiet
               PROVE  /\ seeds' = {i \in 1..next' - 1 : asked'.ids[i] \in Active}
                      /\ at' # "reach" => nodes' = (Reached' \ todo') \intersect Active
                      /\ table' # {} /\ at' \notin {"reach", "nodes"} =>
                           edges' = {e \in links : {e[1], e[3]} \subseteq Touched'}
  BY <1>1 DEF QuietInv
<1>3. /\ seeds = {i \in 1..next - 1 : asked.ids[i] \in Active}
      /\ at # "reach" => nodes = (Reached \ todo) \intersect Active
      /\ table # {} /\ at \notin {"reach", "nodes"} =>
           edges = {e \in links : {e[1], e[3]} \subseteq Touched}
  BY <1>2 DEF QuietInv
<1>4. asked' = asked BY DEF TraverseStep, ReadSeed, StartQuery, SkipQuery, FetchRows, ReadEdges, Rank, TakeRow, ReadNode
<1>5. table' = table => Reached' = Reached /\ Touched' = Touched BY <1>4 DEF Reached, Touched
<1>6. CASE ReadSeed
  <2>1. next \in 1..Len(asked.ids) /\ Len(asked.ids) \in Nat BY <1>6, AskedIds DEF ReadSeed, TraverseTypeOK
  <2>2. 1..next' - 1 = (1..next - 1) \union {next} BY <1>6, <2>1 DEF ReadSeed
  <2>3. seeds' = {i \in 1..next' - 1 : asked.ids[i] \in Active} BY <1>3, <1>6, <2>2 DEF ReadSeed
  <2> QED BY <1>3, <1>4, <1>5, <1>6, <2>3 DEF ReadSeed
<1>7. CASE StartQuery BY <1>3, <1>4, <1>7 DEF StartQuery
<1>8. CASE SkipQuery BY <1>3, <1>4, <1>5, <1>8 DEF SkipQuery
<1>9. CASE FetchRows BY <1>3, <1>4, <1>5, <1>9 DEF FetchRows, ReadInOrder
<1>10. CASE ReadEdges BY <1>3, <1>4, <1>5, <1>10 DEF ReadEdges
<1>11. CASE Rank BY <1>3, <1>4, <1>5, <1>11 DEF Rank
<1>12. ASSUME NEW row \in queue, TakeRow(row)
       PROVE  /\ seeds' = {i \in 1..next' - 1 : asked'.ids[i] \in Active}
              /\ at' = "reach"
  BY <1>3, <1>4, <1>12 DEF TakeRow
<1>13. ASSUME NEW n \in todo, ReadNode(n)
       PROVE  /\ seeds' = {i \in 1..next' - 1 : asked'.ids[i] \in Active}
              /\ nodes' = (Reached' \ todo') \intersect Active
              /\ at' = "nodes"
  <2>1. n \in Reached BY DEF ReadInOrder
  <2> QED BY <1>3, <1>4, <1>5, <1>13, <2>1 DEF ReadNode
<1> QED BY <1>6, <1>7, <1>8, <1>9, <1>10, <1>11, <1>12, <1>13 DEF TraverseStep

LEMMA AnswerStep ==
  ASSUME ExpandInv, TraverseStep
  PROVE  AnswerInv'
<1>1. CASE Rank
  <2>1. Answered' = Answered BY <1>1 DEF Rank, Answered, Shown, Entries, OtherNodes, SeedIds
  <2>2. answer' = Answered /\ HasAnswer' BY <1>1 DEF Rank, HasAnswer, TraverseSteps
  <2> QED BY <2>1, <2>2 DEF AnswerInv
<1>2. CASE ReadSeed \/ StartQuery \/ SkipQuery \/ FetchRows \/ ReadEdges
           \/ (\E row \in queue : TakeRow(row)) \/ \E n \in todo : ReadNode(n)
  <2>1. answer' = answer /\ at \in TraverseSteps /\ at' \in TraverseSteps
    BY <1>2 DEF ReadSeed, StartQuery, SkipQuery, FetchRows, ReadEdges, TakeRow, ReadNode, TraverseSteps
  <2> QED BY <2>1 DEF ExpandInv, AnswerInv, HasAnswer
<1> QED BY <1>1, <1>2 DEF TraverseStep

LEMMA ExpandInvStep ==
  ASSUME RetrievalTypeOK, ExpandInv, [RetrievalNext]_retrievalVars
  PROVE  ExpandInv'
<1> USE DEF TraverseSteps
<1>1. CASE Ask
  <2>1. CASE AskQuery BY <2>1, NoExpansionType, ForgottenInv DEF AskQuery
  <2>2. CASE AskExpand BY <2>2, RetrievalConstants, ForgottenInv DEF AskExpand, BeginExpand
  <2>3. CASE AskPack BY <2>3, RetrievalConstants, ForgottenInv DEF AskPack, BeginExpand
  <2> QED BY <1>1, <2>1, <2>2, <2>3 DEF Ask
<1>2. CASE ExpandStep
  <2>1. TraverseTypeOK /\ TraverseStep /\ quiet' = quiet BY <1>2 DEF ExpandStep, RetrievalTypeOK
  <2> QED BY <2>1, OrderStep, QueryStep, QuietStep, AnswerStep DEF ExpandInv
<1>3. CASE SearchVectors
  <2>1. PICK list \in SeedLists(lexical, semantic') :
          IF query.hops > 0 /\ list # <<>>
          THEN BeginExpand([ids |-> list, hops |-> query.hops, direction |-> "both",
                            types |-> {}, cap |-> query.cap, work |-> TraverseBudget])
          ELSE at' = "expanded" /\ UNCHANGED expansionVars
    BY <1>3 DEF SearchVectors
  <2>2. UNCHANGED database /\ at = "vectors" /\ quiet' = quiet BY <1>3 DEF SearchVectors
  <2>3. CASE query.hops > 0 /\ list # <<>>
    <3>1. semantic' \in Rankings(Ids, MaxHits)
      BY <1>3, RankingOfMore, RetrievalConstants DEF SearchVectors, Active
    <3>2. list \in Seq(Ids) BY <3>1, SeedListType DEF RetrievalTypeOK
    <3>3. [ids |-> list, hops |-> query.hops, direction |-> "both",
           types |-> {}, cap |-> query.cap, work |-> TraverseBudget] \in Expansions
      BY <3>2, RetrievalConstants DEF RetrievalTypeOK, Policies, Expansions, Directions
    <3> QED BY <2>1, <2>3, <3>3, ForgottenInv DEF BeginExpand
  <2>4. CASE ~(query.hops > 0 /\ list # <<>>)
    BY <2>1, <2>2, <2>4, ElsewhereInv
  <2> QED BY <2>3, <2>4
<1>4. CASE SearchText BY <1>4, ElsewhereInv DEF SearchText
<1>5. CASE Fuse \/ LimitNext \/ ChooseBudget \/ CountNodes \/ CountEdges \/ StartPack \/ EndCommand
           \/ \E n \in rest : PackBlock(n)
  <2>1. UNCHANGED <<database, expansionVars, quiet>>
    BY <1>5 DEF Fuse, LimitNext, ChooseBudget, CountNodes, CountEdges, StartPack, EndCommand, PackBlock
  <2>2. at \notin TraverseSteps /\ at' \notin TraverseSteps \union {"idle", "text", "vectors"}
    BY <1>5 DEF Fuse, LimitNext, ChooseBudget, CountNodes, CountEdges, StartPack, EndCommand, PackBlock
  <2> QED BY <2>1, <2>2, ElsewhereInv
<1>6. CASE OtherWrites BY <1>6, WriteInv DEF OtherWrites
<1>7. CASE UNCHANGED retrievalVars
  <2>1. UNCHANGED <<status, links, at, asked, next, seeds, view, queue, table, todo, nodes, edges, answer, quiet>>
    BY <1>7 DEF retrievalVars, traverseVars
  <2>2. Reached' = Reached /\ Touched' = Touched /\ Active' = Active /\ Answered' = Answered
    BY <2>1 DEF Reached, Touched, Active, Answered, Shown, Entries, OtherNodes, SeedIds
  <2>3. ReadInOrder' BY <2>1, <2>2 DEF ExpandInv, ReadInOrder
  <2>4. QueryInv'
    BY <2>1 DEF ExpandInv, QueryInv, RowsClosed, RowsBounded, ReachedWalks, Walk, Produced, NeighboursOf, Limit
  <2>5. QuietInv' BY <2>1, <2>2 DEF ExpandInv, QuietInv
  <2>6. AnswerInv' BY <2>1, <2>2 DEF ExpandInv, AnswerInv, HasAnswer
  <2> QED BY <2>3, <2>4, <2>5, <2>6 DEF ExpandInv
<1> QED BY <1>1, <1>2, <1>3, <1>4, <1>5, <1>6, <1>7 DEF RetrievalNext, RunStep

LEMMA ExpandInvInit == ASSUME RetrievalInit PROVE ExpandInv
<1> USE DEF RetrievalInit, TraverseInit, TraverseSteps
<1>1. ReadInOrder BY DEF ReadInOrder, NoExpansion
<1>2. QueryInv
  <2>1. Limit \in Nat BY DEF Limit, AtLeastZero, NoExpansion
  <2> QED BY <2>1, FS_EmptySet DEF QueryInv, RowsClosed, RowsBounded, ReachedWalks
<1>3. QuietInv
  <2>1. Reached = {} BY DEF Reached
  <2> QED BY <2>1 DEF QuietInv
<1>4. AnswerInv
  <2>1. Entries = {} BY DEF Entries, OtherNodes
  <2>2. Shown = {} BY <2>1 DEF Shown, FirstOf
  <2>3. Among(edges, Named(Shown)) = {} BY DEF Among
  <2>4. Answered = NoAnswer BY <2>2, <2>3 DEF Answered, NoAnswer
  <2> QED BY <2>4 DEF AnswerInv
<1> QED BY <1>1, <1>2, <1>3, <1>4 DEF ExpandInv

-----------------------------------------------------------------------------
(* What the invariant says of the answer.                                  *)

\* A set of naturals that is not empty has a least element.
LEMMA LeastDistance ==
  ASSUME NEW T, T \subseteq Nat, T # {}
  PROVE  \E least \in T : \A y \in T : least <= y
<1>1. PICK least \in T : \A y \in T : <<y, least>> \notin OpToRel(<, Nat)
  BY WFMin, NatLessThanWellFounded
<1>2. ASSUME NEW y \in T PROVE least <= y
  <2>1. ~(y < least) BY <1>1 DEF OpToRel
  <2> QED BY <2>1
<1> QED BY <1>2

\* A walk whose rows are all produced ends in a row.
LEMMA ClosedFindsWalks ==
  ASSUME TraverseTypeOK, RowsClosed, table # {}, queue = {},
         NEW d \in 0..asked.hops, NEW n \in Ids, Walk(n, d, asked.direction)
  PROVE  <<n, d>> \in table
<1>1. PICK p \in [0..d -> Ids] :
        /\ p[0] \in SetOf(asked.ids) /\ p[d] = n
        /\ \A i \in 0..d - 1 : Leads(p[i], p[i + 1], view, asked.direction, asked.types)
  BY DEF Walk
<1>2. d \in Nat /\ asked.hops \in Nat /\ d <= asked.hops BY AskedIds
<1> DEFINE missed == {i \in 0..d : <<p[i], i>> \notin table}
<1>3. SUFFICES ASSUME missed # {} PROVE FALSE
  <2>1. d \in 0..d BY <1>2
  <2>2. <<p[d], d>> \in table
    <3>1. missed = {} BY <1>3
    <3> QED BY <2>1, <3>1
  <2> QED BY <1>1, <2>2
<1>4. PICK i \in missed : \A j \in missed : i <= j
  <2>1. missed \subseteq Nat /\ missed # {} BY <1>2, <1>3
  <2> HIDE DEF missed
  <2> QED BY <2>1, LeastDistance
<1>5. i \in 0..d /\ <<p[i], i>> \notin table OBVIOUS
<1>6. i # 0
  <2>1. <<p[0], 0>> \in table BY <1>1 DEF RowsClosed
  <2> QED BY <1>5, <2>1
<1>7. i - 1 \in 0..d - 1 /\ i - 1 + 1 = i /\ i - 1 < asked.hops BY <1>2, <1>5, <1>6
<1>8. <<p[i - 1], i - 1>> \in table
  <2>1. i - 1 \notin missed BY <1>4, <1>7
  <2> QED BY <1>7, <2>1
<1>9. p[i] \in NeighboursOf(p[i - 1])
  <2>1. Leads(p[i - 1], p[i - 1 + 1], view, asked.direction, asked.types) BY <1>1, <1>7
  <2> QED BY <1>5, <1>7, <2>1 DEF NeighboursOf
<1>10. <<p[i], i>> \in Produced(<<p[i - 1], i - 1>>) BY <1>7, <1>9 DEF Produced
<1>11. <<p[i], i>> \in table BY <1>8, <1>10 DEF RowsClosed
<1> QED BY <1>5, <1>11

\* Unless it was stopped, the query finds every node within so many steps.
LEMMA NothingIsMissed ==
  ASSUME TraverseTypeOK, ExpandInv
  PROVE  NothingMissed
BY ClosedFindsWalks DEF ExpandInv, QueryInv, NothingMissed

\* The traversal and the answer stay within their bounds.
LEMMA BoundsKept ==
  ASSUME TraverseTypeOK, ExpandInv
  PROVE  WorkBounded
<1>1. Cardinality(answer.entries) <= AtLeastZero(asked.cap)
  <2>1. CASE HasAnswer
    <3>1. answer.entries = Shown BY <2>1 DEF ExpandInv, AnswerInv, Answered
    <3> QED BY <3>1, ShownOfEntries
  <2>2. CASE ~HasAnswer
    <3>1. answer.entries = {} BY <2>2 DEF ExpandInv, AnswerInv, NoAnswer
    <3> QED BY <3>1, FS_EmptySet, LimitType
  <2> QED BY <2>1, <2>2
<1> QED BY <1>1 DEF WorkBounded, ExpandInv, QueryInv, RowsBounded

\* What is cut off comes after all that is shown.
LEMMA FirstAreKept ==
  ASSUME TraverseTypeOK, ExpandInv
  PROVE  CutKeepsFirst
<1>1. SUFFICES ASSUME HasAnswer
      PROVE  /\ Entries \ answer.entries # {} => Cardinality(answer.entries) = AtLeastZero(asked.cap)
             /\ \A x \in answer.entries, y \in Entries \ answer.entries :
                  Before(x, y, Among(edges, Named(Entries))) /\ ~Before(y, x, Among(edges, Named(Entries)))
  BY DEF CutKeepsFirst
<1>2. answer.entries = Shown BY <1>1 DEF ExpandInv, AnswerInv, Answered
<1> QED BY <1>2, ShownOfEntries

\* What was only found along the way never takes the place of a seed.
LEMMA SeedsStay ==
  ASSUME TraverseTypeOK, ExpandInv
  PROVE  SeedsSurvive
<1>1. SUFFICES ASSUME HasAnswer, Cardinality(seeds) <= asked.cap, NEW i \in seeds
      PROVE  <<i, asked.ids[i]>> \in Shown
  BY DEF SeedsSurvive, ExpandInv, AnswerInv, Answered
<1> DEFINE some == Among(edges, Named(Entries))
           x == <<i, asked.ids[i]>>
           below == {y \in Entries : Before(y, x, some)}
<1>2. x \in Entries /\ Entries \subseteq EntriesType /\ x[1] # 0 BY EntriesTyped DEF Entries, TraverseTypeOK
<1>3. some \in SUBSET EdgeIds BY DEF TraverseTypeOK, Among
<1>4. IsFiniteSet(seeds) /\ Cardinality(seeds) \in Nat
  <2>1. IsFiniteSet(1..Len(asked.ids)) /\ seeds \subseteq 1..Len(asked.ids)
    <3>1. Len(asked.ids) \in Int BY AskedIds
    <3>2. IsFiniteSet(1..Len(asked.ids)) BY <3>1, FS_Interval
    <3> QED BY <3>2 DEF TraverseTypeOK
  <2> QED BY <2>1, FS_Subset, FS_CardinalityType
<1>5. \A y \in below : y[1] \in seeds \ {i} /\ y = <<y[1], asked.ids[y[1]]>>
  <2>1. ASSUME NEW y \in below PROVE y[1] # 0 /\ y # x
    <3>1. y \in EntriesType /\ Before(y, x, some) /\ x \in EntriesType BY <1>2
    <3> HIDE DEF x, some
    <3>2. ~Before(x, x, some) BY <1>3, <3>1, BeforeTotal
    <3> QED BY <1>2, <3>1, <3>2 DEF Before
  <2>2. \A y \in Entries : y[1] # 0 => y[1] \in seeds /\ y = <<y[1], asked.ids[y[1]]>>
    BY DEF Entries
  <2>3. ASSUME NEW y \in below PROVE y[1] \in seeds \ {i} /\ y = <<y[1], asked.ids[y[1]]>>
    <3>1. y[1] # 0 /\ y # x /\ y \in Entries BY <2>1
    <3>2. y[1] \in seeds /\ y = <<y[1], asked.ids[y[1]]>> BY <2>2, <3>1
    <3> QED BY <3>1, <3>2
  <2> QED BY <2>3
<1>6. Cardinality(below) < asked.cap
  <2> DEFINE place == [y \in below |-> y[1]]
  <2> HIDE DEF below
  <2>1. place \in [below -> seeds \ {i}] BY <1>5
  <2>2. \A y, z \in below : place[y] = place[z] => y = z BY <1>5
  <2>3. place \in Injection(below, seeds \ {i}) BY <2>1, <2>2 DEF Injection, IsInjective
  <2>4. IsFiniteSet(seeds \ {i}) /\ Cardinality(seeds \ {i}) = Cardinality(seeds) - 1
    BY <1>4, FS_RemoveElement
  <2>5. IsFiniteSet(below) /\ Cardinality(below) <= Cardinality(seeds \ {i}) BY <2>3, <2>4, FS_Injection
  <2>6. Cardinality(below) \in Nat BY <2>5, FS_CardinalityType
  <2> QED BY <1>1, <1>4, <2>4, <2>5, <2>6, AskedIds
<1> QED BY <1>2, <1>6 DEF Shown, FirstOf

\* No edge shown hangs in the air.
LEMMA AnswersJoin ==
  ASSUME ExpandInv
  PROVE  AnswerJoined
<1>1. answer = Answered \/ answer = NoAnswer BY DEF ExpandInv, AnswerInv
<1> QED BY <1>1 DEF AnswerJoined, Answered, NoAnswer, Among

\* If nobody wrote, the answer is what the graph holds.
LEMMA QuietAnswers ==
  ASSUME TraverseTypeOK, ExpandInv
  PROVE  QuietAnswerExact
<1>1. SUFFICES ASSUME HasAnswer, quiet, table # {}
      PROVE  LET shown == Named(Shown)
             IN  /\ shown \subseteq Active
                 /\ Among(edges, shown) = Among(links, shown)
                 /\ queue = {} /\ Cardinality(Entries) <= asked.cap =>
                      shown = {n \in Active : \E d \in 0..asked.hops : Walk(n, d, asked.direction)}
  BY DEF QuietAnswerExact, ExpandInv, AnswerInv, Answered
<1>2. /\ seeds = {i \in 1..Len(asked.ids) : asked.ids[i] \in Active}
      /\ nodes = Reached \intersect Active
      /\ edges = {e \in links : {e[1], e[3]} \subseteq Touched}
  <2>1. at \notin TraverseSteps /\ todo = {} /\ next = Len(asked.ids) + 1
    BY <1>1 DEF HasAnswer, ExpandInv, ReadInOrder, TraverseSteps
  <2>2. next - 1 = Len(asked.ids) BY <2>1, AskedIds
  <2> QED BY <1>1, <2>1, <2>2 DEF ExpandInv, QuietInv, TraverseSteps
<1>3. Named(Entries) = SeedIds \union nodes
  <2>1. ASSUME NEW i \in seeds PROVE asked.ids[i] \in Named(Entries)
    <3>1. <<i, asked.ids[i]>> \in Entries /\ <<i, asked.ids[i]>>[2] = asked.ids[i] BY DEF Entries
    <3> QED BY <3>1, Zenon DEF Named
  <2>2. ASSUME NEW n \in OtherNodes PROVE n \in Named(Entries)
    <3>1. <<0, n>> \in Entries /\ <<0, n>>[2] = n BY DEF Entries
    <3> QED BY <3>1, Zenon DEF Named
  <2>3. \A x \in Entries : x[2] \in SeedIds \union OtherNodes BY DEF Entries, SeedIds
  <2>4. Named(Entries) = SeedIds \union OtherNodes BY <2>1, <2>2, <2>3 DEF Named, SeedIds
  <2> QED BY <2>4 DEF OtherNodes
<1>4. SeedIds = SetOf(asked.ids) \intersect Active BY <1>2, AskedIds DEF SeedIds, SetOf
<1>5. Shown \subseteq Entries BY EntriesTyped
<1>6. Named(Shown) \subseteq SeedIds \union nodes BY <1>3, <1>5 DEF Named
<1>7. Named(Shown) \subseteq Active BY <1>2, <1>4, <1>6
<1>8. Among(edges, Named(Shown)) = Among(links, Named(Shown))
  <2>1. Named(Shown) \subseteq Touched BY <1>2, <1>4, <1>6 DEF Touched
  <2> QED BY <1>2, <2>1 DEF Among
<1>9. ASSUME queue = {}, Cardinality(Entries) <= asked.cap
      PROVE  Named(Shown) = {n \in Active : \E d \in 0..asked.hops : Walk(n, d, asked.direction)}
  <2>1. Cardinality(Entries) \in Nat /\ asked.cap \in Int /\ asked.hops \in Nat
    BY ShownOfEntries, FS_CardinalityType, AskedIds
  <2>2. Named(Shown) = SeedIds \union nodes BY <1>3, <1>9, <2>1 DEF Shown
  <2>3. ASSUME NEW n \in SeedIds PROVE \E d \in 0..asked.hops : Walk(n, d, asked.direction)
    <3>1. Walk(n, 0, asked.direction) /\ 0 \in 0..asked.hops BY <1>4, <2>1, WalkOfNone
    <3> QED BY <3>1
  <2>4. ASSUME NEW n \in nodes PROVE \E d \in 0..asked.hops : Walk(n, d, asked.direction)
    <3>1. PICK row \in table : row[1] = n /\ row[2] > 0 BY <1>2 DEF Reached
    <3>2. row[2] \in Nat BY DEF TraverseTypeOK, Rows
    <3>3. row[2] <= asked.hops /\ Walk(row[1], row[2], asked.direction)
      BY DEF ExpandInv, QueryInv, ReachedWalks
    <3> QED BY <2>1, <3>1, <3>2, <3>3
  <2>5. ASSUME NEW n \in Active, NEW d \in 0..asked.hops, Walk(n, d, asked.direction)
        PROVE  n \in SeedIds \union nodes
    <3>1. n \in Ids BY DEF Active
    <3>2. CASE d = 0 BY <1>4, <2>5, <3>2, WalkOfNone
    <3>3. CASE d # 0
      <4>1. <<n, d>> \in table BY <1>1, <1>9, <2>5, <3>1, ClosedFindsWalks DEF ExpandInv, QueryInv
      <4>2. d > 0 BY <2>1, <3>3
      <4>3. n \in Reached BY <3>1, <4>1, <4>2 DEF Reached
      <4> QED BY <1>2, <4>3
    <3> QED BY <3>2, <3>3
  <2>6. SeedIds \union nodes \subseteq Active BY <1>2, <1>4
  <2> QED BY <2>2, <2>3, <2>4, <2>5, <2>6
<1> QED BY <1>7, <1>8, <1>9

-----------------------------------------------------------------------------
(***************************************************************************)
(* The limit per source.                                                   *)
(***************************************************************************)

LimitInv == kept \subseteq 1..limited - 1 /\ Diversified

\* Before the ranking is looked at, nothing of it is kept.
LEMMA NothingKept ==
  ASSUME kept' = {}, limited' = 1
  PROVE  LimitInv'
<1>1. \A doc : StayedOf(doc)' = {} BY DEF StayedOf
<1>2. 1..limited' - 1 = {} OBVIOUS
<1>3. Cardinality({}) <= DiversityCap BY FS_EmptySet, RetrievalConstants
<1>4. \A doc : Cardinality(StayedOf(doc)') <= DiversityCap BY <1>1, <1>3
<1>5. (1..limited' - 1) \ kept' = {} BY <1>2
<1>6. Diversified' BY <1>4, <1>5 DEF Diversified
<1> QED BY <1>6 DEF LimitInv

\* One id more.
LEMMA LimitNextInv ==
  ASSUME RetrievalTypeOK, LimitInv, LimitNext
  PROVE  LimitInv'
<1> DEFINE n == ranked[limited]
           Earlier(i) == {j \in StayedOf(Doc[ranked[i]]) : j < i}
<1>1. DiversityCap \in Nat /\ Doc \in [Ids -> Docs] BY RetrievalConstants
<1>2. limited \in 1..Len(ranked) /\ limited \in Nat /\ ranked' = ranked /\ limited' = limited + 1
      /\ kept' = IF Stays(n) THEN kept \union {limited} ELSE kept
  BY RankingType, FiniteIds DEF LimitNext, RetrievalTypeOK
<1>3. kept \subseteq 1..limited - 1 /\ Diversified BY DEF LimitInv
<1>4. kept' \subseteq 1..limited' - 1 BY <1>2, <1>3
<1>5. ASSUME NEW doc
      PROVE  StayedOf(doc)' = IF Stays(n) /\ Doc[n] = doc THEN StayedOf(doc) \union {limited} ELSE StayedOf(doc)
  BY <1>2 DEF StayedOf
<1>6. ASSUME NEW doc PROVE IsFiniteSet(StayedOf(doc)) /\ Cardinality(StayedOf(doc)) \in Nat /\ limited \notin StayedOf(doc)
  <2>1. limited - 1 \in Int BY <1>2
  <2>2. IsFiniteSet(1..limited - 1) BY <2>1, FS_Interval
  <2>3. StayedOf(doc) \subseteq 1..limited - 1 BY <1>3 DEF StayedOf
  <2>4. limited \notin 1..limited - 1 BY <1>2
  <2> QED BY <2>2, <2>3, <2>4, FS_Subset, FS_CardinalityType
<1>7. ASSUME NEW doc \in Docs PROVE Cardinality(StayedOf(doc)') <= DiversityCap
  <2>1. Cardinality(StayedOf(doc)) <= DiversityCap BY <1>3 DEF Diversified
  <2>2. CASE Stays(n) /\ Doc[n] = doc
    <3>1. Cardinality(StayedOf(doc)) < DiversityCap BY <2>2 DEF Stays
    <3>2. Cardinality(StayedOf(doc) \union {limited}) = Cardinality(StayedOf(doc)) + 1
      BY <1>6, FS_AddElement
    <3>3. StayedOf(doc)' = StayedOf(doc) \union {limited} BY <1>5, <2>2
    <3>4. Cardinality(StayedOf(doc)) + 1 <= DiversityCap BY <1>1, <1>6, <3>1
    <3> QED BY <3>2, <3>3, <3>4
  <2>3. CASE ~(Stays(n) /\ Doc[n] = doc) BY <1>5, <2>1, <2>3
  <2> QED BY <2>2, <2>3
<1>8. ASSUME NEW i \in (1..limited' - 1) \ kept'
      PROVE  Cardinality({j \in StayedOf(Doc[ranked[i]])' : j < i}) = DiversityCap
  <2>1. i \in Nat /\ i <= limited /\ i \notin kept BY <1>2, <1>8
  <2>2. {j \in StayedOf(Doc[ranked[i]])' : j < i} = Earlier(i) BY <1>2, <1>5, <2>1
  <2>3. CASE i < limited
    <3>1. i \in (1..limited - 1) \ kept BY <1>2, <1>8, <2>1, <2>3
    <3>2. Cardinality(Earlier(i)) = DiversityCap BY <1>3, <3>1 DEF Diversified
    <3> QED BY <2>2, <3>2
  <2>4. CASE i = limited
    <3>1. ~Stays(n) BY <1>2, <1>8, <2>4
    <3>2. n \in Ids BY <1>2, RankingType, FiniteIds DEF RetrievalTypeOK
    <3>3. Cardinality(StayedOf(Doc[n])) <= DiversityCap BY <1>1, <1>3, <3>2 DEF Diversified
    <3>4. Cardinality(StayedOf(Doc[n])) = DiversityCap BY <1>1, <1>6, <3>1, <3>3 DEF Stays
    <3>5. StayedOf(Doc[n]) \subseteq 1..limited - 1 BY <1>3 DEF StayedOf
    <3>6. Earlier(i) = StayedOf(Doc[n]) BY <1>2, <2>4, <3>5
    <3> QED BY <2>2, <3>4, <3>6
  <2> QED BY <1>2, <2>1, <2>3, <2>4
<1>9. Diversified' BY <1>2, <1>7, <1>8 DEF Diversified
<1> QED BY <1>4, <1>9 DEF LimitInv

LEMMA LimitInvStep ==
  ASSUME RetrievalTypeOK, LimitInv, [RetrievalNext]_retrievalVars
  PROVE  LimitInv'
<1>1. CASE Ask \/ Fuse
  BY <1>1, NothingKept DEF Ask, AskExpand, AskPack, AskQuery, Begin, NothingFound, Fuse
<1>2. CASE LimitNext BY <1>2, LimitNextInv
<1>3. CASE UNCHANGED <<ranked, kept, limited>>
  BY <1>3 DEF LimitInv, Diversified, StayedOf
<1>4. CASE ExpandStep \/ SearchText \/ SearchVectors \/ ChooseBudget \/ CountNodes \/ CountEdges \/ StartPack
           \/ (\E n \in rest : PackBlock(n)) \/ EndCommand \/ OtherWrites \/ UNCHANGED retrievalVars
  BY <1>3, <1>4 DEF ExpandStep, SearchText, SearchVectors, ChooseBudget, CountNodes, CountEdges, StartPack,
    PackBlock, EndCommand, OtherWrites, retrievalVars, searchVars
<1> QED BY <1>1, <1>2, <1>4 DEF RetrievalNext, RunStep

-----------------------------------------------------------------------------
(***************************************************************************)
(* The pack.                                                               *)
(***************************************************************************)

\* What is packed comes before what is still to be packed.
PackInv ==
  Packing =>
    /\ rest \subseteq Named(answer.entries)
    /\ \A i \in DOMAIN packed, m \in rest : Ahead(packed[i], m)
    /\ PackFits /\ PackInOrder

LEMMA StartPackInv ==
  ASSUME StartPack
  PROVE  PackInv'
<1>1. rest' = Named(answer.entries) /\ packed' = <<>> /\ answer' = answer
  BY DEF StartPack, expansionVars
<1>2. SetOf(packed') = {} /\ DOMAIN packed' = {} BY <1>1 DEF SetOf
<1>3. PackFits' BY <1>1 DEF PackFits
<1>4. PackInOrder' BY <1>1, <1>2 DEF PackInOrder
<1> QED BY <1>1, <1>2, <1>3, <1>4 DEF PackInv

LEMMA PackBlockInv ==
  ASSUME RetrievalTypeOK, PackInv, NEW n \in rest, PackBlock(n)
  PROVE  PackInv'
<1>1. /\ answer' = answer /\ score' = score /\ budget' = budget /\ rest' = rest \ {n}
      /\ \A m \in rest \ {n} : Ahead(n, m)
      /\ IF Fits(n) THEN packed' = Append(packed, n) /\ spent' = spent + Tokens[n]
         ELSE packed' = packed /\ spent' = spent
  BY DEF PackBlock, ComesNext, expansionVars
<1>2. Packing BY DEF PackBlock, Packing
<1>3. /\ rest \subseteq Named(answer.entries)
      /\ \A i \in DOMAIN packed, m \in rest : Ahead(packed[i], m)
      /\ packed # <<>> => spent <= budget
      /\ \A m \in Named(answer.entries) \ (rest \union SetOf(packed)) : spent + Tokens[m] > budget
      /\ SetOf(packed) \subseteq Named(answer.entries) \ rest
      /\ \A i, j \in DOMAIN packed : i < j => Ahead(packed[i], packed[j])
  BY <1>2 DEF PackInv, PackFits, PackInOrder
<1>4. packed \in Seq(Ids) /\ spent \in Nat /\ budget \in Int /\ n \in Ids /\ rest \subseteq Ids BY DEF RetrievalTypeOK
<1>5. Named(answer.entries) \subseteq Ids BY EntriesTyped DEF RetrievalTypeOK, TraverseTypeOK
<1>6. \A m \in Ids : Tokens[m] \in Nat BY RetrievalConstants
<1>7. \A x, y : Ahead(x, y)' = Ahead(x, y) BY <1>1 DEF Ahead
<1>8. CASE Fits(n)
  <2>1. packed' = Append(packed, n) /\ spent' = spent + Tokens[n] BY <1>1, <1>8
  <2>2. DOMAIN packed = 1..Len(packed) /\ Len(packed) \in Nat /\ DOMAIN packed' = 1..Len(packed) + 1
        /\ packed'[Len(packed) + 1] = n /\ \A i \in DOMAIN packed : packed'[i] = packed[i]
    BY <1>4, <2>1
  <2>3. SetOf(packed') = SetOf(packed) \union {n}
    <3>1. \A i \in DOMAIN packed' : i \in DOMAIN packed \/ i = Len(packed) + 1 BY <2>2
    <3>2. DOMAIN packed \subseteq DOMAIN packed' /\ Len(packed) + 1 \in DOMAIN packed' BY <2>2
    <3> QED BY <2>2, <3>1, <3>2 DEF SetOf
  <2>4. \A i \in DOMAIN packed', m \in rest' : Ahead(packed'[i], m)
    <3>1. \A i \in DOMAIN packed' : i \in DOMAIN packed \/ i = Len(packed) + 1 BY <2>2
    <3> QED BY <1>1, <1>3, <2>2, <3>1
  <2>5. ASSUME NEW i \in DOMAIN packed', NEW j \in DOMAIN packed', i < j PROVE Ahead(packed'[i], packed'[j])
    <3>1. i \in DOMAIN packed BY <2>2, <2>5
    <3>2. CASE j \in DOMAIN packed BY <1>3, <2>2, <2>5, <3>1, <3>2
    <3>3. CASE j \notin DOMAIN packed
      <4>1. j = Len(packed) + 1 BY <2>2, <3>3
      <4>2. Ahead(packed[i], n) BY <1>3, <3>1
      <4> QED BY <2>2, <3>1, <4>1, <4>2
    <3> QED BY <3>2, <3>3
  <2>6. spent' <= budget' BY <1>1, <1>8, <2>1 DEF Fits
  <2>7. \A m \in Named(answer.entries) \ (rest' \union SetOf(packed')) : spent' + Tokens[m] > budget'
    <3>1. rest' \union SetOf(packed') = rest \union SetOf(packed) BY <1>1, <2>3
    <3>2. spent' \in Nat /\ spent' >= spent BY <1>4, <1>6, <2>1
    <3> QED BY <1>1, <1>3, <1>4, <1>5, <1>6, <3>1, <3>2
  <2>8. SetOf(packed') \subseteq Named(answer.entries) \ rest' BY <1>1, <1>3, <2>3
  <2>9. PackFits' BY <1>1, <2>6, <2>7 DEF PackFits
  <2>10. PackInOrder' BY <1>1, <1>7, <2>5, <2>8 DEF PackInOrder
  <2>11. rest' \subseteq Named(answer.entries)' BY <1>1, <1>3 DEF Named
  <2> QED BY <1>7, <2>4, <2>9, <2>10, <2>11 DEF PackInv
<1>9. CASE ~Fits(n)
  <2>1. packed' = packed /\ spent' = spent BY <1>1, <1>9
  <2>2. spent + Tokens[n] > budget BY <1>4, <1>6, <1>9 DEF Fits
  <2>3. \A m \in Named(answer.entries) \ (rest' \union SetOf(packed)) : spent + Tokens[m] > budget
    BY <1>1, <1>3, <2>2
  <2>4. PackFits' BY <1>1, <1>3, <2>1, <2>3 DEF PackFits
  <2>5. SetOf(packed) \subseteq Named(answer.entries) \ rest' BY <1>1, <1>3
  <2>6. PackInOrder' BY <1>1, <1>3, <1>7, <2>1, <2>5 DEF PackInOrder
  <2>7. rest' \subseteq Named(answer.entries)' BY <1>1, <1>3 DEF Named
  <2> QED BY <1>1, <1>3, <1>7, <2>1, <2>4, <2>6, <2>7 DEF PackInv
<1> QED BY <1>8, <1>9

LEMMA PackInvStep ==
  ASSUME RetrievalTypeOK, PackInv, [RetrievalNext]_retrievalVars
  PROVE  PackInv'
<1>1. CASE StartPack BY <1>1, StartPackInv
<1>2. CASE \E n \in rest : PackBlock(n) BY <1>2, PackBlockInv
<1>3. CASE UNCHANGED <<answer, packVars>> /\ (Packing' => Packing)
  BY <1>3 DEF PackInv, PackFits, PackInOrder, Ahead, packVars
<1>4. CASE EndCommand \/ OtherWrites \/ UNCHANGED retrievalVars
  <2>1. UNCHANGED <<answer, packVars>> /\ (Packing' => Packing)
    BY <1>4 DEF EndCommand, OtherWrites, retrievalVars, traverseVars, expansionVars, Packing
  <2> QED BY <1>3, <2>1
<1>5. CASE Ask \/ ExpandStep \/ SearchText \/ SearchVectors \/ Fuse \/ LimitNext
           \/ ChooseBudget \/ CountNodes \/ CountEdges
  <2>1. CASE ExpandStep
    <3>1. at' \in TraverseSteps \union {"expanded"} BY <2>1, ExpandType DEF ExpandStep, RetrievalTypeOK
    <3> QED BY <3>1 DEF PackInv, Packing, TraverseSteps
  <2>2. CASE SearchVectors
    <3>1. at' \in {"seeds", "expanded"} BY <2>2 DEF SearchVectors, BeginExpand
    <3> QED BY <3>1 DEF PackInv, Packing
  <2>3. CASE Ask \/ SearchText \/ Fuse \/ LimitNext \/ ChooseBudget \/ CountNodes \/ CountEdges
    <3>1. at' \notin {"blocks", "done"}
      BY <2>3 DEF Ask, AskExpand, AskPack, AskQuery, BeginExpand, SearchText, Fuse, LimitNext, ChooseBudget,
        CountNodes, CountEdges
    <3> QED BY <3>1 DEF PackInv, Packing
  <2> QED BY <1>5, <2>1, <2>2, <2>3
<1> QED BY <1>1, <1>2, <1>4, <1>5 DEF RetrievalNext, RunStep

-----------------------------------------------------------------------------
(***************************************************************************)
(* The theorems.                                                           *)
(***************************************************************************)

\* What holds in every state of a command.
RetrievalInv == RetrievalTypeOK /\ ExpandInv /\ LimitInv /\ PackInv

LEMMA RetrievalInvariant == RetrievalSpec => []RetrievalInv
<1>1. ASSUME RetrievalInit PROVE RetrievalInv
  <2>1. LimitInv
    <3>1. kept = {} /\ limited = 1 BY <1>1 DEF RetrievalInit
    <3>2. \A doc : StayedOf(doc) = {} BY <3>1 DEF StayedOf
    <3>3. Cardinality({}) <= DiversityCap BY FS_EmptySet, RetrievalConstants
    <3>4. \A doc : Cardinality(StayedOf(doc)) <= DiversityCap BY <3>2, <3>3
    <3>5. (1..limited - 1) \ kept = {} BY <3>1
    <3>6. Diversified BY <3>4, <3>5 DEF Diversified
    <3> QED BY <3>1, <3>6 DEF LimitInv
  <2>2. PackInv BY <1>1 DEF RetrievalInit, TraverseInit, PackInv, Packing
  <2> QED BY <1>1, <2>1, <2>2, RetrievalTypeInit, ExpandInvInit DEF RetrievalInv
<1>2. ASSUME RetrievalInv, [RetrievalNext]_retrievalVars PROVE RetrievalInv'
  BY <1>2, RetrievalTypeStep, ExpandInvStep, LimitInvStep, PackInvStep DEF RetrievalInv
<1> QED BY <1>1, <1>2, PTL DEF RetrievalSpec

\* The invariant gives every property of the expansion.
LEMMA RetrievalInvMeans ==
  ASSUME RetrievalInv
  PROVE  /\ ReachedWalks /\ NothingMissed /\ WorkBounded /\ CutKeepsFirst /\ SeedsSurvive
         /\ AnswerJoined /\ QuietAnswerExact /\ Diversified /\ PackFits /\ PackInOrder
<1>1. TraverseTypeOK /\ ExpandInv BY DEF RetrievalInv, RetrievalTypeOK
<1>2. ReachedWalks BY <1>1 DEF ExpandInv, QueryInv
<1>3. NothingMissed /\ WorkBounded /\ CutKeepsFirst /\ SeedsSurvive /\ AnswerJoined /\ QuietAnswerExact
  BY <1>1, NothingIsMissed, BoundsKept, FirstAreKept, SeedsStay, AnswersJoin, QuietAnswers
<1>4. Diversified BY DEF RetrievalInv, LimitInv
<1>5. PackFits /\ PackInOrder BY DEF RetrievalInv, PackInv, PackFits, PackInOrder
<1> QED BY <1>2, <1>3, <1>4, <1>5

\* storage/sqlite.py:315-326: what the recursive query finds, a walk of as many steps leads to.
THEOREM OnlyWalksAreReached == RetrievalSpec => []ReachedWalks
BY RetrievalInvariant, RetrievalInvMeans, PTL

\* storage/sqlite.py:307-326: unless its LIMIT stopped it, it finds all that walks of so many
\* steps lead to, in whatever order SQLite takes the rows.
THEOREM QueryMissesNothing == RetrievalSpec => []NothingMissed
BY RetrievalInvariant, RetrievalInvMeans, PTL

\* storage/sqlite.py:307-313, traverse.py:126: the work and the nodes shown stay bounded.
THEOREM WorkStaysBounded == RetrievalSpec => []WorkBounded
BY RetrievalInvariant, RetrievalInvMeans, PTL

\* traverse.py:122-126: the cut keeps what comes first, as many as it may.
THEOREM CutAlwaysKeepsFirst == RetrievalSpec => []CutKeepsFirst
BY RetrievalInvariant, RetrievalInvMeans, PTL

\* traverse.py:78-79: seeds survive the cut as long as it has room for them.
THEOREM SeedsAlwaysSurvive == RetrievalSpec => []SeedsSurvive
BY RetrievalInvariant, RetrievalInvMeans, PTL

\* traverse.py:132-135: no edge is shown without its nodes, whatever others commit meanwhile.
THEOREM AnswersAlwaysJoined == RetrievalSpec => []AnswerJoined
BY RetrievalInvariant, RetrievalInvMeans, PTL

\* traverse.py:80-118: if nobody wrote meanwhile, the answer is what the graph holds within so
\* many steps.
THEOREM QuietAnswersExact == RetrievalSpec => []QuietAnswerExact
BY RetrievalInvariant, RetrievalInvMeans, PTL

\* search.py: of each source as many stay as the limit allows, the first ones.
THEOREM RankingDiversified == RetrievalSpec => []Diversified
BY RetrievalInvariant, RetrievalInvMeans, PTL

\* pack.py: the blocks stay within the budget, and none is left out that would still fit.
THEOREM PacksFit == RetrievalSpec => []PackFits
BY RetrievalInvariant, RetrievalInvMeans, PTL

\* pack.py: the blocks come from the subgraph, each node once, in the order of the scores.
THEOREM PacksInOrder == RetrievalSpec => []PackInOrder
BY RetrievalInvariant, RetrievalInvMeans, PTL
=============================================================================
