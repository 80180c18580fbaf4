\* Expanding, packing and `kg query` beside transactions of other processes: three nodes,
\* three graphs.
CONSTANTS
  Ids = {1, 2, 3}
  Sems = {"uses", "knows"}
  Starts <- SomeStarts
  Batches <- SomeBatches
  MaxWrites = 2
  Asks <- SomeAsks
  Packs <- SomePacks
  Queries <- SomeQueries
  TraverseBudget = 2
  PackBudget = 4
  DiversityCap = 1
  SeedWindow = 1
  MaxHits = 2
  Docs = {"a", "b"}
  Doc <- SomeDocs
  Tokens <- SomeTokens
  Header = 2
  Scores = {0, 1}
SPECIFICATION RetrievalSpec
CONSTRAINT FewWrites
INVARIANTS ReachedWalks NothingMissed CutKeepsFirst QuietAnswerExact PackFits Diversified
CHECK_DEADLOCK FALSE
