\* Two projects and the snapshot, a budget of one or two nodes saved for one of them, two
\* requests at a time, at most one filter set by hand.
CONSTANTS
  Projects = {p1, p2}
  Entities <- MCEntities
  Label <- MCLabel
  File <- MCFile
  Status <- MCStatus
  Edges <- MCEdges
  ServerGraphs <- MCServerGraphs
  LiveCapabilities = {"dead_code", "missed_graph"}
  Step = 1
  MaxBudget = 2
  Drafts = {0, 9}
  MaxSaved = 1
  MaxFlight = 2
  MaxStray = 1
  Skeleton = 99
  Failed = Failed
  None = None
SPECIFICATION Spec
SYMMETRY Alike
INVARIANTS SettlesOnAnswer BudgetOfProject
PROPERTY KeepsLastGraph
CHECK_DEADLOCK FALSE
