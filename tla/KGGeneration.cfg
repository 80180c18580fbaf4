\* Two indexers that interleave, a browser or a computation of the clusters, a rebuild.
CONSTANTS
  Indexers = {i1, i2}
  Clients = {c1}
  Analysts = {a1}
  MaxChanges = 2
  MaxBumps = 3
  MaxDatabases = 2
  None = None
SPECIFICATION Spec
SYMMETRY Processes
CONSTRAINT OneKindOfReader
INVARIANTS PagesCurrent ClustersCurrent
