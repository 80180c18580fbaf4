\* Two things at a time besides the selection; a flight is one frame, a slider has one
\* value besides its default.
CONSTANTS
  Nodes <- MCNodes
  Place <- MCPlace
  Size <- MCSize
  Path <- MCPath
  Status <- MCStatus
  StatusColors <- MCStatusColors
  DeadCode = TRUE
  Channels <- MCChannels
  Edges <- MCEdges
  EdgeReference = 1
  NodeReference = 2
  NodeFadeEnd = 4
  PointThreshold = 3
  MaxLabels = 1
  FlightFrames = 1
  Slides = {100}
  Moves <- MCMoves
  Skeletons = {3}
  CodeView = TRUE
  Entities <- MCEntities
  Qualified = {"a", "b"}
  MaxListed = 1
  MaxCalls = 2
  Layouts <- MCLayouts
  Numberings <- MCNumberings
  Hidings <- MCHidings
  Paths <- MCPaths
  MaxBusy = 2
  Failed = Failed
  None = None
SPECIFICATION Spec
INVARIANTS SelectionStandsOut SettingsComeBack CodeSettles
CHECK_DEADLOCK FALSE
