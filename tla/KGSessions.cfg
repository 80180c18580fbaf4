CONSTANTS
    None = None
    ann = ann
    bob = bob
    v1 = v1
    v2 = v2
    s1 = s1
    s2 = s2
    Types <- MCTypes
    Slugs <- MCSlugs2
    Mentions <- MCNames
    Sems <- MCSameAs
    ExtractedSems = {}
    Sources <- MCSources
    Values = {v1, v2}
    GrayZone = TRUE
    Cli = {c1, c2}
    Mcp = {m1}
    MaxSuffix = 1
    MaxNodes = 2
    MaxBatch = 2
    MaxLinks = 1
    MaxEdges = 3
    MaxFaults = 1
SYMMETRY MCSymmetry
SPECIFICATION Spec
INVARIANTS DecidedOnce AuditTrail
PROPERTIES LineageKept MergeRecordsConflict
CHECK_DEADLOCK FALSE
