CONSTANTS
    None = None
    ann = ann
    bob = bob
    v1 = v1
    v2 = v2
    s1 = s1
    s2 = s2
    Types <- MCTypes
    Slugs <- MCSlugs
    Mentions <- MCSpellings
    Sems <- MCSems
    ExtractedSems = {"uses", "same_as"}
    Sources = {s1}
    Values = {}
    GrayZone = TRUE
    Cli = {c1}
    Mcp = {}
    MaxSuffix = 3
    MaxNodes = 3
    MaxBatch = 2
    MaxLinks = 1
    MaxEdges = 2
    MaxFaults = 0
SPECIFICATION Spec
INVARIANTS EdgesAnchored TombstonesResolve PendingReviewsDecidable
PROPERTIES ReviewsOnlyDecided AuditComplete MergeKeepsEdges ImplementsIdentity
CHECK_DEADLOCK FALSE
