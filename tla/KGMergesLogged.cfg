CONSTANTS
    None = None
    ann = ann
    bob = bob
    v1 = v1
    v2 = v2
    s1 = s1
    s2 = s2
    Types <- MCTypes
    Slugs <- MCSlugs
    Mentions <- MCValued
    Sems <- MCSameAs
    ExtractedSems = {}
    Sources = {s1}
    Values = {v1, v2}
    GrayZone = TRUE
    Cli = {}
    Mcp = {m1}
    MaxSuffix = 2
    MaxNodes = 2
    MaxBatch = 1
    MaxLinks = 1
    MaxEdges = 3
    MaxFaults = 0
SPECIFICATION Spec
INVARIANT MergesLogged
CHECK_DEADLOCK FALSE
