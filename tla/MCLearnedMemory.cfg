SPECIFICATION MCSpec
CONSTANTS
    Jobs = {j1, j2}
    Executions <- MCExecutions
    Head30 <- MCHead30
    EscapedTexts = {"dashed"}
    UnsafeTexts = {"secret"}
    LinkedGaps <- MCLinkedGaps
    Configs <- MCConfigs
    MaxRuns = 2
    MaxPromotions = 3
    MaxFaults = 1
    Paths <- MCPaths
    RouteFiles = {"index"}
    RouteGroups = {"(main)"}
    MaxFiles = 2
    MaxDiffLines = 3
    Scale = 60
    Diffs <- MCDiffs
    Demands <- MCDemands
    Searches <- MCSearches
    Histories <- MCHistories
    MaxScenarios = 2
    MaxRelatedFiles = 5
    ManyRemovedLines = 1
    MaxCorrelations = 2
    Builds = {b1, b2}
    Changes <- MCChanges
    FileOf <- MCFileOf
    Bodies <- MCBodies
    Enrichments <- MCEnrichments
    Llms <- MCLlms
    NoFallback = "none"
    MaxMemoryFaults = 1
    MaxAges = 1
SYMMETRY Symmetric
INVARIANTS PromotedIsKept FailuresCounted  ReportIsComplete KnowledgeKept LoginWasTold
CHECK_DEADLOCK FALSE
