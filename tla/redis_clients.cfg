SPECIFICATION MCSpec
CONSTANTS
    NoPath = NoPath
    Names <- MCNames
    Globs <- MCGlobs
    Begins <- MCBegins
    Paths <- ClientPaths
    Clients = {"c1", "c2"}
    Failing = {"c2"}
    ClearCalls = {"c1"}
    Stored <- Nothing
    Batches <- WreckBatches
    DelCalls <- WreckDels
    DelTreeCalls <- WreckTrees
    MkindexCalls = {}
    ExtIndexCalls = {}
    DelExtCalls = {}
    MaxHops = 1
INVARIANTS
    UnbrokenCoherent
    SetRepairs
    DelForgets
    DelTreeClears
