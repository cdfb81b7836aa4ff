SPECIFICATION Spec
CONSTANTS
    NoPath = NoPath
    Names <- MCNames
    Globs <- MCGlobs
    Begins <- MCBegins
    Paths <- GlobPaths
    Clients = {"c1"}
    Failing = {}
    ClearCalls = {}
    Stored <- Nothing
    Batches <- GlobBatches
    DelCalls <- GlobDels
    DelTreeCalls <- GlobTrees
    MkindexCalls = {}
    ExtIndexCalls = {}
    DelExtCalls = {}
    MaxHops = 1
INVARIANTS
    DelTreeClears
