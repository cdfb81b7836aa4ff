SPECIFICATION Spec
CONSTANTS
    NoPath = NoPath
    Names <- MCNames
    Globs <- MCGlobs
    Begins <- MCBegins
    Paths <- LostPaths
    Clients = {"c1", "c2"}
    Failing = {}
    ClearCalls = {}
    Stored <- Nothing
    Batches <- LostBatches
    DelCalls <- None
    DelTreeCalls <- None
    MkindexCalls = {}
    ExtIndexCalls = {}
    DelExtCalls = {}
    MaxHops = 1
INVARIANTS
    Coherent
