SPECIFICATION MCSpec
CONSTANTS
    NoPath = NoPath
    Names <- MCNames
    Globs <- MCGlobs
    Begins <- MCBegins
    Paths <- LinkPaths
    Clients = {"c1"}
    Failing = {}
    ClearCalls = {}
    Stored <- LinkStored
    Batches <- LinkBatches
    DelCalls <- LinkDels
    DelTreeCalls <- LinkTrees
    MkindexCalls <- LinkMkdirs
    ExtIndexCalls <- LinkMounts
    DelExtCalls <- LinkUnbinds
    MaxHops = 2
INVARIANTS
    TypeOK
    SoundListMatchesGet
    Displayed
