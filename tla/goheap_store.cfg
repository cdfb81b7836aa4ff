SPECIFICATION ClientsSpec
CONSTANTS
    NoPath = NoPath
    Names <- MCNames
    Paths <- MCPaths
    Batches <- MCBatches
    DelCalls <- MCDelCalls
    DelTreeCalls <- MCDelTreeCalls
    MkindexCalls <- Mkdirs
    ExtIndexCalls <- MCExtIndexCalls
    DelExtCalls <- Unbinds
    BatchesOf <- MCBatchesOf
    DelsOf <- MCDelsOf
    TreesOf <- MCTreesOf
    MountsOf <- MCMountsOf
INVARIANTS
    TypeOK
    ExtsMirror
    NoCascade
    EnsureSucceeds
    FilesCoherent
    FilesDisjoint
    FilesListed
    NamesKept
    Displayed
PROPERTIES
    NothingUncovered
