SPECIFICATION MCSpec
CONSTANTS
    Names = {t, u}
    Members = {m, n}
    Used = {"file", "dir", "dict", "dictdir"}
    Lists = {{}, {m}, {m, n}}
    MaxBatch = 2
    Threads = {"c", "d"}
    Keys = {"k", "l", "j"}
    Kinds = {"int", "str"}
    Lengths = {1, 2}
    NoKey = "none"
    NoKind = "none"
    SetBatches <- MCSetBatches
    Base = 4
    Width = 2
INVARIANTS
    Coherent
    MembersReachable
    LinksMatch
    RedisDicts
    FieldsKept
    OrdinaryStored
