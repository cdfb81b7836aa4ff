SPECIFICATION MCSpec
CONSTANTS
    Cap4 = 2
    Cap16 = 3
    Cap48 = 5
    MaxByte = 5
    Nil = Nil
    None = None
    Keys <- MCKeys
    Vals = {v, w}
    Children = {c1, c2}
INVARIANTS
    WellFormed
    TreeWellFormed
PROPERTIES
    ImplementsByteMap
    ImplementsKeyMap
