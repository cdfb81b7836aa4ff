SPECIFICATION Spec
CONSTANTS
    Threads = {t1, t2, t3}
    NoThread = NoThread
    Addrs = {a}
    MaxStores = 2
    Backends = {b1, b2, b3}
    CallKinds = {"read", "write", "link"}
    NoStore = NoStore
    NoBackend = NoBackend
SYMMETRY Symmetry
INVARIANTS
    TypeOK
    RefsMatch
    OpenIsNamed
    NoLateCalls
CHECK_DEADLOCK FALSE
