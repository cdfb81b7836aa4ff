SPECIFICATION FairSpec
CONSTANTS
    Threads = {t1, t2}
    NoThread = NoThread
    Addrs = {a}
    MaxStores = 1
    Backends = {b1, b2}
    CallKinds = {"read", "link"}
    NoStore = NoStore
    NoBackend = NoBackend
PROPERTIES
    CallsReturn
CHECK_DEADLOCK FALSE
