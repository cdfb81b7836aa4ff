SPECIFICATION FairSpec
CONSTANTS
    Threads = {t1, t2, t3}
    NoThread = NoThread
    Addrs = {a}
    MaxStores = 1
    Backends = {b1, b2}
    CallKinds = {"read", "write"}
    NoStore = NoStore
    NoBackend = NoBackend
PROPERTIES
    CallsReturn
