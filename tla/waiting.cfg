SPECIFICATION MCSpec
CONSTANTS
    Values <- Distinct
    Target <- Done
    SpinCount = 100
    Tick = 11
    Threads = {t1, t2, t3}
    Queues = {q1, q2}
    NoQueue = noqueue
    Items = {v, w}
    MaxValues = 2
INVARIANTS
    SeenInTime
    SameQueue
    NoLostWakeup
    QueueKept
PROPERTIES
    WatcherReturns
    Delivered
