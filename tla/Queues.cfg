SPECIFICATION MCSpec
CONSTANTS
    NULL = NULL
    Items = {a, b}
    Nodes = {n1, n2, n3, n4}
    QueueItems = {1, 2, 3}
    Readers = {r1, r2}
    Waiters = {w1}
    Marks = {0, 1}
    MaxWriters = 2
    Keys = {k1, k2}
    MapThreads = {t1, t2}
CHECK_DEADLOCK FALSE
INVARIANTS ListInv NoLostWakeup
PROPERTIES QueueSpec CallsReturn OwnedOnce
