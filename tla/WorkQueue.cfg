\* Two threads queue two tasks for up to two workers; two stops or resizes.
SPECIFICATION FairSpec
CONSTANTS
    p1 = p1
    p2 = p2
    w1 = w1
    w2 = w2
    t1 = t1
    t2 = t2
    Producers = {p1, p2}
    Workers = {w1, w2}
    Tasks = {t1, t2}
    Nobody = Nobody
    NoTask = NoTask
    MaxStops = 2
INVARIANTS
    TypeOK
    EnoughAwake
    SlotsFree
PROPERTIES
    PoolSpec
    TasksComplete
    StopReturns
CHECK_DEADLOCK FALSE
