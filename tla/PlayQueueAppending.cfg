\* Three songs added at the end, every way to play them.
SPECIFICATION Spec
CONSTANTS
    a1 = a1
    a2 = a2
    a3 = a3
    Addrs = {a1, a2, a3}
    Null = Null
    MaxAdds = 3
    Ops <- Appending
SYMMETRY Symmetry
INVARIANTS
    QueueCoversSongs
    CurrentInQueue
    UriOfCurrent
PROPERTIES
    RepeatCycles
    
CHECK_DEADLOCK FALSE
