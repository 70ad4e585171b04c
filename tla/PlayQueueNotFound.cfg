\* The song that plays is deleted.
SPECIFICATION Spec
CONSTANTS
    a1 = a1
    a2 = a2
    a3 = a3
    Addrs = {a1, a2, a3}
    Null = Null
    MaxAdds = 3
    Ops <- Deleting
SYMMETRY Symmetry
INVARIANTS
    CurrentInQueue
CHECK_DEADLOCK FALSE
