\* Two songs are added, one is started and finishes.
SPECIFICATION Spec
CONSTANTS
    a1 = a1
    a2 = a2
    Addrs = {a1, a2}
    Null = Null
    MaxAdds = 2
    Ops <- Listening
SYMMETRY Symmetry
PROPERTIES
    FinishAdvances
CHECK_DEADLOCK FALSE
