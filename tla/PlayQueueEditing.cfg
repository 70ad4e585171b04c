\* Three songs edited in every way while they play, with consume.
SPECIFICATION Spec
CONSTANTS
    a1 = a1
    a2 = a2
    a3 = a3
    Addrs = {a1, a2, a3}
    Null = Null
    MaxAdds = 3
    Ops <- Editing
SYMMETRY Symmetry
INVARIANTS
    TypeOK
    IDsUnique
PROPERTIES
    SongsSurvive
    OnlyMessagesPlayNothing
CHECK_DEADLOCK FALSE
