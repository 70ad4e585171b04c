\* A worker reports a lookup while the tick posts.
SPECIFICATION Spec
CONSTANTS
    c1 = c1
    playlist = playlist
    worker = worker
    Clients = {c1}
    Flags = {playlist}
    Others = {worker}
    Main = Main
    NoClient = NoClient
    MaxEvents = 3
SYMMETRY Symmetry
INVARIANTS
    NothingForgotten
CHECK_DEADLOCK FALSE
