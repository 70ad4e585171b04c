\* Two kinds of events, pushed by the main loop and a worker; two clients.
SPECIFICATION FairSpec
CONSTANTS
    c1 = c1
    c2 = c2
    playlist = playlist
    player = player
    worker = worker
    Clients = {c1, c2}
    Flags = {playlist, player}
    Others = {worker}
    Main = Main
    NoClient = NoClient
    MaxEvents = 2
INVARIANTS
    LossesKnown
PROPERTIES
    EventArrives
CHECK_DEADLOCK FALSE
