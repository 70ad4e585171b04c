\* One peer that may leave after its third line, with lists, failing commands and a
\* line in pieces.
SPECIFICATION FairSpec
CONSTANTS
    p1 = p1
    Peers = {p1}
    Leavers = {p1}
    NoPeer = NoPeer
    ListenFd = 3
    Fds = {5}
    ClientAll = 3
    AcceptBatch = 5
    Lines <- Session
    CutLines <- Cuts
    MaxLines = 4
    CutNumbers = {2}
    LeaveNumbers = {3}
    MaxCopies = 1
INVARIANTS
    AnsweredOnce
    RunsInOrder
    UnendedListsWait
PROPERTIES
    StreamSpec
    LinesHandled
CHECK_DEADLOCK FALSE
