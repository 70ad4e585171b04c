\* Three peers come and go on two descriptors; IDs wrap with the third.
SPECIFICATION Spec
CONSTANTS
    p1 = p1
    p2 = p2
    p3 = p3
    Peers = {p1, p2, p3}
    Leavers = {p1, p2, p3}
    NoPeer = NoPeer
    ListenFd = 3
    Fds = {5, 6}
    ClientAll = 3
    AcceptBatch = 2
    Lines <- Pings
    CutLines = {}
    MaxLines = 1
    CutNumbers = {}
    LeaveNumbers = {1}
    MaxCopies = 1
SYMMETRY Symmetry
VIEW WithoutHistory
INVARIANTS
    TypeOK
    MapMatchesDescriptors
    RepliesToSender
    NoneStranded
PROPERTIES
    ClosesLeavers
    StreamSpec
CHECK_DEADLOCK FALSE
