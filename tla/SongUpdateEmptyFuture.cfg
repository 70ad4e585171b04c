\* The lookup ends between valid() and the copy.
SPECIFICATION Spec
CONSTANTS
    main = main
    s1 = s1
    t1 = t1
    Control = {main}
    Songs = {s1}
    Unsafe = {}
    Answers <- OneAnswer
    Tasks = {t1}
    NoTask = NoTask
    NoSong = NoSong
    WorkerCount = 1
SYMMETRY Symmetry
INVARIANTS
    WaitsOnATask
CHECK_DEADLOCK FALSE
