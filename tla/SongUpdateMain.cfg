\* The main loop alone; two songs, three lookups, two workers.
SPECIFICATION FairSpec
CONSTANTS
    main = main
    s1 = s1
    s2 = s2
    t1 = t1
    t2 = t2
    t3 = t3
    Control = {main}
    Songs = {s1, s2}
    Unsafe = {s2}
    Answers <- AllAnswers
    Tasks = {t1, t2, t3}
    NoTask = NoTask
    NoSong = NoSong
    WorkerCount = 2
INVARIANTS
    TypeOK
    OneUpdateAtATime
PROPERTIES
    WaitsForUpdate
    AddressKept
    WaitEnds
CHECK_DEADLOCK FALSE
