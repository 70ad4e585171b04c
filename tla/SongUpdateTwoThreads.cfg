\* The main loop and the streaming thread change to the same song.
SPECIFICATION Spec
CONSTANTS
    main = main
    streaming = streaming
    s1 = s1
    t1 = t1
    t2 = t2
    t3 = t3
    Control = {main, streaming}
    Songs = {s1}
    Unsafe = {}
    Answers <- OneAnswer
    Tasks = {t1, t2, t3}
    NoTask = NoTask
    NoSong = NoSong
    WorkerCount = 2
SYMMETRY Symmetry
PROPERTIES
    WaitsForUpdate
CHECK_DEADLOCK FALSE
