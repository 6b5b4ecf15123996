SPECIFICATION MCSpec
CONSTANTS
    c1 = c1
    c2 = c2
    c3 = c3
    main = main
    unwind = unwind
    None = None
    Calls = {c1, c2, c3}
    Closers = {main, unwind}
    Slots = 2
INVARIANTS
    DoneClosedOnce
    StoppedIsQuiet
PROPERTY EverythingDrains
CHECK_DEADLOCK FALSE
