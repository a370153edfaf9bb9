CONSTANTS
    main = main
    delta = delta
    s1 = s1
    s2 = s2
    a1 = a1
    a2 = a2
    b1 = b1
    NoResult = NoResult
    Backends = {"dpf", "harmony", "oram"}
    Revs = {1, 2, 3}
    DbOf <- SessionDbs
    Recorders = {1}
    MaxDials = 3
    MaxSeeds = 2
    MaxMoves = 1
    MaxOpen = 1
    Foci = {"session"}
SPECIFICATION SuiteSpec
CHECK_DEADLOCK FALSE
INVARIANTS
    RecorderFollows
