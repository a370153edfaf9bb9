CONSTANTS
    c1 = c1
    c2 = c2
    c3 = c3
    d1 = d1
    d2 = d2
    t1 = t1
    t2 = t2
    j1 = j1
    k1 = k1
    k2 = k2
    s1 = s1
    s2 = s2
    r1 = r1
    Presenters = {d1}
    Tokens = {t1, t2}
    Junk = {j1}
    Keys = {k1}
    BadKeys = {k2}
    HasIssuer = TRUE
    Signers = {s1, s2}
    Pinned = {s1}
    MaxNonces = 2
    Conns = {c1, c2, c3}
    Concurrency = 1
    QueuePerSlot = 1
    Rate = 1
    HourTicks = 2
    Costs = {1}
    EgressCosts = {0, 1}
    TopUps = {}
    MaxFailures = 1
    MaxPresentations = 0
    MaxTime = 1
    Foci = {"gate", "redeem"}
SPECIFICATION FairSuiteSpec
CHECK_DEADLOCK FALSE
INVARIANTS
    LaneSafe
PROPERTIES
    EveryRequestEnds
