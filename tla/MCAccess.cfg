CONSTANTS
    c1 = c1
    c2 = c2
    c3 = c3
    d1 = d1
    d2 = d2
    t1 = t1
    t2 = t2
    j1 = j1
    k1 = k1
    k2 = k2
    s1 = s1
    s2 = s2
    r1 = r1
    Presenters = {d1, d2}
    Tokens = {t1}
    Junk = {}
    Keys = {}
    BadKeys = {}
    HasIssuer = TRUE
    Signers = {s1}
    Pinned = {s1}
    MaxNonces = 2
    Conns = {c1, c2}
    Concurrency = 1
    QueuePerSlot = 1
    Rate = 1
    HourTicks = 2
    Costs = {1, 2}
    EgressCosts = {3}
    TopUps = {2}
    MaxFailures = 2
    MaxPresentations = 1
    MaxTime = 2
    Foci = {"gate", "redeem", "prices", "meter", "credit_paid", "credit_best", "credit_wave", "redeem_ends", "purse", "binding"}
SPECIFICATION SuiteSpec
SYMMETRY Symmetry
CHECK_DEADLOCK FALSE
INVARIANTS
    DeficitBounded
    BudgetSafe
    RedeemedOnce
    
    MirrorSafe
    
    BindingSafe
