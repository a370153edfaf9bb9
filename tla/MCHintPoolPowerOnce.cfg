CONSTANTS
    p1 = p1
    p2 = p2
    k1 = k1
    k2 = k2
    k3 = k3
    b1 = b1
    b2 = b2
    b3 = b3
    e1 = e1
    e2 = e2
    t1 = t1
    t2 = t2
    s1 = s1
    s2 = s2
    Nil = Nil
    Procs = {p1, p2}
    Keys = {k1, k2, k3}
    Bindings = {b1, b2}
    PoolSize = 2
    MaxLosses = 0
    Foci = {"power"}
SPECIFICATION SuiteSpec
SYMMETRY Symmetry
CHECK_DEADLOCK FALSE
INVARIANTS
    PowerServedAtMostOnce
