CONSTANTS
    s1 = s1
    s2 = s2
    a1 = a1
    a2 = a2
    a3 = a3
    z1 = z1
    z2 = z2
    t1 = t1
    t2 = t2
    p = p
    q = q
    r1 = r1
    r2 = r2
    w1 = w1
    w2 = w2
    N = 4
    B = 3
    Slots = 2
    H = 2
    MaxKicks = 4
    KeyBase = 0
    Tabs = {t1, t2}
    Events <- FloorEvents
    Calls = 3
    Foci = {"chunk", "floors", "index", "chunks", "onion_table", "onion_build", "publish", "faulty", "two_relays", "relay_read", "relay_write", "relay_board"}
SPECIFICATION SuiteSpec
CHECK_DEADLOCK FALSE
INVARIANTS
    TableSafe
    FloorsSafe
    BuildsSafe
    
    
    
PROPERTIES
    FloorsNeverFall
    PublisherAnswered
