CONSTANTS
    q1 = q1
    q2 = q2
    q3 = q3
    q4 = q4
    w1 = w1
    w2 = w2
    c1 = c1
    c2 = c2
    c3 = c3
    n1 = n1
    n2 = n2
    b1 = b1
    s1 = s1
    None = None
    Clients = {c1}
    Scripts = {s1}
    HashFns = 2
    AccessBudget = 5
    Cached = TRUE
    MaxRequests = 2
    MaxCrashes = 2
    MaxFaults = 1
    Conns = {c1, c2}
    Bridged = {c2}
    MaxSeq = 1
    Ephs = 2
    OnionClients = {c1, c2, c3}
    Cap = 2
    QueueCap = 1
    Slots = 2
    Levels = {"index"}
    MaxId = 3
    MaxCalls = 3
    Queries = {q1, q2, q3}
    Workers = {w1, w2}
    Keys <- MCKeys
    BinsPerTable = 3
    MAX_KEYS_PER_GROUP = 2
    Foci = {"lane", "oram", "channel", "onion", "onion_few", "oram_uncached", "oram_two", "wire_answers", "wire_browser", "wire_uploads", "channel_one", "requests", "responses", "load"}
SPECIFICATION SuiteSpec
CHECK_DEADLOCK FALSE
INVARIANTS
    SentFromWholeScan
    OramSafe
    ChannelSafe
    
    ConnectionsSafe
    WireUnderstood
    LoadSafe
PROPERTIES
    PoisonFinal
