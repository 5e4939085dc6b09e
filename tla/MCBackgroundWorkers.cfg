SPECIFICATION MCFairSpec
CONSTANTS
    w1 = w1
    w2 = w2
    s1 = s1
    s2 = s2
    k1 = k1
    k2 = k2
    h1 = h1
    h2 = h2
    Writers <- MCWriters
    Streams <- MCStreams
    Rank <- MCRank
    Commands <- MCCommands
    TransactionRetries = 1
    MaxCalls = 3
    c1 = c1
    c2 = c2
    c3 = c3
    p = p
    q = q
    m1 = m1
    m2 = m2
    d1 = d1
    d2 = d2
    Nobody = Nobody
    NoWriter = NoWriter
    Messages <- MCMessages
    Payloads <- MCPayloads
    MaxOutboxAttempts = 2
    BatchSize = 2
    Lease = 1
    Principal = 10
    MAX_OPEN_ORDERS = 2
    MaxLedger = 1
    Suitable = {m1}
    Loops = {"commands", "outbox", "inbox", "facility"}
    Workers <- MCWorkers
    Consumers <- MCConsumers
    Crashes = TRUE
    Mandates = {m1, m2}
    Orders = {d1, d2}
    Notionals = {3, 6, 11}
    MaxReviews = 3
CHECK_DEADLOCK FALSE
INVARIANTS
    CommandsWhole
    EffectOnce
    ExposureReconciles
PROPERTIES
    LogSpec
    EveryCallEnds
    LeaseHonored
    TriggersAgree
    EveryMessageSettles
    
