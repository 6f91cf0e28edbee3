SPECIFICATION Spec
CONSTANTS
    e1 = e1
    e2 = e2
    e3 = e3
    r1 = r1
    r2 = r2
    Events = {e1, e2, e3}
    Poison = {e3}
    Relays = {r1, r2}
    BatchSize = 2
    MaxPublishAttempts = 2
    MaxDisruptions = 1
    Faults = {"outage", "store", "slow", "cancel", "crash"}
    NoEvent = NoEvent
    o1 = o1
    o2 = o2
    w1 = w1
    w2 = w2
    n1 = n1
    s1 = s1
    s2 = s2
    c1 = c1
    c2 = c2
    c3 = c3
    k1 = k1
    k2 = k2
    k3 = k3
    Procs = {o1, o2, w1, w2}
    Operators = {o1, o2}
    Notifiers = {n1}
    Contents = {"raw", "kept", "other"}
    Stored <- MCStored
    MaxEntries = 2
    MaxEdits = 1
    Sessions <- MCSessions
    Clients <- MCClients
    SessionOf <- MCSessionOf
    SubscriberBuffer = 1
    MaxDrops = 2
    MaxStreams = 2
    MaxRetained = 1
    Retention = 1
    MaxFrames <- MCMaxFrames
    MaxVisits <- MCMaxVisits
    Keys = {k1, k2, k3}
    Watched = k1
    Capacity = 2
    IdleTTL = 2
    MaxSweep = 1
    Refill = 2
    Cost = 2
    Full = 4
    MaxTime = 3
    MaxAdmitted = 4
    MaxStepsBack = 1
    MaxActs = 2
    pay = pay
    g1 = g1
    g2 = g2
    x1 = x1
    i1 = i1
    i2 = i2
    Payment = pay
    Stranger = x1
    Slots = {g1, g2}
    Limit = 2
    MaxCommands = 2
    MaxReloads = 1
    Script = 2
    Duplicates = {2}
    MaxConcurrent = 2
    MaxDeliveryAttempts = 2
    Windows = {1, 2}
    Issuers = {i1, i2}
    Rates = {50, 300}
    Baseline <- MCBaseline
    Lead = 1
    ListedFor = 3
    PollGap = 2
    Horizon = 2
SYMMETRY RowSymmetry
INVARIANTS
    OutboxSound
    
    MandateSound
    HubAccounts
    LimiterSound
    EdgeSound
    
    EmitterSound
    TimelineSound
PROPERTIES
    EffectsAreOnRecord
    GapShows
CHECK_DEADLOCK FALSE
