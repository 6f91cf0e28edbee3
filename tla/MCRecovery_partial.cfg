SPECIFICATION Spec
CONSTANTS
    i1 = i1
    i2 = i2
    p1 = p1
    p2 = p2
    c1 = c1
    c2 = c2
    r1 = r1
    s1 = s1
    s2 = s2
    s3 = s3
    Incidents = {i1}
    Recurring = {i1}
    Poisoned = {}
    Pools = {p1}
    Consumers = {c1}
    Reclaimers = {r1}
    Home <- OnePool
    Slots = {s1, s2}
    MaxDuplicates = 0
    MaxClaims = 1
    MaxAttempts = 2
    MaxDeliveries = 1
    RetryBudgetPerMinute = 5
    DemoTimeScale = 2
    SweepInterval = 1
    Cooling = 2
    MaxDelay = 2
    Faults = {"store", "publish", "notice", "panic", "lookup"}
SYMMETRY SlotSymmetry
PROPERTIES
    FirstDebitCooled
