SPECIFICATION Spec
CONSTANTS
    i1 = i1
    i2 = i2
    p1 = p1
    p2 = p2
    c1 = c1
    c2 = c2
    r1 = r1
    s1 = s1
    s2 = s2
    s3 = s3
    Incidents = {i1}
    Recurring = {}
    Poisoned = {}
    Pools = {p1, p2}
    Consumers = {c1}
    Reclaimers = {r1}
    Home <- TwoPools
    Slots = {s1, s2}
    MaxDuplicates = 1
    MaxClaims = 2
    MaxAttempts = 2
    MaxDeliveries = 2
    RetryBudgetPerMinute = 5
    DemoTimeScale = 1
    SweepInterval = 1
    Cooling = 0
    MaxDelay = 0
    Faults = {"ack", "transport", "crash", "slow"}
SYMMETRY SlotSymmetry
INVARIANTS
    AttemptsSound
    ExclusiveExecution
    MoneySound
    
PROPERTIES
    TerminalIsFinal
    KeepsPromise
