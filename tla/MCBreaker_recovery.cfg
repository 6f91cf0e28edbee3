SPECIFICATION FairSpec
CONSTANTS
    w1 = w1
    w2 = w2
    Workers = {w1, w2}
    HalfOpenProbes = 2
    MinSamples = 2
    WindowSize = 3
    RateNum = 1
    RateDen = 2
    Cooldown = 2
    KeyTTL = 3
    Horizon = 4
    Faults = {"redis", "foreign"}
INVARIANTS
    AdmissionRate
PROPERTIES
    CooldownHonoured
    TripRestsOnEvidence
    EventuallyClosed
