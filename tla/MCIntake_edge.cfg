SPECIFICATION Spec
CONSTANTS
    e1 = e1
    e2 = e2
    e3 = e3
    r1 = r1
    r2 = r2
    d1 = d1
    d2 = d2
    Events = {e1, e2}
    Poison = {}
    Relays = {r1, r2}
    BatchSize = 2
    MaxPublishAttempts = 2
    MaxDisruptions = 1
    Faults = {"edge", "answer", "depth", "outage"}
    NoEvent = NoEvent
    Declined = {}
    Deliveries = {d1, d2}
    OutboxHighWater = 0
    MaxSkew = 0
    MaxAge = 1
SYMMETRY Symmetry
INVARIANTS
    TakenInOnce
    PublishedOnce
CHECK_DEADLOCK FALSE
