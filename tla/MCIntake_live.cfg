SPECIFICATION FairSpec
CONSTANTS
    e1 = e1
    e2 = e2
    e3 = e3
    r1 = r1
    r2 = r2
    d1 = d1
    d2 = d2
    Events = {e1, e2}
    Poison = {e2}
    Relays = {r1, r2}
    BatchSize = 1
    MaxPublishAttempts = 2
    MaxDisruptions = 1
    Faults = {"edge", "outage", "crash", "timeout"}
    NoEvent = NoEvent
    Declined = {}
    Deliveries = {d1}
    OutboxHighWater = 0
    MaxSkew = 1
    MaxAge = 0
INVARIANTS
    LeasesHold
PROPERTIES
    OfferedIsPublished
    RowsConclude
CHECK_DEADLOCK FALSE
