SPECIFICATION Spec
CONSTANTS
    Rails = {"card", "upi_intent"}
    MaxAttempts = 3
    CycleCap = 3
    Cooling = 24
    MaxRecommendedDelay = 168
    NoticeValidity = 720
    GeneralCeiling = 2
    ElevatedCeiling = 5
    Amounts = {2, 3, 5, 6}
    HourBuckets <- MCHourBuckets
    Backoffs = {1, 25}
    Delays = {0, 24, 168}
    MaxPresented = 4
    i1 = i1
    i2 = i2
    q1 = q1
    q2 = q2
    Issuers = {i1, i2}
    Recorders = {q1, q2}
    Window = 1
    TTLMultiplier = 1
    MaxNow = 2
    MaxOutcomes = 2
    MaxRepeats = 1
    k1 = k1
    p1 = p1
    Notices = {1, 2}
    KeyOf <- MCKeyOf
    Pollers = {p1}
    Workers = {p1}
    Parked = {k1}
    Timeout = 1
    StaleAfter = 1
    MaxTime = 3
    MaxChanges = 3
    MaxRestarts = 1
    Runs = {"ra", "rb", "rc"}
    PgPortAttempts = 2
    MaxKills = 1
    f1 = f1
    f2 = f2
    l1 = l1
    l2 = l2
    Failures = {f1, f2}
    Debits = {f2}
    Learners = {l1, l2}
    Arms = {1, 2, 3}
    Ceilings = {2}
    MinBackoff = 1
    CoolingWindow = 3
    Context <- MCContext
    MaxCells = 1
    LastAttempt = 3
    MaxStops = 1
    Payments = {"ord1", "ord2"}
    MaxEntries = 5
    r1 = r1
    r2 = r2
    w1 = w1
    w2 = w2
    Runners = {r1, r2}
    Scribes = {w1, w2}
    MinSamples = 8
    AbsoluteRate = 35
    MaxDelay = 604800
    MaxNotices = 8
    Recordable <- MCRecordable
    Recordings <- MCContents
    FirstFiles <- MCFirstFiles
    MaxCassettes = 2
    MaxRecordings = 2
    MaxCrashes = 2
    Stacks <- MCStacks
    Contexts <- MCContexts
    Contents <- MCContents
    Claims <- MCClaims
    PolicyQuestions <- MCPolicyQuestions
    IssuerIds <- MCIssuerIds
    SmallestBackoff = 5
    LargestBackoff = 604800
    MaxDoublings = 64
    MaxSamples = 1000
    MaxRailsScanned = 3
    MaxAmount = 100
    MaxCost = 10
    MaxPriced = 4
    SnapshotStaleAfter = 900
    FewSamples = 8
    FloorPct = 35
    Number <- MCNumber
    TooLong = {"long"}
    Dirty = {"dirty"}
    HostPorts = {"sim:8081", "sim:9000"}
    URLs = {"http://sim:8081", "http://sim:9000", "http://groq", "http://ollama", "http://other"}
    BaseOf <- MCBaseOf
    EndpointOf <- MCEndpointOf
    Good <- MCGood
    Environments <- MCEnvironments
    DotEnvFiles <- MCDotEnvFiles
    CostFiles = {"absent", "broken"}
    Minted = "minted"
INVARIANTS GateSound   LearningSound
      SettingsSound EvidenceSound
PROPERTY ReleasesAreDue
CHECK_DEADLOCK FALSE
