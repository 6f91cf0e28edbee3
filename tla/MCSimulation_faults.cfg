SPECIFICATION Spec
CONSTANTS
    i1 = i1
    i2 = i2
    Incidents = {i1, i2}
    Draws <- SomeDraws
    Proposable = {"morph"}
    PolicyBackoffs = {0}
    MaxPublishAttempts = 2
    MaxDeferrals = 1
    MinSamples = 2
    MaxProbes = 1
    Faults = {"store", "lost", "dropped", "duplicate", "death", "outage", "skew"}
    MaxFaults = 1
    MaxSlips = 1
    MaxNow = 6
    Rails = {"card", "upi"}
    MaxAttempts = 2
    CycleCap = 3
    Cooling = 3
    MaxRecommendedDelay = 14
    NoticeValidity = 60
    GeneralCeiling = 1
    ElevatedCeiling = 1
    Keys = {1, 2, 3}
    DefaultMaxStates = 9
    DefaultMaxWitnesses = 2
    CancelStride = 2
    Units = 12
    Confidences = {0, 4, 6, 12}
    Corpora <- MCCorpora
    Targets = {6, 9}
    Bins = 2
    Folds = 2
    MaxFeatures = 2
    TokenLists <- MCTokenLists
    Seen <- MCSeen
    Waits = {1, 4}
    Worlds <- MCWorlds
    GatewayFee = 1
    Shares = 6
    Belief <- MCBelief
    Exploration = 2
    PropensityFloor = 3
    Answers <- MCAnswers
    Issuers = {1, 2}
    Classes = {1, 2}
    RoundSize = 2
    MinCoverage = 2
    MinCellPlays = 2
    MinArmPlays = 1
INVARIANTS
    
    ToolsAreSound
CHECK_DEADLOCK FALSE
