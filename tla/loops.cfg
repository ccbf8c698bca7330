CONSTANTS
    a = a
    b = b
    ann = ann
    ben = ben
    NoOne = NoOne
    Watchers = {a}
    PullRequests <- TwoPulls
    HasMetric = TRUE
    HasTarget = FALSE
    WatchLimit <- LimitWatch
    Shepherds <- TwoProcesses
    Findings = {1}
    MaxRounds = 2
    ReviewLimit <- LimitReview
    Schedulers <- TwoProcesses
    Rows <- OneRow
    FlagOn <- OneRow
    RoutineLimits <- LimitsRoutine
    Firers <- TwoProcesses
    Events = {"sla"}
    LastMoment = 3
    DigestLimit <- LimitDigest
    Window = 2
    MaxRows = 1
    Threshold = 1
    Edge = 2
    Sweepers <- TwoProcesses
    People <- TwoPeople
    NoPerson = NoPerson
    Assignments <- Columns
    GateRole = "dev"
    SlaGates <- OneAndTwo
    SlaLimit = 1
SPECIFICATION MCLoopsSpec
CHECK_DEADLOCK FALSE
INVARIANTS LoopsTypeOK FixesAreFresh ProposalsAreKept LadderIsSound
PROPERTIES  SlotsAreKept DigestsAreExact LoopsGoOn
