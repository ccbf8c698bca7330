CONSTANTS
    a = a
    g = g
    Pollers <- OneProcess
    Gates <- OneAndTwo
    MaxComments = 2
    Attributed = TRUE
    ScanLimit = 1
    Kinds <- BothKinds
    MaxTickets = 2
    MaxIntakes = 2
    MaxCrashes = 1
    ItemKinds <- BothItems
    Questions <- ThreeQuestions
    TurnsPerGate = 3
    LastGate = 1
    ChatDeaths = 1
    Viewers <- OneProcess
    StreamTurns = 2
    MaxEvents = 2
    MaxPieces = 4
    SlackPollers <- OneProcess
    Handlers <- OneProcess
    Messages <- OneAndTwo
    Answers <- OneAnswer
    PageLimit = 1
    MaxPages = 1
    Overlap = 1
    SlackFaults = 1
    Locals <- TakenNames
    RootAccount = "root"
    Subjects <- TwoSubjects
    PreferredName <- NameClaimed
    LockoutAttempts = 2
    Edits = 2
    SignIns = 2
    ProvisionCrashes = 1
    Scorers = {a}
    AutonomyRung = 2
    LightStage = TRUE
    MinRuns = 1
    ScoreWindow = 0
    LightRuns <- SecondRun
    MaxRuns = 2
    MaxRedos = 1
    Horizon = 2
    Disturbances = 1
SPECIFICATION MCDeskSpec
CHECK_DEADLOCK FALSE
INVARIANTS DeskTypeOK  RequestsAreSafe ChatIsContained StreamIsSound
PROPERTIES RegistryIsTrue  TrustIsEarned DeskGoesOn
