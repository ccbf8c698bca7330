CONSTANTS
    LastStage = 2
    CodeStages <- MCCodeStages
    GroupStage <- NoGroupStage
    AutoStages <- MCAutoStages
    MaxAsks = 1
    SessionPersistence = TRUE
    Limits <- LimitsRedo
SPECIFICATION Spec
CHECK_DEADLOCK FALSE
INVARIANTS RedoRewinds RedoKeepsApproved WorkReachable
PROPERTY RedoneStageParks
