CONSTANTS
    LastStage = 2
    CodeStages <- MCCodeStages
    GroupStage = 1
    AutoStages <- MCAutoStages
    MaxAsks = 1
    SessionPersistence = TRUE
    Limits <- LimitsBranch
SPECIFICATION Spec
CHECK_DEADLOCK FALSE
INVARIANTS GateIsPublished ResumeSeesParkedBranch  AsksBounded OneTransientRetry
