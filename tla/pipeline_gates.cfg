CONSTANTS
    LastStage = 2
    CodeStages <- MCCodeStages
    GroupStage = 1
    AutoStages <- MCAutoStages
    MaxAsks = 1
    SessionPersistence = TRUE
    Limits <- LimitsGates
SPECIFICATION FairSpec
CHECK_DEADLOCK FALSE
INVARIANTS TypeOK NoStranded RunOwnsRow
PROPERTIES ImplementsGate WorkEnds
