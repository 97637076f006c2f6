SPECIFICATION Spec
CONSTANTS
    MaxProc = 3
    Writer = {1, 2}
    RunWriter = {1}
    Replicated = TRUE
    Unjudged = {}
    PromptRecord = TRUE
    PromptMark = TRUE
    MaxFence = 3
    MaxFaults = 2
    MaxWork = 3
CONSTRAINT WorkBound
INVARIANTS TypeOK CommittedHasLanded RunNamesLandedData ChainIsOurs
PROPERTIES ReportedFailureIsFinal OvertakenNeverLands
CHECK_DEADLOCK FALSE
