SPECIFICATION Spec
CONSTANTS
    EvtTypes = {1, 3, 4}
    Severity = {"OK"}
    OtherSeverity = other
    DescData <- MCDescData
    VarData <- MCVarData
    Event <- MCEvent
    Values <- MCValues
    ONE_DIGIT = 1
    MAX_ARGS = 4
    None = None
    MaxFaults = 0
INVARIANTS
    KeptInItsLog
