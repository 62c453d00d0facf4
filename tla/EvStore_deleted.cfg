\* What remque() leaves in the list (ev.cpp:412).
CONSTANTS
    a = a
    b = b
    Name <- MCName2
    CQHMEM = CQHMEM
    JunkName = JunkName
    x = x
    y = y
    Data <- MCData
    MemData <- MCMemData
    Absent = Absent
    Missing = Missing
    EV_DATA_MAX_LEN = 2
    MAX_SZ = 6
    SIZE_MOD = 16
    Faults = {}
    DeletesFirst = TRUE
    MaxNodes = 2
    MaxCrashes = 0
    MaxFaults = 0
SPECIFICATION Spec
PROPERTY DeletedIsGone
