\* Sets, deletes of any EV but the first, clears, reads and files that do not
\* open, in any order.
CONSTANTS
    a = a
    b = b
    Name <- MCName3
    CQHMEM = CQHMEM
    JunkName = JunkName
    x = x
    y = y
    Data <- MCData
    MemData <- MCMemData
    Absent = Absent
    Missing = Missing
    EV_DATA_MAX_LEN = 2
    MAX_SZ = 6
    SIZE_MOD = 16
    Faults = {"open"}
    DeletesFirst = FALSE
    MaxNodes = 3
    MaxCrashes = 0
    MaxFaults = 2
SPECIFICATION Spec
INVARIANT EvTypeOK
INVARIANT ReadsAgree
PROPERTY ImplementsDict
SYMMETRY NameSymmetry
