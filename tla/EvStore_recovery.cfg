\* Any set, delete, clear or read, with files that do not open or are cut
\* short and a daemon that is stopped and started again.
CONSTANTS
    a = a
    b = b
    Name <- MCName2
    CQHMEM = CQHMEM
    JunkName = JunkName
    x = x
    y = y
    Data <- MCData
    MemData <- MCMemData
    Absent = Absent
    Missing = Missing
    EV_DATA_MAX_LEN = 2
    MAX_SZ = 6
    SIZE_MOD = 16
    Faults = {"open", "write"}
    DeletesFirst = TRUE
    MaxNodes = 2
    MaxCrashes = 1
    MaxFaults = 1
SPECIFICATION Spec
INVARIANT ReadsAgree
INVARIANT OneWholeCopy
