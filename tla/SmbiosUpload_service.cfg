\* Two uploads: the daemon stopped at any step, requests repeated, a call that fails.
SPECIFICATION UploadSpec
CONSTANTS
    NumRec = 2
    SzData = 8
    MaxReceived = 3
    Record <- MCRecord
    Byte <- MCByte
    NUL <- MCNUL
    Absent = Absent
    None = None
    DIRVER_MOD = 3
    DATASIZE_MOD = 1000
    Faults = {"open", "write", "remove", "rename"}
    Blobs <- MCBlobs
    MaxBegins = 2
    MaxEnds = 2
    MaxSent = 2
    MaxCrashes = 1
    MaxFaults = 1
INVARIANTS
    UploadTypeOK
    PublishedWhole
    DbAgrees
PROPERTIES
    ImageKept
    VersionAdvances
    UploadReachesReaders
CHECK_DEADLOCK FALSE
