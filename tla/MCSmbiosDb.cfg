SPECIFICATION Spec
CONSTANTS
    NumRec = 3
    SzData = 12
    MaxReceived = 5
    Tag = {a, b}
    Lengths = {0, 3, 4, 5, 7}
    Record <- MCRecord
    Byte <- MCByte
    NUL <- MCNUL
INVARIANTS
    TypeOK
    DenseIndex
    Packed
    NoOverlap
    Conserved
PROPERTIES
    ImplementsLog
