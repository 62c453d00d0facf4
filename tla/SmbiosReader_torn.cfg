SPECIFICATION Spec
CONSTANTS
    NumRec = 6
    PerPage = 3
    Tables <- MCTables
    Garbage <- MCGarbage
    LAST_TYPE = 5
    BUF_SIZE = 3
    MUX_SIZE = 3
    N_MUX = 2
    TYPE_MUX = 5
    TYPE_DIMM_I2C = 4
    TYPE_MEM_LOC = 2
    TYPE_CPQ_PROC = 3
    Commands <- MCCommands
    Absent = Absent
INVARIANT CountedIsWhole
