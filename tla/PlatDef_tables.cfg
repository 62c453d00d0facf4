\* Loading tables of every shape, and the answer to 0x0202, also where there are as
\* many devices as its index counts.
CONSTANTS
    Files <- MCAllFiles
    Cells = 4
    PLATDEF_BLOB_START = 2
    PLATDEF_SIZE = 5
    PLATDEF_MEM_REGION_SIZE = 9
    PLATDEF_MAX_RECORDS = 4
    PLATDEF_MAX_FAN_PWM = 1
    PLATDEF_MAX_TEMP_SENSOR = 1
    PLATDEF_MAX_POWER_SUPPLY = 2
    PLATDEF_MAX_REDUNDANCY_RULE = 1
    PLATDEF_MAX_HEALTH_DEVICES = 3
    MAX_NUM_ENTITIES = 2
    UINT8_MOD = 3
    UINT16_MOD = 64
SPECIFICATION FairSpec
INVARIANT PlatDefTypeOK
INVARIANT DirectoryRight
INVARIANT LegacySuperseded
INVARIANT ApmlComplete
PROPERTY Answered
PROPERTY LoadEnds
