\* More hidden sensors than sensors are allowed.
CONSTANTS
    Files <- MCFiles
    Cells = 3
    PLATDEF_BLOB_START = 2
    PLATDEF_SIZE = 5
    PLATDEF_MEM_REGION_SIZE = 9
    PLATDEF_MAX_RECORDS = 4
    PLATDEF_MAX_FAN_PWM = 1
    PLATDEF_MAX_TEMP_SENSOR = 1
    PLATDEF_MAX_POWER_SUPPLY = 2
    PLATDEF_MAX_REDUNDANCY_RULE = 1
    PLATDEF_MAX_HEALTH_DEVICES = 3
    MAX_NUM_ENTITIES = 4
    UINT8_MOD = 3
    UINT16_MOD = 64
SPECIFICATION Spec
INVARIANT SensorsBounded
