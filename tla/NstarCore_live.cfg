SPECIFICATION FairSpec
CONSTANTS
    Uart = "silent"
    OVERHEATS = TRUE
    MAX_SESSIONS = 1
    MAX_FAULTS = 2
    MAX_CHUNKS = 0
    RESET_FAILS = TRUE
PROPERTY DeinitCompletes
PROPERTY FaultRecovered
PROPERTY FaultTakenUp
