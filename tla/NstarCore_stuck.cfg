SPECIFICATION FairSpec
CONSTANTS
    Uart = "silent"
    OVERHEATS = FALSE
    MAX_SESSIONS = 0
    MAX_FAULTS = 1
    MAX_CHUNKS = 0
    RESET_FAILS = FALSE
PROPERTY FaultLeft
