SPECIFICATION Spec
CONSTANTS
    Uart = "reliable"
    OVERHEATS = TRUE
    MAX_SESSIONS = 2
    MAX_FAULTS = 0
    MAX_CHUNKS = 0
    RESET_FAILS = FALSE
INVARIANT ClockFollowsSession
