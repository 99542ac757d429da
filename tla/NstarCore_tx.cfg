SPECIFICATION Spec
CONSTANTS
    Uart = "lossy"
    OVERHEATS = TRUE
    MAX_SESSIONS = 2
    MAX_FAULTS = 1
    MAX_CHUNKS = 1
    RESET_FAILS = FALSE
INVARIANT TypeOK
INVARIANT EndedBeforeNotified
INVARIANT OneLateStart
INVARIANT FreeAfterExit
INVARIANT SerialClock
INVARIANT Completion
INVARIANT SerialBytes
INVARIANT StartingHasStarter
