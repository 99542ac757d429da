SPECIFICATION FairSpec
CONSTANTS
    Threads <- MCThreads
    Waits <- MCWaits
    MAX_LINES = 4
    Moving = {"LOCK_DETECT", "FAULT_N"}
    Emptied = {"FAULT_N"}
INVARIANT TypeOK
INVARIANT RoomForAll
PROPERTY EdgeSeen
PROPERTY SlotsSettle
