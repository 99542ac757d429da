SPECIFICATION Spec
CONSTANTS
    t1 = t1
    t2 = t2
    NoThread = NoThread
    Threads = {t1, t2}
    Addrs = {1, 2}
    Bytes = {0, 1}
    Defaults <- MCDefaults
    IdentityRegs <- MCIdentityRegs
    StatusRegs <- MCStatusRegs
    Faults = {"late"}
    MAX_RETRIES = 1
    MIN_IDENTITY = 2
    MAX_BUFFERED = 2
INVARIANT AnswerMatchesDevice
