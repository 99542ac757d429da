SPECIFICATION Spec
CONSTANTS
    Addrs <- MCAddrs
    Bytes = {0, 1, 2, 3}
    Defaults <- MCDefaults
    IdentityRegs <- MCEmpty
    StatusRegs <- MCEmpty
    Setters = {s1, s2}
    Getters = {g1}
    SetGroup <- MCSetGroup
    Limits <- MCLimits
    ReadStart = 1
    ReadLen = 2
    BASE = 4
    REG_COUNT = 8
    Values = {6, 25, 32}
    Measured <- MCMeasured
INVARIANT TypeOK
PROPERTY LatchesWhole
PROPERTY SetTakesEffect
PROPERTY ReadExact
