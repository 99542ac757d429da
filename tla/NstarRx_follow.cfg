SPECIFICATION FairSpec
CONSTANTS
    MAX_PASSES = 2
    MAX_FRAMES = 3
INVARIANT TypeOK
INVARIANT LostForEveryLock
PROPERTY LockLeft
PROPERTY Drained
PROPERTY ThreadStops
PROPERTY RiseFollowed
