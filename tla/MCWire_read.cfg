SPECIFICATION Spec
CONSTANTS
    Payloads <- MCPayloads
    NoiseChars <- MCNoiseChars
    MAX_WAITING = 2
    MAX_NOISY = 20
    FRAME_BUF_MAX = 560
INVARIANT OnlyWholeFrames
INVARIANT WholeFramesRead
INVARIANT CRCIsRemainder
