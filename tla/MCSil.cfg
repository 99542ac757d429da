SPECIFICATION FairSpec
CONSTANTS
    Script <- MCScript
    MAX_EVENTS = 2
INVARIANT TypeOK
INVARIANT ExecutedInOrder
INVARIANT Counted
PROPERTY CommandsExecuted
PROPERTY StatusCatchesUp
