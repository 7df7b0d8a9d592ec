CONSTANTS
    MaxCalls = 4

SPECIFICATION FairSpec
INVARIANTS
    OwnAnswer
    NoWaiterForgotten
PROPERTIES
    ImplementsRemoteCall
    SessionEnds
CHECK_DEADLOCK FALSE
