\* Two activities, a request that may hang, up to two interrupts.
SPECIFICATION FairSpec
CONSTANTS
    Fallback <- MCFallback
    Grace = 1
    Environments <- MCEnvironments
    Activities = {a1, a2}
INVARIANTS
    TypeOK
    CallsAreFinished
PROPERTIES
    StopsWhenTold
CHECK_DEADLOCK FALSE
