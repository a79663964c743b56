\* One activity, and a signal while its authorization is under way.
SPECIFICATION Spec
CONSTANTS
    Fallback <- MCFallback
    Grace = 1
    Environments <- MCEnvironments
    Activities = {a1}
INVARIANTS
    JoinedBeforeClose
CHECK_DEADLOCK FALSE
