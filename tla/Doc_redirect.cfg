\* One redirect.
SPECIFICATION Spec
CONSTANTS
    MaxSetup = 1
    RequestBytes = 2
    MaxRedirects = 1
INVARIANTS
    NoBytesEverLeft
