\* Two bookings, a sweep, batches of one and of two, a tight marker threshold.
SPECIFICATION FairSpec
CONSTANTS
    Fallback <- MCFallback
    Grace = 1
    Environments <- MCEnvironments
    Bookings = {b1, b2}
    Replicas = {s1}
    Batches = {1, 2}
    MaxFaults = 1
INVARIANTS
    TypeOK
    StaleMarkerIsAbandoned
PROPERTIES
    AbandonedIsRestarted
