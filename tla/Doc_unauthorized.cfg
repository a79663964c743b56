\* A distributor with a valid key while the key lookup fails.
SPECIFICATION Spec
CONSTANTS
    Tenants = {t1}
    Keys = {k1}
    Payloads = {p1}
    Handlers = {h1}
    MaxRequests = 1
PROPERTIES
    UnauthorizedMeansBadKey
CHECK_DEADLOCK FALSE
