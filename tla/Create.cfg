\* Three requests on two handlers, two distributors.
SPECIFICATION Spec
CONSTANTS
    Tenants = {t1, t2}
    Keys = {k1}
    Payloads = {p1, p2}
    Handlers = {h1, h2}
    MaxRequests = 3
INVARIANTS
    TypeOK
    OneBookingPerKey
    AnswersOwnBooking
    AnswersAgree
PROPERTIES
    CreatesAreIdempotent
    KnownIsFound
CHECK_DEADLOCK FALSE
