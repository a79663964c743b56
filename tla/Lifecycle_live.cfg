\* Progress of executions that keep dying, while callbacks settle or flag the
\* row; a supplier that decides once and tells the truth, and one that does not.
SPECIFICATION FairSpec
CONSTANTS
    NoRef = NoRef
    MaxFaults = 1
    Budgets = {2}
    LateStatements = TRUE
    Handlers = {h1}
    Vocabulary = {"CONFIRMED", "REJECTED", "OTHER"}
    Refs = {r1}
    Suppliers = {"undecided", "arbitrary"}
INVARIANTS
    SupplierTruth
PROPERTIES
    AccountedFor
    MarkerNeverWedges
    ParkedRunWoken
CHECK_DEADLOCK FALSE
