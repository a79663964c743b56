\* A late statement takes the marker of a call that is confirmed.
SPECIFICATION Spec
CONSTANTS
    NoRef = NoRef
    MaxFaults = 1
    Budgets = {2}
    LateStatements = TRUE
    Handlers = {}
    Vocabulary = {}
    Refs = {r1}
    Suppliers = {"arbitrary"}
PROPERTIES
    SupersededRecorded
CHECK_DEADLOCK FALSE
