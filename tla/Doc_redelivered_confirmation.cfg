\* Two deliveries of one confirmation and a timeout in between.
SPECIFICATION Spec
CONSTANTS
    NoRef = NoRef
    MaxFaults = 0
    Budgets = {1}
    LateStatements = FALSE
    Handlers = {h1, h2}
    Vocabulary = {"CONFIRMED"}
    Refs = {r1}
    Suppliers = {"arbitrary"}
INVARIANTS
    RedeliveredConfirmation
