\* Two callback handlers racing each other and one attempt.
SPECIFICATION Spec
CONSTANTS
    NoRef = NoRef
    MaxFaults = 0
    Budgets = {1}
    LateStatements = FALSE
    Handlers = {h1, h2}
    Vocabulary = {"CONFIRMED", "REJECTED", "OTHER"}
    Refs = {r1, r2}
    Suppliers = {"arbitrary"}
INVARIANTS
    UnreferencedIsFlagged
    DuplicateConfirmation
    SignalNotLost
