\* A supplier that says anything in any order, executions that die, restart and
\* commit late, a deploy that changes the budget: two environment failures.
SPECIFICATION Spec
CONSTANTS
    NoRef = NoRef
    MaxFaults = 2
    Budgets = {1, 2}
    LateStatements = TRUE
    Handlers = {h1}
    Vocabulary = {"CONFIRMED", "REJECTED", "OTHER"}
    Refs = {r1}
    Suppliers = {"arbitrary"}
INVARIANTS
    TypeOK
    MarkerProtocol
    HonestFailure
    PendingClearMeansUnsent
    CountedCalls
    ReferenceIsConfirmation
PROPERTIES
    SettledIsFinal
    DoubtStays
    UnreachableSpentBudget
    PromiseKept
