\* Two slots, attempts lost until the activity gives up, nobody to answer gates.
CONSTANTS
    MaxRetries = 1
    MaxHops = 2
    Workers = {w1, w2}
    Reviewers = {}
    Overalls <- FailingTests
    RiskLevels = {"low"}
    AutoModes = {FALSE}
    MaxAttempts = 2
    MaxLost = 2
    MaxQueries = 0
SYMMETRY SlotSymmetry
SPECIFICATION Spec
INVARIANTS
    RequestsStoredFirst
    RequestsNotRepeated
    RowMirrorsWorkflow
    GateRowBeforeResult
PROPERTY
    ImplementsPipeline
CHECK_DEADLOCK FALSE
