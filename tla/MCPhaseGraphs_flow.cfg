\* Local and distributed runs with a hop or retries; passes lost at any point or given up too early.
CONSTANTS
    Slots = {s1, s2}
    PlanOf <- ChangingPlans
    MaxPasses = 6
    MaxLost = 1
SYMMETRY Symmetric
SPECIFICATION Spec
INVARIANTS
    NodesRunOnce
    FreshReads
    CurrentReads
CHECK_DEADLOCK FALSE
