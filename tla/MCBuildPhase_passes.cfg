\* Plans with and without cycles, two passes on two machines, and one call that raises.
CONSTANTS
    Plans <- SmallPlans
    Texts = {a, b}
    Machines = {m1, m2}
    MaxPasses = 2
    MaxRaises = 1
SPECIFICATION Spec
SYMMETRY Interchangeable
INVARIANTS
    TypeOK
    OrderIsTopological
    ChecksSeeReviewedCode
    CommitHoldsPlan
    FirstPassIsClean
CHECK_DEADLOCK FALSE
