\* Nothing is lost: a failure found by one test agent and not by the last.
CONSTANTS
    Slots = {s1}
    PlanOf <- ChangingPlans
    MaxPasses = 6
    MaxLost = 0
SPECIFICATION Spec
INVARIANT VerdictCountsAllTests
CHECK_DEADLOCK FALSE
