\* One item, no call that raises: the second pass makes what the first committed.
CONSTANTS
    Plans <- SmallPlans
    Texts = {"a"}
    Machines = {m1}
    MaxPasses = 2
    MaxRaises = 0
SPECIFICATION Spec
PROPERTY PassCanBeRepeated
CHECK_DEADLOCK FALSE
