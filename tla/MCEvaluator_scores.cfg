\* All phases and checks; judges that answer, fail, leave keys out or add one.
CONSTANTS
    ExtraKeys = {"style"}
    Marks = {0, 60, 150}
    Overalls = {50, 60, 70}
    Completions = 2
    ReAsks = 2
SPECIFICATION Spec
INVARIANTS
    FailedCheckFails
    ChecksLiftNoVerdict
    DoubtNeedsAllVerdicts
    SpendIsBounded
CHECK_DEADLOCK FALSE
