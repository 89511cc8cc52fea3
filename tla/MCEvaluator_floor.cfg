\* A judge that scores a key of its own passes a phase whose check failed.
CONSTANTS
    ExtraKeys = {"style"}
    Marks = {0, 60, 150}
    Overalls = {50, 60, 70}
    Completions = 2
    ReAsks = 2
SPECIFICATION Spec
INVARIANT ChecksAreTheFloor
CHECK_DEADLOCK FALSE
