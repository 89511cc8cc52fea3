\* Two gates, two answers, one from the command line, in any order and overlap, and one failure.
CONSTANTS
    Daemon = daemon
    Calls = {c1, c2}
    CliCalls = {c2}
    Gates = 2
    Torn = Torn
    MaxFailures = 1
SPECIFICATION FairSpec
INVARIANTS
    TypeOK
    LoneCallAgrees
    GatesAreAnswered
PROPERTIES
    OverIsFinal
    ShownStopsRunning
CHECK_DEADLOCK FALSE
