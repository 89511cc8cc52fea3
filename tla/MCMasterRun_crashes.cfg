\* Processes that die anywhere and are resumed, with answers that come too early or too often.
CONSTANTS
    MaxRetries = 1
    MaxHops = 1
    Overalls <- EdgeScores
    RiskLevels = {"low", "high"}
    AutoModes = {TRUE, FALSE}
    MaxCrashes = 2
    MaxResumes = 5
SPECIFICATION FairSpec
INVARIANTS
    TypeOK
    ForwardNeedsConsent
    LastRowIsDecision
    EndedRunIsMirrored
PROPERTIES
    ImplementsPipeline
    CallReturns
CHECK_DEADLOCK FALSE
