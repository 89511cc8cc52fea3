\* No crash: a rejection given from an environment with AIDLC_AUTO_APPROVE=1.
CONSTANTS
    MaxRetries = 1
    MaxHops = 1
    Overalls <- EdgeScores
    RiskLevels = {"low", "high"}
    AutoModes = {TRUE, FALSE}
    MaxCrashes = 0
    MaxResumes = 1
SPECIFICATION Spec
PROPERTY RejectionBlocks
CHECK_DEADLOCK FALSE
