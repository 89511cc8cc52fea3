\* One slot, reviewers who answer late, twice or not at all, and one lost attempt.
CONSTANTS
    MaxRetries = 1
    MaxHops = 2
    Workers = {w1}
    Reviewers = {r1}
    Overalls <- EdgeScores
    RiskLevels = {"low", "high"}
    AutoModes = {TRUE, FALSE}
    MaxAttempts = 2
    MaxLost = 1
    MaxQueries = 2
SPECIFICATION FairSpec
INVARIANTS
    TypeOK
    DeployIsVerified
    GateSpendsRetries
PROPERTIES
    EventuallyCloses
    ForwardNeedsConsent
    AnswerReusedOnlyAfterHop
CHECK_DEADLOCK FALSE
