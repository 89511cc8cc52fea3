\* Both stores, saves that overlap and die, one connection fewer than savers.
CONSTANTS
    Savers = {s1, s2, s3}
    Artifacts = {k1, k2}
    Contents = {a, b}
    Torn = Torn
    PoolSize = 2
    MaxSaves = 3
    MaxCrashes = 1
SPECIFICATION FairSpec
INVARIANTS
    TypeOK
    AnswersKept
    ReadsFollowSaves
    NoRepeatedVersion
PROPERTIES
    ImplementsVersionedStore
    SavesEnd
CHECK_DEADLOCK FALSE
