SPECIFICATION FairSpec
CONSTANTS
    p1 = p1
    p2 = p2
    p3 = p3
    None = None
    Proc = {p1, p2, p3}
    AutoMigrate = {p1, p2}
    M = 6
    Needs <- MCNeeds
    CrashPoints <- Anywhere
    MaxCrashes = 2
INVARIANTS
    TypeOK
    SeededOnce
    ServingComplete
    VersionTruthful
PROPERTIES
    SeededIsStable
    EventuallyServes
