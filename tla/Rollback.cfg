SPECIFICATION RFairSpec
CONSTANTS
    p1 = p1
    p2 = p2
    None = None
    Proc = {p1, p2}
    AutoMigrate = {p1, p2}
    M = 4
    Needs <- MCNeeds
    CrashPoints <- Anywhere
    MaxCrashes = 1
    MaxRollbacks = 2
INVARIANTS
    RTypeOK
    SeedWhole
PROPERTIES
    RolledBackClean
    ServesAgain
