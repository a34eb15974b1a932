SPECIFICATION Spec
CONSTANTS
    p1 = p1
    p2 = p2
    p3 = p3
    None = None
    Proc = {p1}
    AutoMigrate = {p1}
    M = 6
    Needs <- MCNeeds
    CrashPoints <- Anywhere
    MaxCrashes = 1
INVARIANTS
    MigratedComplete
