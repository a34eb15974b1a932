SPECIFICATION FairSpec
CONSTANTS
    q1 = q1
    q2 = q2
    q3 = q3
    Request = {q1, q2, q3}
    Detector <- MCDetector
    Selected <- MCSelected
    Candidates <- MCCandidates
    PoolSize = 2
    MaxFaults = 2
INVARIANTS
    TypeOK
    RootCause
    OkIsComplete
PROPERTIES
    EveryRequestReplies
