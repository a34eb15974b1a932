SPECIFICATION FairSpec
CONSTANTS
    s1 = s1
    s2 = s2
    s3 = s3
    b1 = b1
    b2 = b2
    b3 = b3
    Request = {s1, b1, b2}
    Batch = {b1, b2}
    Items <- RetryItems
    RetryOf <- RetryRetry
    PaymentMethods <- MCPaymentMethods
    Countries <- MCCountries
    Offered <- MCOffered
    Fx <- MCFx
    MaxBatch = 3
    MaxCents = 100000
    PoolSize = 1
    MaxFaults = 2
    MaxCrashes = 1
INVARIANTS
    TypeOK
    AllOrNothing
    CreatedIsStored
    SlotsAccounted
PROPERTIES
    RowsAppearWhole
    ImplementsAtomicIngest
    EveryRequestEnds
    EverySessionEnds
