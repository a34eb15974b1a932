SPECIFICATION Spec
CONSTANTS
    s1 = s1
    s2 = s2
    s3 = s3
    b1 = b1
    b2 = b2
    b3 = b3
    Request = {s1, s2, s3, b1, b2, b3}
    Batch = {b1, b2, b3}
    Items <- RefusedItems
    RetryOf <- RefusedRetry
    PaymentMethods <- MCPaymentMethods
    Countries <- MCCountries
    Offered <- MCOffered
    Fx <- MCFx
    MaxBatch = 3
    MaxCents = 100000
    PoolSize = 2
    MaxFaults = 2
    MaxCrashes = 1
INVARIANTS
    InvalidNeverStored
    StoredRowsSound
    ErrorStoresNothingUnlessFault
