\* Four entries over two hours, the second one poisoned; a file of three lines,
\* a buffer of two entries.
SPECIFICATION FairSpec
CONSTANTS
    MaxEntry = 4
    BucketOf <- TwoHours
    Poison = {2}
    MaxBytes = 3
    MaxBuffered = 2
    MaxAttempts = 2
    Torn = Torn
    MaxCrashes = 1
    MaxDiskFaults = 3
    MaxOutages = 1
INVARIANTS
    TypeOK
    RowIsNewestAccepted
    OneOwnerUntilWritten
    SpooledSurvives
PROPERTY HeldEntriesSettle
