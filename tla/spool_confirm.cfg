\* An append at the ceiling of the file, while the drain awaits the database.
SPECIFICATION Spec
CONSTANTS
    MaxEntry = 4
    BucketOf <- TwoHours
    Poison = {2}
    MaxBytes = 3
    MaxBuffered = 2
    MaxAttempts = 2
    Torn = Torn
    MaxCrashes = 1
    MaxDiskFaults = 2
    MaxOutages = 2
PROPERTY ConfirmsTheWritten
