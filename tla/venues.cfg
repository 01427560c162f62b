\* Two overlapping requests over a primary and a backup.
SPECIFICATION FairSpec
CONSTANTS
    r1 = r1
    r2 = r2
    Request <- TwoRequests
    Venues = 2
    MaxRetries = 1
    FailureThreshold = 2
    RecoverySuccesses = 2
INVARIANTS
    TypeOK
    ReservationHasHolder
    ProbesAlone
PROPERTIES
    UndisturbedRequestAsksAll
    SwitchesOnFailure
    RequestsEnd
