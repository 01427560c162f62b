\* Two processes, with two loops and with one; two session identities, two faults.
SPECIFICATION FairSpec
CONSTANTS
    p1 = p1
    p2 = p2
    analysis = analysis
    ingest = ingest
    s1 = s1
    s2 = s2
    None = None
    Process <- Processes
    Loop <- Loops
    Poller <- analysis
    StartOrder <- Started
    Session <- Sessions
    MaxFaults = 2
INVARIANTS
    TypeOK
    NeverOverlapsItself
    CoveredUntilLost
    OverlapNeedsLoss
    PoolHoldsNoLock
    ReleasedForGood
PROPERTIES
    ImplementsTerms
    PipelineGoesOn
    StopCompletes
