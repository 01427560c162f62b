\* A deployment of the second build over the first, and three days of retention.
SPECIFICATION FairSpec
CONSTANTS
    old = old
    new = new
    elder = elder
    younger = younger
    history = history
    votes = votes
    candles = candles
    Nobody = Nobody
    Job <- Jobs
    Server <- Servers
    Build <- Builds
    Alters <- AltersTables
    Policies <- KeepPolicies
    Patience = 1
    LastDay = 3
INVARIANTS
    TypeOK
    OneHistory
PROPERTIES
    RetentionKeepsItsPolicy
    RunnersEnd
