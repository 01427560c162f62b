\* Three calls, two markets.  The clock passes the TTL and the limit.
SPECIFICATION FairSpec
CONSTANTS
    c1 = c1
    c2 = c2
    c3 = c3
    btc = btc
    eth = eth
    Nobody = Nobody
    Caller <- Callers
    Market <- Markets
    CacheTtl = 1
    MaxStale = 2
    Horizon = 3
INVARIANT TypeOK
PROPERTIES
    ServesNewestWithinLimits
    WrittenByWhoComputed
    CallsEnd
