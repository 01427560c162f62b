\* Two ingesting processes, one backfill in pages of two bars.
SPECIFICATION FairSpec
CONSTANTS
    w1 = w1
    w2 = w2
    Writer <- Writers
    LastBar = 5
    Start = 4
    Limit = 3
    PageSize = 2
    Target = 1
    Budget = 4
INVARIANTS
    TypeOK
    BackfillLeavesNoHole
PROPERTIES
    ClosedRowsAreFinal
    BackfillEnds
CHECK_DEADLOCK FALSE
