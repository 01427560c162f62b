\* An ingestion that gets to the end of its writes.
SPECIFICATION Spec
CONSTANTS
    w1 = w1
    w2 = w2
    Writer <- Writers
    LastBar = 5
    Start = 4
    Limit = 3
    PageSize = 2
    Target = 1
    Budget = 4
PROPERTY FormingBarIsStored
CHECK_DEADLOCK FALSE
