\* Three hours of two bars, two horizons, two rows kept.
SPECIFICATION Spec
CONSTANTS
    s1 = s1
    Settler <- Settlers
    Hour = 2
    Horizon <- Horizons
    Window = 3
    MaxEntries = 2
    LastTime = 5
INVARIANTS
    TypeOK
    MeasuredAtItsHorizon
PROPERTY LedgerKeepsItsWord
