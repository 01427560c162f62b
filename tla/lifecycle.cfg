\* Two market cycles, which may begin side by side at the first two bars.  A move
\* between the two price levels republishes or invalidates.  A signal lives two
\* bars and is measured one and two bars after its entry, in reads of two bars.
SPECIFICATION Spec
CONSTANTS
    c1 = c1
    c2 = c2
    rule = rule
    None = None
    Cycle <- Cycles
    Price <- TwoPrices
    Confidence <- OneConfidence
    RepublishMove = 1
    RepublishDelta = 1
    InvalidationMove = 2
    ExpiryBars = 2
    Horizon <- Horizons
    Window = 2
    Rule <- NoRule
    LastOverlap = 1
    MaxBar = 3
    MaxSignal = 2
SYMMETRY Symmetry
INVARIANTS
    TypeOK
    TrailMatchesRow
PROPERTIES
    NothingOutlivesItsBars
    ClosingKeepsTheEntry
    ResolvesOnceOnItsBar
