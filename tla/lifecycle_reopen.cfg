\* A signal that has expired, and a panel that has an opinion.
SPECIFICATION Spec
CONSTANTS
    c1 = c1
    c2 = c2
    rule = rule
    None = None
    Cycle <- OneCycle
    Price <- ThreePrices
    Confidence <- OneConfidence
    RepublishMove = 1
    RepublishDelta = 1
    InvalidationMove = 2
    ExpiryBars = 2
    Horizon <- Horizons
    Window = 2
    Rule <- OneRule
    LastOverlap = 0
    MaxBar = 3
    MaxSignal = 2
PROPERTY OpensAfterExpiry
