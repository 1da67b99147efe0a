SPECIFICATION WorkerSpec
CONSTANTS
    Fens <- MCPromotion
    Scorings = {"level", "mixed"}
    History <- MCHistory
    Depths <- MCDepths
    Thresholds <- MCThresholds
    PickDepth = 0
    MaxSearches = 2
    MaxEvaluations = 2
    MaxPops = 1
    MaxEntries = 5
    None = None
CHECK_DEADLOCK FALSE
INVARIANT ThreatsAreOfBoard
