SPECIFICATION FairSpec
CONSTANTS
    Uci = Uci
    MainSearch = MainSearch
    W = W
    ClearJob = ClearJob
    Build = Build
    Search = Search
    None = None
    Owner = Uci
    Worker = W
    Clients = {Uci, MainSearch}
    Jobs = {Build, Search, ClearJob}
INVARIANTS NoLostWakeup
PROPERTIES CallsReturn ImplementsJobSlot
