SPECIFICATION MCSpec
CONSTANTS
    N = 3
    Moves = {e4, d4}
    e4 = e4
    d4 = d4
    Results <- Outcomes
    WinScore = 90
    Infinity = 101
    NoValue = 102
    Machines <- MCMachines
    Policies <- MCPolicies
    ThreadCounts = {2, 4}
    BundleSize = 4
    HistoryBase = 4
    MaxCommands = 3
INVARIANTS NoTornRead
