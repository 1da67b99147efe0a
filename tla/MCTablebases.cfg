SPECIFICATION MCSpec
CONSTANTS
    Games <- MCGames
    Fifty = 6
    None = None
    Codes <- MCCodes
    Pieces <- MCPieces
    Starts <- MCStarts
    Boards <- MCBoards
    Paths <- MCPaths
    Searchers = {s1, s2}
    Uci = uci
    Size = 6
    MaxInits = 2
    MaxRemovals = 1
    s1 = s1
    s2 = s2
    uci = uci
CHECK_DEADLOCK FALSE
INVARIANTS DtzIsTrue RankedResultIsKept ReadsWholeTable TablesAreFound DecodesTrue IndexIsUnique
SYMMETRY SearchersAreAlike
