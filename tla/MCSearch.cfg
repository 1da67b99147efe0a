SPECIFICATION MCSpec
CONSTANTS
    e4 = e4
    d4 = d4
    Moves = {e4, d4}
    PseudoLegal <- Branching
    Tactical <- Captures
    NoMove = NoMove
    NullMove = NullMove
    MaxPly = 3
    VerifyPlies = 2
    Keys = {0, 1, 2}
    ClusterSize = 2
    Byte = 24
    Delta = 8
    Depths = {1, 7}
    LowBits = {2, 7}
    TTMoves = {e4}
    MoveNone = NoMove
    MaxSearches = 4
    MaxWriters = 2
INVARIANTS PositionIsOfNode PvArraysLive NullMovesApart OnlyFinishedSearchesCount EntryIsOnePosition AgeIsTrue
