SPECIFICATION MCSpec
CONSTANTS
    None = None
    Apps = {a1, a2}
    a1 = a1
    Nodes <- AllNodes
    Startpos = "start"
    White <- WhiteToMove
    Legal <- LegalMoves
    Child <- Edges
    Key <- Keys
    Rank <- Ranks
    WhiteSeed <- WhiteBook
    BlackSeed <- BlackBook
    WhiteExit = "whiteExit"
    BlackExit = "blackExit"
    Plan <- Plans
    Games <- Lines
    SeedRows <- Seeds
    Cap = 3
    MinGain = 8
    MaxRegression = 12
    MaxVisits = 2
INVARIANTS AnswerIsLegal
PROPERTIES GoAnswered SameMoveForever
