SPECIFICATION FairSpec
CONSTANTS
  RootList <- RootMoveList
  Rank <- Ranks
  Values <- Scores
  Inf = 8
  LossAt <- MatedAt
  MultiPV = 2
  Delta = 3
  SkillDepth = 1
  MaxDepth = 2
CHECK_DEADLOCK FALSE
INVARIANTS LossIsProven
PROPERTIES LineEnds
