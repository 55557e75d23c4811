CONSTANTS
  Block <- MCBlock
  Var <- MCVar
  Memory <- MCMemory
  Value <- MCValue
  Literal <- MCLiteral
  NoLoc = "none"
  NoId <- MCNoId
  PhiId <- MCPhiId
  Functions <- MCFunctions
  PathBound = 9
SPECIFICATION Spec
INVARIANTS
  MeaningKept
  SSAForm
  UsesLeft
  PhisMatchPredecessors
  StacksAreOpenCalls
  FailsOnlyUnassigned
CHECK_DEADLOCK FALSE
