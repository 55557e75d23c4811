CONSTANTS
  Block <- MCBlock
  Value <- MCValue
  Literal <- MCLiteral
  NoValue <- MCNoValue
  True <- MCTrue
  False <- MCFalse
  Functions <- MCFunctions
  PathBound = 10
SPECIFICATION Spec
INVARIANTS
  TypeOK
  EdgesMatchTerminators
  PhisMatchPredecessors
  UseListsExact
  MeaningKept
  FailsOnlyStaleOrUnreached
CHECK_DEADLOCK FALSE
