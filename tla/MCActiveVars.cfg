CONSTANTS
  Block <- MCBlock
  Var <- MCVar
  Literal <- MCLiteral
  Callee <- MCCallee
  NoValue <- MCNoValue
  Modules <- MCModules
SPECIFICATION FairSpec
INVARIANTS
  PrintedIsLiveness
PROPERTIES
  ImplementsLiveVariables
  Terminates
CHECK_DEADLOCK FALSE
