CONSTANTS
  Block <- MCBlock
  Null <- MCNull
  Modules <- MCModules
  Size = "all"
SPECIFICATION FairSpec
INVARIANTS
  NoAssertFails
  IdomIsImmediateDominator
  FrontierIsDominanceFrontier
PROPERTIES
  IdomOnlyRises
  Terminates
CHECK_DEADLOCK FALSE
