CONSTANTS
  Block <- MCBlock
  Null <- MCNull
  Modules <- MCModules
  Size = "dead"
SPECIFICATION FairSpec
PROPERTIES
  AlwaysTerminates
CHECK_DEADLOCK FALSE
