CONSTANTS
  Block <- MCBlock
  Functions <- MCFunctions
  Inputs <- MCInputs
  Width = 4
  Precision = 2
  PathBound = 5
  Programs = "called"
SPECIFICATION Spec
INVARIANTS
  GlobalsAreContents
CHECK_DEADLOCK FALSE
