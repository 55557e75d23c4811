CONSTANTS
  Block <- MCBlock
  Functions <- MCFunctions
  Inputs <- MCInputs
  Width = 4
  Precision = 2
  PathBound = 5
  Programs = "all"
SPECIFICATION Spec
INVARIANTS
  TablesAreContents
  MeaningKept
  CrashIsUndefined
CHECK_DEADLOCK FALSE
