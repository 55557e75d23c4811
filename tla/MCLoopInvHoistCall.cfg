CONSTANTS
  Block <- MCBlock
  Graphs <- MCGraphs
  Functions <- MCFunctions
  NoBlock <- MCNoBlock
  Inputs <- MCInputs
  Width = 4
  Precision = 2
  PathBound = 9
  Programs = "call"
SPECIFICATION Spec
INVARIANTS
  ShowsTheSame
CHECK_DEADLOCK FALSE
