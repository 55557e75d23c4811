CONSTANTS
  Block <- MCBlock
  Graphs <- MCGraphs
  Functions <- MCFunctions
  NoBlock <- MCNoBlock
  Inputs <- MCInputs
  Width = 4
  Precision = 2
  PathBound = 9
  Programs = "all"
SPECIFICATION Spec
INVARIANTS
  ComponentsFound
  LoopsAreNaturalLoops
  ParentIsEnclosing
  CrashesOnlyOnDeadOrEntryLoop
  DefinedBeforeUse
  MeaningKept
  ReadyIsHoisted
CHECK_DEADLOCK FALSE
