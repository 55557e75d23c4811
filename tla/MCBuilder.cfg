CONSTANTS
  Programs <- MCPrograms
  Inputs <- MCInputs
  Fuel = 8
  Pool = "all"
SPECIFICATION Spec
INVARIANTS
  ScopesAreOpenVisits
  BlocksWellFormed
  OperandsTyped
  MeaningKept
CHECK_DEADLOCK FALSE
