SPECIFICATION Spec
CONSTANTS
  Uses <- MCUses
  Programs <- MCPrograms
  Value <- MCValue
  prefix <- MCPrefix
  MaxChanges = 2
INVARIANTS ProgramIsText TreeIsTextBeforeError ZeroMeansCompiled NamesDistinct SourceKept
PROPERTY NeverGivenAgain
CHECK_DEADLOCK FALSE
