CONSTANTS
  Programs <- MCPrograms
  Inputs <- MCInputs
  Fuel = 8
  Pool = "order"
SPECIFICATION Spec
INVARIANTS
  AssignsAsDocumented
CHECK_DEADLOCK FALSE
