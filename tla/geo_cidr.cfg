SPECIFICATION FileSpec
CONSTANTS
  Width = 2
  Value = {a, b, NoValue}
  NoValue = NoValue
  MallocFails = TRUE
  Bad = Bad
SYMMETRY Symmetry
INVARIANTS LinesRespected
PROPERTIES RetryDecides
