SPECIFICATION FairSpec
CONSTANTS
  Blocks = 3
  Size = 3
  Ip = {a, b}
  Invalid = Invalid
  MallocFails = TRUE
  MaxLines = 3
  MaxMixed = 2
INVARIANTS TableSound
PROPERTIES CallsContained CallsTakeEffect CallsReturn
