SPECIFICATION FairSpec
CONSTANTS
  Width = 2
  Value = {a, b, NoValue}
  NoValue = NoValue
  MallocFails = TRUE
INVARIANTS TreeSound FindIsLongestMatch
PROPERTIES LookupsIsolated NoDeadLeaf FreedInTheEnd
