SPECIFICATION Spec
CONSTANTS
  LogSize = 1
  LogNumber = 3
  Missing = Missing
  MaxLines = 14
  MaxFaults = 3
INVARIANTS InOrder FilesSound
PROPERTIES OldestDropped
