SPECIFICATION Spec
CONSTANTS
  Main = f1
  File = {f1, f2}
  Texts <- ShortTexts
  Missing = Missing
  MaxOpen = 3
INVARIANTS ModeKnown
