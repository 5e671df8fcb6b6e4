SPECIFICATION StartSpec
CONSTANTS
  Main = f1
  File = {f1, f2}
  Texts <- ShortTexts
  Missing = Missing
  MaxOpen = 3
  Ports <- SomePorts
  Privileged = TRUE
INVARIANTS StartSound FilesClosed StatusTruthful
PROPERTIES NothingAfterUnload StartEnds
