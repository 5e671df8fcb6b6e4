SPECIFICATION FairSpec
CONSTANTS
  Node = {n1, n2, n3}
  Value = {c1, c2, c3}
  Null = Null
INVARIANTS ListSound NodesFreedOnce
PROPERTIES LoopsVisitAll LoopsEnd
