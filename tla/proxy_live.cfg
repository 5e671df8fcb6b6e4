SPECIFICATION FairSpec
CONSTANTS
  Query = {q1, q2}
  Cell = {c1, c2, c3}
  Fd = {f1, f2}
  Port = {p1, p2}
  MaxRx = 1
  MaxEvents = 512
  Interval = 1
  CronInterval = 1
  ReadTimeout = 3
  StartTime = 2
  MaxTime = 4
  MaxReplies = 2
  BackSteps <- NoSteps
  Faults <- LossFaults
  Nil = Nil
  Listen = Listen
  Stray = Stray
PROPERTIES DatagramsRead
