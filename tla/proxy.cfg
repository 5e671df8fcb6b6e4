SPECIFICATION Spec
CONSTANTS
  Query = {q1, q2, q3}
  Cell = {c1, c2}
  Fd = {f1, f2}
  Port = {p1, p2}
  MaxRx = 2
  MaxEvents = 2
  Interval = 2
  CronInterval = 1
  ReadTimeout = 3
  StartTime = 2
  MaxTime = 6
  MaxReplies = 2
  BackSteps <- StepBack
  Faults <- CallFaults
  Nil = Nil
  Listen = Listen
  Stray = Stray
SYMMETRY Symmetry
INVARIANTS TypeOK ReportedAlive ListenNeverBlocks AnsweredOnce
PROPERTIES HandlersKeepBatch ClockFresh ImplementsRelay
