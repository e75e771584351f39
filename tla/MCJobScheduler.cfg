SPECIFICATION FairSpec
CONSTANTS
  p1 = p1
  p2 = p2
  Procs <- TwoProcs
  Desired <- Disagreeing
  Interval = 2
  Skew = 1
  ReconcileAttempts = 2
  MaxStarts = 2
  MaxTime = 3
PROPERTIES
  TicksExact
  DueTickFires
CHECK_DEADLOCK FALSE
