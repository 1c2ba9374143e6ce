SPECIFICATION Spec
CONSTANTS
  Pairs = {1, 2, 3}
  MaxJobs = 2
  PairRetries = 1
  ReportsMayFail = TRUE
  Networks = 1
  Runs = 1
  RunRetries = 1
INVARIANTS
  SlotsKept
  ZeroMeansCovered
  ResultsOnce
  SuccessIsComparable
PROPERTIES
  BenchmarkEnds
\* The benchmark ends.
CHECK_DEADLOCK FALSE
