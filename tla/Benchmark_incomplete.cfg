SPECIFICATION Spec
CONSTANTS
  Pairs = {1, 2}
  MaxJobs = 2
  PairRetries = 1
  ReportsMayFail = FALSE
  Networks = 1
  Runs = 1
  RunRetries = 1
PROPERTY
  IncompleteIsThree
\* The benchmark ends.
CHECK_DEADLOCK FALSE
