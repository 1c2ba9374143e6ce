SPECIFICATION Spec
CONSTANTS
  Vendors = {"connext", "intercom", "micro", "fastdds"}
  MaxFailures = 1
  DataRepr = 2
INVARIANTS
  ConformingPairPasses
  PassMeansStarted
  NeverStuck
\* A judged test case is the end.
CHECK_DEADLOCK FALSE
