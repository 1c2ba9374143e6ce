SPECIFICATION Spec
CONSTANTS
  N = 3
  Publishers <- MCOnePublisher
  Writers <- MCOnePublisher
  ExpectedLists <- MCExpectedLists
  CheckCodes <- MCCheckCodes
  MaxSamplesSaved = 2
  PipeCapacity = 2
  MayRaise <- MCAnybody
INVARIANTS
  NoEarlyStop
PROPERTIES
  FailureIsFinal
\* A process that waits for a dead one waits for ever.
CHECK_DEADLOCK FALSE
