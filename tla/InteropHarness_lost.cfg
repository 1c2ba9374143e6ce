SPECIFICATION Spec
CONSTANTS
  N = 2
  Publishers <- MCOnePublisher
  Writers <- MCOnePublisher
  ExpectedLists <- MCExpectedLists
  CheckCodes <- MCCheckCodes
  MaxSamplesSaved = 2
  PipeCapacity = 2
  MayRaise <- MCAnybody
INVARIANTS
  ReturnCodesWritten
CHECK_DEADLOCK FALSE
