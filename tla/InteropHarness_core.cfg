SPECIFICATION FairSpec
CONSTANTS
  N = 3
  Publishers <- MCTwoPublishers
  Writers <- MCOnePublisher
  ExpectedLists <- MCExpectedLists
  CheckCodes <- MCCheckCodes
  MaxSamplesSaved = 2
  PipeCapacity = 2
  MayRaise <- MCNobody
INVARIANTS
  TypeOK
  ReturnCodesWritten
PROPERTIES
  ImplementsTestVerdict
  Terminates
\* The test case is over once it has its verdict.
CHECK_DEADLOCK FALSE
