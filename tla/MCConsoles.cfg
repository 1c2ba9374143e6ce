SPECIFICATION ConsoleSpec
CONSTANTS
  Colors = {0, 1}
  NoColor <- HANDLE_NIL
  Sizes = {0, 1, 2, 3, 4}
  MaxSamplesRead = 3
  StreamIterations = 4
  FinalInstances = 3
  FinalIterations = 2
  FinalSamplesRead = 6
  Topics = {square}
  Gaps = {3, 8, 9, 19, 20, 30, 45}
  FilterSamples = 20
  MaxRun = 5
  LifespanSamples = 6
  Values = {0, 1, 20, 21}
  ReceiverSamples = 6
  MaxGroup = 3
  Tolerance = 0
  GroupMinimum = 1
  OrderedSamples = 5
  PerInstance = 2
  ExpectedTotal = 4
  MaxSets = 8
  MaxPasses = 8
  MaxPass = 6
INVARIANTS
  OKMeansInOrder
  NoFalseAlarm
  ConformingPasses
  FinalNoFalseAlarm
  OKMeansEnded
  FilterAlarmsJustified
  LifespanIsExact
  ReceiversAreExact
  OrderedHasEvidence
  CoherentSetsJudged
PROPERTY
  Decides
\* The functions return, both applications end.
CHECK_DEADLOCK FALSE
