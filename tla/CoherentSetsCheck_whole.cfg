SPECIFICATION Spec
CONSTANTS
  Topics = {square}
  Colors = {blue, red}
  NoColor = NoColor
  PerInstance = 2
  ExpectedTotal = 4
  MaxSets = 9
  MaxPasses = 9
  MaxPass = 8
CHECK_DEADLOCK FALSE
INVARIANT WholeSetsAccepted
