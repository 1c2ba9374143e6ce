SPECIFICATION Spec
CONSTANTS
  Colors = {blue, red}
  NoColor = NoColor
  Gaps = {3, 10}
  MaxSamples = 10
CHECK_DEADLOCK FALSE
INVARIANT EarlySampleFails
