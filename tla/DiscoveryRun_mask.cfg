SPECIFICATION Spec
CONSTANTS
  Stamps = {1, 2}
  Pairs <- MCPairs
  TestSuite <- MCTestSuite
  SPDP <- MCSPDP
  Packets <- MCPackets
  Selections <- MCSelections
  MaxPackets = 3
  MaxRuns = 2
  MaxKills = 1
INVARIANT
  ZeroMaskFails
