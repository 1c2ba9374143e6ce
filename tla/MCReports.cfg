SPECIFICATION ReportsSpec
CONSTANTS
  Stamps = {1, 2}
  Pairs <- MCPairs
  TestSuite <- MCTestSuite
  SPDP <- MCSPDP
  Packets <- MCPackets
  Selections <- MCSelections
  MaxPackets = 3
  MaxRuns = 2
  MaxKills = 1
  ReportNames <- MCNames
  Contents <- MCContents
  Batches <- MCBatches
  SuiteRuns <- MCSuiteRuns
  MaxCases = 8
  Folders = {1, 2}
  Root = 1
  PageSize = 2
  MaxItems = 5
INVARIANTS
  TypeOK
  ArrivalOrderIrrelevant
  BlameIsJust
  DiscoveryReportsAgree
  AllOrNothing
  InteropResultsKept
  BrokenStays
  CountedAsJudged
  ViewsAgree
  Chronological
  WorkbookAgrees
  CompleteIsAligned
  OnePageFindsLatest
  KnownProductsSuffice
PROPERTY
  ScriptEnds
