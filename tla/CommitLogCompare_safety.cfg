CONSTANTS
  Entries <- MCEntries
  Issues <- MCIssues
  Configs <- MCConfigs
  MaxLen = 2
  Depth = 1
  Bad = Bad
  Broken = Broken
  Sentinel = Sentinel
  None = None
SPECIFICATION FairSpec
INVARIANT PassMeansEqual DeadReaderNotEof WithinLimit
PROPERTY ContractHolds Returns
