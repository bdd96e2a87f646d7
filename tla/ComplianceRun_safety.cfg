SPECIFICATION FairSpec
CONSTANTS
  NoFile = NoFile
  Files <- MCFiles
  NTests = 2
  Upstream = {1}
  Versions = {1, 2}
  NoElf = NoElf
  Torn = Torn
  BuildWorkers = 2
  RunWorkers = 2
  Attempts = 2
  MaxRuns = 4
CHECK_DEADLOCK FALSE
INVARIANTS VerdictOfCurrentSource ExitAgreesWithManifest ManifestNeverAhead
PROPERTY RunReturns
