SPECIFICATION FairSpec
CONSTANTS
  MaxMismatches = 2
  ResyncWindow = 2
  LengthTolerance = 3
  NoReg = NoReg
  RtlLogs <- MCRtlLogs
  IssLogs <- MCIssLogs
  RetryAttempts = 2
  NStages = 6
  Kind <- MCKind
  Gated = {2}
  Optional = {4}
  Namesake <- MCNamesake
CHECK_DEADLOCK FALSE
INVARIANTS VerdictMatchesFindings ManifestTells CleanExitMeansAgree
PROPERTY RunEnds
