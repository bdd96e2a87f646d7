SPECIFICATION Spec
CONSTANTS
  None = None
  All = All
  Amos <- MCAmos
  Window = 2
  Asids <- MCAsids
  Root <- MCRoot
  Pages <- MCPages
  Frames <- MCFrames
  Images <- MCImages
  Ptes <- MCPtes
  Accesses <- MCAccesses
  Words = {4, 8}
  Halves <- MCHalves
  Immediates = {1, 2}
  MaxRecords <- MCMaxRecords
INVARIANTS
  CorrectHartCleared
  StaleNeverMissed
  SilenceMeansSequential
CHECK_DEADLOCK FALSE
