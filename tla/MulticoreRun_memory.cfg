SPECIFICATION Spec
CONSTANTS
  None = None
  Cores = {0, 1, 2}
  Addrs = {"x", "y"}
  Programs <- MCPrograms
  Hardware <- MCHardware
INVARIANTS
  NoFalseAlarm
  VerdictIsExact
  CoherentMeansPerLocation
CHECK_DEADLOCK FALSE
