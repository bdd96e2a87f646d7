SPECIFICATION FairSpec
CONSTANTS
  phases = phases
  s1 = s1
  s2 = s2
  a = a
  b = b
  Keys = {phases}
  Entries = {s1, s2}
  Whole = Whole
  Values = {a, b}
  NoValue = NoValue
  Updaters = {c1, d1}
  Verifiers = {h1}
  Savers = {}
  Inodes = {i1, i2, i3, i4}
  NoFile = NoFile
  Fixed = Fixed
  Torn = Torn
  NoProcess = NoProcess
  MaxCalls = 1
  Offered <- MCOffered
  Initial <- MCInitial
CHECK_DEADLOCK FALSE
INVARIANTS UpdatesKept
PROPERTIES ReadabilityKept CallsReturn ManifestIsAtomic
