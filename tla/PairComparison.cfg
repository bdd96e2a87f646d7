CONSTANTS
  None = None
  BitAnd <- &
  RegIndex <- MCRegIndex
  CsrAddress <- MCCsrAddress
  Records <- MCRecords
  Inputs <- MCInputs
SPECIFICATION Spec
INVARIANT ContextNeverStale ReportsAreReal FormatsAgree CleanPairsAgree
CHECK_DEADLOCK FALSE
