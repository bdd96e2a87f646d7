CONSTANTS
  None = None
  BitAnd <- &
  RegIndex <- MCRegIndex
  CsrAddress <- MCCsrAddress
  Records <- MCRecords
  Inputs <- FewInputs
SPECIFICATION Spec
INVARIANT RegisterDivergenceReported
CHECK_DEADLOCK FALSE
