CONSTANTS
  hub = hub
  s1 = s1
  s2 = s2
  skeptic = skeptic
  explorer = explorer
  tHub = tHub
  tDep = tDep
  Props = {hub, s1, s2}
  Workers = {skeptic, explorer}
  Tasks = {tHub, tDep}
  NoTask = NoTask
  NoBelief = NoBelief
  NoOne = NoOne
  Messages <- MCMessages
  Archetype <- MCArchetype
  UB <- MCUB
  MaxSteps = 6
  ExploreBudget = 2
  Boards <- AllBoards
SPECIFICATION Spec
INVARIANT BudgetAccounted ValueIsRiskRemoved NEffEarned ProofsAreGated
INVARIANT ClosedInOrder StopJustified BoundedPassesLimited MiscalibrationNeverPays
PROPERTY VerdictsAreFinal
CHECK_DEADLOCK FALSE
