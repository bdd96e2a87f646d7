CONSTANTS
  Props = {p1}
  Workers = {skeptic, explorer, prover}
  Messages <- MCMessages
  NoBelief = NoBelief
  NoOne = NoOne
  Posts = 4
SPECIFICATION ExperimentSpec
SYMMETRY MCSymmetry
INVARIANT BeliefIsStrongest ConfluentUpToRank
PROPERTY BlameIsEarned AuthorityNeverFalls
CHECK_DEADLOCK FALSE
