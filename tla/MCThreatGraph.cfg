SPECIFICATION MCSpec
CONSTANTS
  Addresses = {a1, a2, a3, a4}
  NoWallet = NoWallet
  Times = {1, 2, 3}
  Window = 2
  Scores = {400, 800}
  InputLists <- MCInputLists
  MaxTurns = 16
  MaxTransactions = 4
  MaxMarks = 3
SYMMETRY Symmetry
INVARIANTS
  PathsAreComplete
  PeelBackIsConverse
  ClustersAreCommonOwnership
  RiskHasSource
CHECK_DEADLOCK FALSE
