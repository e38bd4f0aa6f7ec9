SPECIFICATION Spec
CONSTANTS
  Unit = 20
  Wallets = {"x", "y"}
  Bridges = {"bridge"}
  Assets = {"usdc"}
  Creates = "none"
  KnownBad = {"y"}
  Chains = {"eth", "polygon"}
  Times = {1, 2, 3, 4}
  Transactions <- MCTransactions
  Scores = {0, 12}
  Loaded = {"isolation_forest", "autoencoder", "gnn", "live_model"}
  Window = 2
  VelocityLimit = 1
  FullDegree = 2
  Workers = {w1, w2}
  MaxTransactions = 3
  None = None
SYMMETRY Symmetry
INVARIANTS
  WindowIsComplete
  SignalsNeverLower
  
  JobsNeverOverstate
CHECK_DEADLOCK FALSE
