SPECIFICATION Spec
CONSTANTS
  r1 = r1
  r2 = r2
  Replicas <- MCReplicas
  MaxTokens = 4
  Second = 2
  AccessLife = 2
  RefreshLife = 3
  DevLife = 3
  Development = TRUE
  Limit = 2
  Window = 3
  MaxClock = 7
  MaxMoves = 1
  MaxRequests = 3
  MaxRestarts = 1
CONSTRAINT MCScenario
SYMMETRY MCSymmetry
INVARIANTS  SessionEnds NoBurst DeniedOnlyWhenFull
