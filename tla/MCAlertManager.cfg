SPECIFICATION Spec
CONSTANTS
  Addresses = {a1, a2, a3, a4}
  MaxAlerts = 2
  Tiers <- MCTiers
  Raws <- MCRaws
  MaxReports = 6
  MaxHours = 3
  NoAlert = NoAlert
SYMMETRY Symmetry
INVARIANTS
  DedupAccounted
PROPERTIES
  EvictionOrder
CHECK_DEADLOCK FALSE
