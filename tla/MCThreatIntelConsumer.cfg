SPECIFICATION Spec
CONSTANTS
  Consumers = {c1, c2}
  Partitions = {1}
  Length = 3
  NotJson <- MCNotJson
  NoOne = NoOne
  NoMessage = NoMessage
  MaxDisturbances = 2
INVARIANTS
  NoSilentLoss
  RepeatedOnlyAfterDisturbance
PROPERTIES
  EveryMessageSettled
