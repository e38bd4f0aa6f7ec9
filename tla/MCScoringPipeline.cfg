SPECIFICATION Spec
CONSTANTS
  Chains = {"eth", "polygon"}
  Sampled = {"polygon"}
  Stoppable = {"polygon"}
  MaxHeight <- MCHeight
  End <- MCEnd
  Sender <- MCSender
  Receiver <- MCReceiver
  Addresses = {"x", "y", "z"}
  Creates = "none"
  QueueMax = 1
  MaxErrors = 1
  Workers = {w1, w2}
  None = None
INVARIANTS
  NothingLostInQueue
  HandledIsRecorded
PROPERTIES
  DegreeFallsOnlyWhenStale
  ImplementsFeed
  QueuedIsHandled
  BlocksArePolled
CHECK_DEADLOCK FALSE
