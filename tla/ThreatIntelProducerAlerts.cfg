SPECIFICATION Spec
CONSTANTS
  BufferMaxLen = 2
  QueueMax = 2
  MaxCalls = 4
  PollMayRaise = FALSE
INVARIANTS
  AlertsDelayedNotLost
