SPECIFICATION Spec
CONSTANTS
  BufferMaxLen = 2
  QueueMax = 2
  MaxCalls = 4
  PollMayRaise = TRUE
INVARIANTS
  RecentTransactionsKept
  TransactionsAccounted
  DrainsInCallOrder
  DuplicatesOnlyAfterPollError
  HealthyCallEmptiesBuffer
PROPERTIES
  EveryCallReturns
