SPECIFICATION FairSpec
CONSTANTS
  c1 = c1
  c2 = c2
  c3 = c3
  p = p
  q = q
  r = r
  None = None
  MaxRetry = 2
  Ctx <- MCCtx
  Process <- MCProcess
  ProcOf <- Apart
INVARIANTS MutualExclusion
PROPERTIES ImplementsMutex DeadOwnerRemoved
CHECK_DEADLOCK FALSE
