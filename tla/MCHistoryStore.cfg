SPECIFICATION Spec
CONSTANTS
  d1 = d1
  d2 = d2
  None = None
  Item <- MCItem
  Saved <- MCSaved
  MaxFault = 2
CONSTRAINT Within
INVARIANTS ListedIsKept RemovedStaysAway SavesAreSettled LeftoversCanBeSettled
CHECK_DEADLOCK FALSE
