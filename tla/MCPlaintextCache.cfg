SPECIFICATION FairSpec
CONSTANTS
  w1 = w1
  w2 = w2
  service = service
  Worker = {w1, w2}
  Persistent = {w1}
  Main = service
  MaxRead <- Reads
  MaxLease = 4
  MaxFault = 1
INVARIANTS ReadersKeepTheirFile ReadableIsAnswered
PROPERTIES NothingReadableStays
CONSTRAINTS ThreeEvents NotSwapped
CHECK_DEADLOCK FALSE
