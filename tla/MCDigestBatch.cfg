SPECIFICATION FairSpec
CONSTANTS
  Batch = {b1, b2}
  Save = {s1}
  MaxRev = 1
  None = None
CONSTRAINTS OneStart OneDisturbance
INVARIANTS IndInv
PROPERTIES HardCancelStopsSaves AbandonedBatchesEnd ShutdownDrains
CHECK_DEADLOCK FALSE
