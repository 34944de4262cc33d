SPECIFICATION FairSpec
CONSTANTS
  MaxUser = 3
  MaxFault = 3
INVARIANTS OneRun TimerSound
PROPERTIES StopLeavesNothing KeepsWaking ShutdownQuiesces
CHECK_DEADLOCK FALSE
