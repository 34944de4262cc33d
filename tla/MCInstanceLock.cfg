SPECIFICATION InstanceSpec
CONSTANTS
  p1 = p1
  p2 = p2
  p3 = p3
  Proc <- MCProc
  NoLock = NoLock
  MaxBeat = 1
SYMMETRY ProcSymmetry
CHECK_DEADLOCK FALSE
INVARIANTS HeldUnlessRaced NoFalseRefusal
