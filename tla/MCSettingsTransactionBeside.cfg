SPECIFICATION Spec
CONSTANTS
  c1 = c1
  c2 = c2
  None = None
  Client <- MCClient
  LoadKinds <- AnyLoad
  MaxSave = 1
  MaxFault = 0
INVARIANTS ConfirmedSavesStay
