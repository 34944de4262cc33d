SPECIFICATION FairSpec
CONSTANTS
  c1 = c1
  c2 = c2
  None = None
  Client <- MCClient
  LoadKinds <- AnyLoad
  MaxSave = 3
  MaxFault = 2
INVARIANTS FilesAreWhole AckedKept PatchMadeOnCurrent RollbackPossible
PROPERTIES JournalSettled
CONSTRAINTS FewBeside
