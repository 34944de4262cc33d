SPECIFICATION FairSpec
CONSTANTS
  m1 = m1
  m2 = m2
  r1 = r1
  r2 = r2
  None = None
  Msg <- MCMsg
  Rule <- MCRule
  Matching <- MCMatching
  MinMessages = 1
  MaxDigest = 6
  MaxFault = 2
  MaxRev = 2
  MaxTick = 1
INVARIANTS NoSilentLoss DigestedOnceOrDropped
PROPERTIES CursorMovesUnderCurrentRule CursorNeverRegresses RecordKeptUntilSettled EventuallyCovered
