SPECIFICATION FairSpec
CONSTANTS
    s1 = s1
    s2 = s2
    Save = {s1, s2}
    MaxIdentity = 1
    MaxMishap = 2
    Nothing = Nothing
INVARIANTS ResultsAreSafe OldIsGone
PROPERTY RequestsEnd
CHECK_DEADLOCK FALSE
