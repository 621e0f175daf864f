SPECIFICATION FairSpec
CONSTANTS
    Phase = 2
    N = 4
INVARIANTS
    TypeOK
    AllCalledOrNone
    BlameIsDeserved
PROPERTY ClientClosedAtLast
CHECK_DEADLOCK FALSE
