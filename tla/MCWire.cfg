CONSTANTS
    Texts <- MCTexts
    MaxRows = 2
    MaxBids = 3
    MaxShown = 2

SPECIFICATION FairSpec
CHECK_DEADLOCK FALSE

INVARIANTS
    AcceptedIsSent
    WholeIsRecognised

PROPERTIES
    ReadingEnds
