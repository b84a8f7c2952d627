CONSTANTS
    Uploads <- MCUploads
    Downloads <- MCDownloads
    Names = {"photo"}
    Ids = {1, 2}
    SocketBuffer = 1
    MaxBoots = 2
    MaxStuck = 1
    NoFile = NoFile
    NoId = NoId
    NoSize = NoSize
    Hole = Hole
    Delimiter = Delimiter

SPECIFICATION FairSpec
CHECK_DEADLOCK FALSE

CONSTRAINT
    MCScenarios

INVARIANTS
    TypeOK
    UncrossedIsWhole
    LostToAnother
    ReceivedIsWhole

PROPERTIES
    UncrossedIsFinal
    TransfersEnd
