SPECIFICATION FairSpec
CONSTANTS
    ClassCnt = 2
    MaxRound = 3
    U8 = 4
    U16 = 16
    MaxPhotos = 3
    MaxQueue = 4
    FaultKinds = {"net"}
    MAX_FAULTS = 0
    CtrlInTime = TRUE
    ImgInTime = TRUE
INVARIANTS
    CloudAgrees
PROPERTIES
    ImplementsService
    RoundCompletes
