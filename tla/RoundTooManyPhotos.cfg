SPECIFICATION Spec
CONSTANTS
    ClassCnt = 2
    MaxRound = 2
    U8 = 4
    U16 = 16
    MaxPhotos = 3
    MaxQueue = 4
    FaultKinds = {}
    MAX_FAULTS = 0
    CtrlInTime = TRUE
    ImgInTime = TRUE
INVARIANTS
    InBounds
