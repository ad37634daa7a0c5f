SPECIFICATION Spec
CONSTANTS
    ClassCnt = 2
    MaxRound = 2
    U8 = 3
    U16 = 2
    MaxPhotos = 1
    MaxQueue = 2
    FaultKinds = {"sd"}
    MAX_FAULTS = 2
    CtrlInTime = FALSE
    ImgInTime = FALSE
INVARIANTS
    TypeOK
    TalliesAgree
    BuzzerSilent
