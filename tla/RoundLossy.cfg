SPECIFICATION Spec
CONSTANTS
    ClassCnt = 2
    MaxRound = 6
    U8 = 8
    U16 = 16
    MaxPhotos = 2
    MaxQueue = 3
    FaultKinds = {"frame", "open", "close", "reset"}
    MAX_FAULTS = 2
    CtrlInTime = TRUE
    ImgInTime = TRUE
INVARIANTS
    ReportIsInspectedPrefix
