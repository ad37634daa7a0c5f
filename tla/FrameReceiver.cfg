SPECIFICATION Spec
CONSTANTS
    IMAGE_SIZE = 3
    BUF_SIZE = 6
    BYTE_MAX = 3
    VAL_MAX = 2
    RAW_MAX = 5
    FRAME_HEAD = 3
    FRAME_TAIL_1 = 2
    FRAME_TAIL_2 = 1
    RawPixels = {0, 3, 5}
    MAX_FAULTS = 2
INVARIANTS
    TypeOK
    WindowBound
    CleanFrameResyncs
    Recovery
