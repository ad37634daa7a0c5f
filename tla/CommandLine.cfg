SPECIFICATION Spec
CONSTANTS
    BufSz = 6
    SemMax = 10
    MaxBurst = 2
    MaxExtra = 4
    QuietStart = TRUE
INVARIANTS
    TypeOK
    NoByteStranded
