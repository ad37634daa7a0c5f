SPECIFICATION Spec
CONSTANTS
    BufSz = 4
    SemMax = 6
    MaxBurst = 1
    MaxExtra = 3
    QuietStart = FALSE
INVARIANTS
    ReleasesInitialisedSemaphore
