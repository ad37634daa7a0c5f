SPECIFICATION Spec
CONSTANTS
    Half = 3
    Counts = {0, 1, 2}
    CountSpeed = 4
    Target = 5
    IntegralLimit = 4
    KiDiv = 2
    OutMax = 8
    MaxElapsed = 2
    MaxFactor = 4
INVARIANTS
    DisplacementIsTrue
    FilterForgets
    FilterConverges
    NoWindUp
