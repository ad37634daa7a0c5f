SPECIFICATION FairLine
CONSTANTS
    HoldOff = 2
    Slip = 1
    MaxCount = 2
    MaxPhotos = 2
    MaxRx = 4
    MaxOut = 2
    MAX_RESTARTS = 1
    BoardInTime = TRUE
    Length = 1
    Defects = {0}
    Keys = {"b", "s", "u", "o", "jog"}
    MaxBegins = 2
    MAX_GLITCHES = 1
INVARIANTS
    TypeOK
    RoundStartsClean
    HoldOffLasts
    PicturesAreOfThisRound
    NoPhantomRound
    WebStandsStill
    NoFalseEnd
PROPERTIES
    BehavesAsBatchSender
    BeginLeadsToReport
