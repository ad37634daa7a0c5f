SPECIFICATION FairSpec
CONSTANTS
    TxPool = 2
    RxPool = 1
    Retries = 2
    MaxPackets = 3
    MaxSlave = 1
    MAX_ERRORS = 2
    MayTimeout = TRUE
    MayBeBusy = TRUE
INVARIANTS
    TypeOK
    SentOnceInOrder
    PoolsConserved
    OwnResponse
PROPERTIES
    EveryPacketSent
