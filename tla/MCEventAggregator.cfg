SPECIFICATION FairSpec
CONSTANTS
    Keys = {k1, k2}
    NoKey = NoKey
    Callbacks = {cb1, cb2}
    NoThread = NoThread
    MaxEvents = 3
    MayThrow = TRUE
INVARIANTS
    TypeOK
    CountsExact
    NothingLost
    CacheSingleThreaded
    FinalReportComplete
PROPERTIES
    ImplementsLedger
    EventsReported
    StopEnds
