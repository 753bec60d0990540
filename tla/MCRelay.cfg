SPECIFICATION FairSpec
CONSTANTS
    BufSize = 2
    Window = 1
    MaxBytes = 2
    Faults = {"t1", "t2", "terminate"}
INVARIANTS
    TypeOK
    StreamIntact
    EofIsHonest
    EndsForCause
    NoUseAfterClose
PROPERTIES
    ImplementsStreams
    ImplementsLiveStreams
    EndedPeerLeadsToClose
