SPECIFICATION FairSpec
CONSTANTS
    Handles = {h1, h2, h3, h4, h5}
    Clients = {c1, c2, c3}
    NoSocket = NoSocket
    NoClient = NoClient
    MayThrow = TRUE
INVARIANTS
    TypeOK
    HandlesAccounted
    HandlesExclusive
    CleanExit
PROPERTY QueuedIsAnswered
