SPECIFICATION FairSpec
CONSTANTS
    r1 = r1
    r2 = r2
    n1 = n1
    Receiver <- MCReceiver
    Node <- MCNode
    HomeOf <- MCHomeOf
    MinSample = 1
    InitSample = 2
    MaxSample = 3
    ResetPeriod = 1
    FastLimit = 2
    Caches = {TRUE, FALSE}
    RedisFails = TRUE
INVARIANTS
    InBounds
PROPERTIES
    LoweredOncePerPeriod
    Recovers
