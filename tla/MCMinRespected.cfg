SPECIFICATION PunctualSpec
CONSTANTS
    r1 = r1
    r2 = r2
    n1 = n1
    Receiver <- MCReceiver
    Node <- MCNode
    HomeOf <- MCHomeOf
    MinSample = 1
    InitSample = 2
    MaxSample = 3
    ResetPeriod = 3
    FastLimit = 2
    Caches = {FALSE}
    RedisFails = FALSE
INVARIANT MinRespected
