SPECIFICATION FairSpec
CONSTANTS
    t1 = t1
    c1 = c1
    Traces <- MCTraces
    CwTraces <- MCCwTraces
    ThreadCount = 2
    RetryTimes = 1
    CheckPeriod = 1
    MaxTime = 2
    NoTask = NoTask
INVARIANTS
    TypeOK
    TaskConserved
    DropOnlyExhausted
    FirstAttemptFIFO
PROPERTIES
    RetryAfterPeriod
    NoDueTaskLeft
    EveryTaskEnds
    ImplementsLife
