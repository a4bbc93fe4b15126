SPECIFICATION Spec
CONSTANTS
    bad = bad
    good = good
    x = x
    y = y
    z = z
    w = w
    p = p
    Traces <- MCTraces
    CwTraces <- MCCwTraces
    Span <- MCSpan
    TraceOf <- MCTraceOf
    TopSpan <- MCTopSpan
    SlowSpan <- MCSlowSpan
    ErrorSpan <- MCErrorSpan
    ProfiledSpan <- MCProfiledSpan
    Place <- MCPlace
    RootPlace <- MCRootPlace
    Answers <- MCAnswers
    Modes <- MCModes
    ThreadCount = 2
    RetryTimes = 1
    MaxEntries = 1
INVARIANTS
    StoredOnce
    RowsHaveTraces
    RelationBound
    OneVerdict
    NormalSampled
CHECK_DEADLOCK FALSE
