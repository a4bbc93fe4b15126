SPECIFICATION Spec
CONSTANTS
    bad = bad
    good = good
    x = x
    y = y
    z = z
    w = w
    p = p
    Traces <- OneTrace
    CwTraces <- NoTraces
    Span <- LateSpans
    TraceOf <- LateTraceOf
    TopSpan <- LateTopSpan
    SlowSpan <- MCSlowSpan
    ErrorSpan <- MCErrorSpan
    ProfiledSpan <- MCProfiledSpan
    Place <- MCPlace
    RootPlace <- MCRootPlace
    Answers <- MCAnswers
    Modes <- RedisMode
    ThreadCount = 2
    RetryTimes = 1
    MaxEntries = 1
INVARIANT LateSpansMerged
CHECK_DEADLOCK FALSE
