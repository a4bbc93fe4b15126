SPECIFICATION Spec
CONSTANTS
    r1 = r1
    r2 = r2
    t1 = t1
    top = top
    a = a
    b = b
    Receiver <- MCReceiver
    Trace <- MCTrace
    Span <- MCSpan
    TopSpan <- MCTopSpan
    SlowSpan <- MCSlowSpan
    TraceOf <- MCTraceOf
    Modes <- BothModes
    DelayPeriod = 1
    MinuteDelay = 2
    MissTopTime = 1
    CallTime = 1
    ArriveUntil = 1
    MaxTime = 4
    Unset = Unset
    Top = Top
SYMMETRY ReceiverSymmetry
INVARIANTS
    TypeOK
    NotifyBound
    ForgottenOnlyIfCrowded
PROPERTY WaitRespected
