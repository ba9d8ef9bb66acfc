SPECIFICATION FairSpec
CONSTANTS
    m1 = m1
    m2 = m2
    Msgs = {m1, m2}
    Reports = {m2}
    MaxStops = 2
    MaxTaps = 1
    MaxTasks = 1
    MaxPrompts = 2
    GraceHolds = TRUE
INVARIANT OneFate
INVARIANT MirrorIsQueue
INVARIANT StoppedIsOver
PROPERTY StopNotRedriven
PROPERTY Settles
CHECK_DEADLOCK FALSE
