SPECIFICATION FairSpec
CONSTANTS
    a1 = a1
    a2 = a2
    a3 = a3
    NoAgent = NoAgent
    Agents = {a1, a2, a3}
    MaxCalls = 4
    MaxLockQueue = 2
    MaxUpsets = 1
    LateCalls = FALSE
INVARIANT LineIsServed
 
PROPERTY SweepsTheAbsent
PROPERTY QueuedAreAnswered
CHECK_DEADLOCK FALSE
