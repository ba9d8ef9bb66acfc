SPECIFICATION FairSpec
CONSTANTS
    m1 = m1
    m2 = m2
    o1 = o1
    s1 = s1
    s2 = s2
    k1 = k1
    k2 = k2
    Messages = {m1, m2}
    Other = o1
    Stops = {s1}
    Taps = {k1}
    MaxAttempts = 2
    MaxSessions = 1
    MaxCrashes = 0
    MaxForeign = 1
    Oddities = {"partial"}
INVARIANT ClaimsAreHeld
INVARIANT OneOutcome
INVARIANT TranscriptInOrder
 
PROPERTY Resolves
CHECK_DEADLOCK FALSE
