SPECIFICATION Spec
CONSTANTS
    b1 = b1
    b2 = b2
    o1 = o1
    o2 = o2
    o3 = o3
    p1 = p1
    p2 = p2
    None = None
    Launch = Launch
    Term = Term
    Names = {b1, b2}
    Objects = {o1, o2, o3}
    Callers = {p1, p2}
    MaxSessions = 1
    MaxLaunches = 3
    MaxRequests = 2
    MaxFaults = 2
    Races = {}
SYMMETRY Interchange
INVARIANT NothingLeaks
INVARIANT LoginsKept
INVARIANT ClosedIsForgotten
CHECK_DEADLOCK FALSE
