SPECIFICATION FairSpec
CONSTANTS
    m1 = m1
    m2 = m2
    nothing = nothing
    home = home
    other = other
    f1 = f1
    f2 = f2
    Messages = {m1, m2}
    Nothing = nothing
    Accounts = {home, other}
    Home = home
    Files = {f1, f2}
    MaxRebinds = 1
    MaxCrashes = 1
    MaxRetries = 1
    MaxFaults = 2
    Races = {}
INVARIANT OnePlace
INVARIANT OneAccount
PROPERTY HeldOnTarget
PROPERTY Settles
CHECK_DEADLOCK FALSE
