SPECIFICATION FairSpec
CONSTANTS
    m1 = m1
    m2 = m2
    nothing = nothing
    home = home
    other = other
    Messages = {m1, m2}
    Nothing = nothing
    Accounts = {home, other}
    Home = home
    MaxHandoffs = 2
    MaxCrashes = 1
    MaxRetries = 1
    MaxPosts = 1
    MaxMoves = 5
    Races = {}
INVARIANT AgentsAsRecorded
INVARIANT OnePlaceInOrder
PROPERTY PointOfNoReturn
PROPERTY Settles
CHECK_DEADLOCK FALSE
