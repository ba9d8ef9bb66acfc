SPECIFICATION FairSpec
CONSTANTS
    m1 = m1
    m2 = m2
    c1 = c1
    f1 = f1
    t1 = t1
    t2 = t2
    t3 = t3
    Messages = {m1, m2}
    Combined = {c1}
    Foreign = {}
    Turns = {t1, t2, t3}
    MaxStops = 1
    NoId = NoId
    NoTurn = NoTurn
    Refusable = {m1, m2, c1}
    Races = {}
    TurnFrames = TRUE
PROPERTY Resolves
CHECK_DEADLOCK FALSE
