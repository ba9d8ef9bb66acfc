SPECIFICATION Spec
CONSTANTS
    m1 = m1
    m2 = m2
    w1 = w1
    a1 = a1
    a2 = a2
    None = None
    Dead = Dead
    Broken = Broken
    Down = Down
    Cron = Cron
    Boot = Boot
    Shell = Shell
    Merges = {m1, m2}
    Work = {w1}
    Agents = {a1, a2}
    MaxFaults = 3
    Races = {}
INVARIANT OneMover
INVARIANT OneVersion
INVARIANT AppliedIsLive
PROPERTY Resolved
CHECK_DEADLOCK FALSE
