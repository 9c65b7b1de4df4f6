SPECIFICATION FairSpec
CONSTANTS
    e1 = e1
    e2 = e2
    w1 = w1
    w2 = w2
    Event = {e1, e2}
    Worker = {w1, w2}
    LastDay = 2
    MaxAborts = 1
INVARIANT
    TypeOK
PROPERTIES
    FiguresAreFinal
    DayRolledUp
CHECK_DEADLOCK FALSE
