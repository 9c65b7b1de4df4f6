SPECIFICATION Spec
CONSTANTS
    e1 = e1
    e2 = e2
    w1 = w1
    w2 = w2
    Event = {e1}
    Worker = {w1}
    LastDay = 1
    MaxAborts = 0
INVARIANT
    MetricsComplete
CHECK_DEADLOCK FALSE
