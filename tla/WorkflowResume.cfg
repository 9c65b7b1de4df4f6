SPECIFICATION FairSpec
CONSTANTS
    start = start
    vip = vip
    greet = greet
    mark = mark
    report = report
    begin = begin
    pause = pause
    remind = remind
    w1 = w1
    w2 = w2
    x1 = x1
    x2 = x2
    x3 = x3
    NoNode = NoNode
    NoRun = NoRun
    TypeOf <- NodeTypeOf
    Target <- Targets
    Trigger <- Starts
    WakeLimit = 1
    Run = {x2}
    Worker = {w1}
    Node = {begin, pause, remind}
    MaxAborts = 0
PROPERTY
    WaitsEnd
CHECK_DEADLOCK FALSE
