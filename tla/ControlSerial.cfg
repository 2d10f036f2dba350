SPECIFICATION StopSpec
CONSTANTS
    r1 = r1
    r2 = r2
    g1 = g1
    g2 = g2
    NoLoop = NoLoop
    Requests = {r1}
    Loops <- MCLoops
    Overlap = FALSE
    MayPanic = FALSE
    MaySignal = FALSE
CHECK_DEADLOCK FALSE
INVARIANTS
    StopIsComplete
    PropStopped
PROPERTY StopReturns
