SPECIFICATION Spec
CONSTANTS
    r1 = r1
    r2 = r2
    g1 = g1
    g2 = g2
    NoLoop = NoLoop
    Requests <- MCRequests
    Loops <- MCLoops
    Overlap = TRUE
    MayPanic = FALSE
    MaySignal = FALSE
SYMMETRY Symmetry
VIEW ControlView
CHECK_DEADLOCK FALSE
INVARIANT RunningStaysRouted
