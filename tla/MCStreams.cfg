SPECIFICATION LiveSpec
CONSTANTS
    k1 = k1
    q1 = q1
    q2 = q2
    None = None
    Conns <- MCConns
    Queries <- MCQueries
    MaxHandlers = 2
    MaxSessions = 2
CHECK_DEADLOCK FALSE
INVARIANTS
    CountersExact
    EndAfterData
    AnswersMatch
    DoneNeverBlocks
PROPERTIES
    LostSessionFrees
