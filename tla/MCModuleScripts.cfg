SPECIFICATION LiveSpec
CONSTANTS
    d1 = d1
    d2 = d2
    w1 = w1
    w2 = w2
    None = None
    Daemons <- MCDaemons
    Watchdogs <- MCWatchdogs
    ApiFailLimit = 2
    UserCommands <- MCCommands
INVARIANTS
    StopStops
    EnabledIsWatched
PROPERTIES
    CrashRecovered
