SPECIFICATION LiveSpec
CONSTANTS
    s1 = s1
    s2 = s2
    Streams <- MCStreams
    BaseDelay = 1
    MaxDelay = 4
    OfflineDelay = 2
    MaxMissed = 2
    MaxTransportErrors = 2
INVARIANTS
    NoStaleClient
    CleanExit
    RetryPaced
PROPERTIES
    FailClosed
    StopTerminates
    DeadLinkNoticed
    Reconnects
    Implements
