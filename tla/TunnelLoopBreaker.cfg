SPECIFICATION Spec
CONSTANTS
    s1 = s1
    s2 = s2
    Streams <- MCStreams
    BaseDelay = 1
    MaxDelay = 30
    OfflineDelay = 5
    MaxMissed = 3
    MaxTransportErrors = 2
PROPERTY BreakerBlamesOwnSession
