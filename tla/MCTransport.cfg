SPECIFICATION Spec
CONSTANTS
    Modes <- MCModes
    CacheMax = 2
    MaxAttempts = 2
    Allowed <- MCAllowed
CHECK_DEADLOCK FALSE
INVARIANTS
    TypeOK
    NoConnLeak
    BannerKept
    EvictedStaysAway
