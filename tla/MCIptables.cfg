SPECIFICATION Spec
CONSTANTS
    OwnIfaces <- MCOwnIfaces
    UserConfigs <- MCConfigs
    MaxFailures = 2
INVARIANTS
    TypeOK
    CarrierExempt
    AppliedExactly
    StopLeavesNothing
    NoRedirectAfterClean
