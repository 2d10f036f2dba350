SPECIFICATION Spec
CONSTANTS
    a = a
    b = b
    p1 = p1
    p2 = p2
    Names <- MCNames
    MaxProfiles = 3
    Patches <- MCPatches
    MaxRequests = 6
CHECK_DEADLOCK FALSE
INVARIANTS
    SelectionCoherent
    ConfigWhole
    PatchesLand
PROPERTIES
    SelectionStable
