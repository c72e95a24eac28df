SPECIFICATION Spec
CONSTANTS
    Instance = {a, b}
    Secret = {k1, k2}
    NoSecret = none
    Unix = TRUE
    MaxSaves = 3
    MaxFaults = 2
    MaxCrashes = 1
    MaxEdits = 1
SYMMETRY Sym
CHECK_DEADLOCK FALSE
INVARIANTS CredentialBelongs LastGoodIsPrevious
PROPERTIES SavesExtend
