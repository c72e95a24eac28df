SPECIFICATION Spec
CONSTANTS
    Instance = {a, b}
    Record = {m1, m2, k}
    Mcp = {m1, m2}
    Skill = {k}
    Target = {cli, shared}
    Shared = shared
    Foreign = foreign
    Nobody = nobody
    Unix = TRUE
    MaxActive = 3
    MaxTombs = 1
    MaxPlans = 2
    MaxSaves = 1
    MaxEdits = 1
    MaxFaults = 1
    MaxRestarts = 1
SYMMETRY Sym
CONSTRAINT Bounded
CHECK_DEADLOCK FALSE
INVARIANTS BindingsAreTrue RecoveryKnowsTheFiles
PROPERTIES OnlyTheReviewedEntry
