SPECIFICATION Spec
CONSTANTS
    Instance = {a, b}
    Connection = {c1, c2}
    Target = {r, g}
    Route = {r}
    Foreign = foreign
    Unix = FALSE
    MaxPlans = 2
    MaxSaves = 0
    MaxEdits = 0
    MaxFaults = 0
    MaxRestarts = 1
SYMMETRY Sym
CHECK_DEADLOCK FALSE
INVARIANTS RemovedAfterRevocation
