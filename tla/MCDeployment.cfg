SPECIFICATION Spec
CONSTANTS
    Instance = {a, b}
    Connection = {c1, c2}
    Target = {r, g}
    Route = {r}
    Foreign = foreign
    Unix = TRUE
    MaxPlans = 2
    MaxSaves = 1
    MaxEdits = 1
    MaxFaults = 1
    MaxRestarts = 1
SYMMETRY Sym
VIEW View
CONSTRAINT Bounded
CHECK_DEADLOCK FALSE
INVARIANTS WritesOnce OwnershipIsTrue ProofsAreSound
PROPERTIES BeginsAsReviewed PendingJournalBlocks
