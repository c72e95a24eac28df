SPECIFICATION Spec
CONSTANTS
    N = 2
    Content = {c1, c2, c3}
    MaxFaults = 1
    MaxEdits = 1
    MaxCrashes = 2
    MaxPlans = 1
SYMMETRY Sym
CHECK_DEADLOCK FALSE
INVARIANTS WriteAhead AllOrNothing
PROPERTIES LostOnlyInWindow IsAtomic
