SPECIFICATION KeepSpec
CONSTANTS
    N = 1
    Content = {c1, c2, c3}
    MaxFaults = 1
    MaxEdits = 1
    MaxCrashes = 1
    MaxPlans = 1
CHECK_DEADLOCK FALSE
PROPERTIES KeepEndsRecovery
