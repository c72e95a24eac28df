SPECIFICATION FairSpec
CONSTANTS
    Component = {1, 2}
    Extension = {2}
    Host = 1
    MaxHistory = 1
    MaxPlans = 2
    MaxChanges = 1
    MaxMishaps = 2
INVARIANTS Prepared
PROPERTIES HistoryStands RunEnds
CHECK_DEADLOCK FALSE
