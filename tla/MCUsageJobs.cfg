SPECIFICATION JFairSpec
CONSTANTS
    Token = {t1, t2}
    NoToken = NoToken
    Period = {1, 2}
    KindSets = {{"billing"}, {"price", "local"}, {"runtime", "price"}}
    MaxRows = 1
    MaxShots = 1
    MaxJobs = 2
    MaxIncidents = 1
    MaxTime = 1
INVARIANTS UsageIsOfOwner
PROPERTIES OutcomesStand LastSuccessKept CancelIsKept JobsEnd
CHECK_DEADLOCK FALSE
