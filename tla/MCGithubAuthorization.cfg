SPECIFICATION Spec
CONSTANTS
    Instance = {a, b}
    Token = {t1, t2}
    NoToken = none
    Response <- MCResponse
    MaxRequests = 3
    MaxFaults = 2
    MaxRestarts = 1
SYMMETRY Sym
CONSTRAINT Bounded
CHECK_DEADLOCK FALSE
INVARIANTS StatusIsOfToken
PROPERTIES LatestStartedWins DamagedIsKept
