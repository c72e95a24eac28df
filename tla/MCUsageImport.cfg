SPECIFICATION Spec
CONSTANTS
    Instance = {a, b}
    Id = {x, y}
    Kinds = {"sessions", "spans"}
    Event = {"start", "usage", "bad"}
    Catalog = {c1, c2}
    None = none
    PrefixLines = 1
    BatchLines = 2
    MaxLines = 2
    MaxInodes = 2
    MaxTruncations = 1
    MaxSyncs = 2
    MaxRefreshes = 1
    MaxMishaps = 1
SYMMETRY Sym
CHECK_DEADLOCK FALSE
INVARIANTS CursorCoversRecords UsageOfItsSession
PROPERTIES PriceStands TotalsGrow
