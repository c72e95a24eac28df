SPECIFICATION LSpec
CONSTANTS
    app = app  cli = cli  i1 = i1 i2 = i2  r1 = r1  r2 = r2  u1 = u1  ide = ide
    Instance = {i1, i2}
    RunId = {r1, r2}
    Surface = {cli, app, ide}
    Cli = cli
    Guided = {ide}
    Focused = {app}
    Standard = {cli, app}
    Requests = {{}, {cli, ide}}
    Account = {u1}
    Nobody = nobody
    Life = 1
    MaxPending = 1
    Unix = TRUE
    Window = 1
    Recent = 0
    MaxRuns = 1
    MaxTime = 1
    MaxFollowUps = 2
    MaxFaults = 1
    MaxCrashes = 1
    MaxPreviews = 2
INVARIANTS ShownWasObserved OpensOnceAsReviewed OpenedIsRecorded
PROPERTIES FinalRunsStand
SYMMETRY Sym
CONSTRAINT Bounded
CHECK_DEADLOCK FALSE
