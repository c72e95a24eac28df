SPECIFICATION CSpec
CONSTANTS
    Self = self
    Other = other
    Conn = {c1, c2}
    None = none
    DefaultProfile = default
    Profile = {profile}
    Ide = {ide}
    Byok = byok
    Cli = cli
    App = app
    Segment = {"v1", "v2", "api", "chat", "completions", "responses", "messages"}
    Body <- MCBody
    Usual <- MCUsual
    Descriptor <- MCDescriptor
    Reviewed = {"1.19.0-252"}
    Nothing = nothing
    Missing = {missing}
    Bad = {bad}
    Foreign = foreign
    Request <- MCRequest
    MaxSteps = 4
    MaxPlans = 3
    MaxChanges = 2
    MaxDocEdits = 1
    MaxMoves = 1
    MaxFails = 1
SYMMETRY Sym
CONSTRAINT Bounded
CHECK_DEADLOCK FALSE
INVARIANTS ProofsAreTrue StillRevocable EndpointKept InSyncIsTrue
PROPERTY OthersKept
