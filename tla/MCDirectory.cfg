SPECIFICATION Spec
CONSTANTS
    c1 = c1
    c2 = c2
    Clients = {c1, c2}
    Names = {"x"}
    Values <- MCValues
    SubIds = {}
    SubOptions = {}
    Timestamps = {1}
    MaxRequests <- MCMaxRequests
    MaxInFlight = 2
    MaxRestarts = 0
    Requests <- MCRequests
    Listeners = 2
    OverflowChecks = TRUE
    UsizeMax = 7
    MaxFrame = 1
SYMMETRY Symmetry
CHECK_DEADLOCK FALSE
INVARIANTS
    TypeOK
    CountsMatchEntries
    AnnouncedMatchEntries
    IdsFresh
    ViewsCatchUp
    RequestsReachTheirTopic
PROPERTIES
    IdsNeverReused
    DirectoryKept
