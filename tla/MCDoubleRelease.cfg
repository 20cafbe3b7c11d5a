SPECIFICATION Spec
CONSTANTS
    a = a
    b = b
    Clients = {a, b}
    Names = {"x"}
    Values <- MCValues
    SubIds = {1, 2}
    SubOptions <- MCSubOptions
    Timestamps = {1, 2}
    MaxRequests <- MCMaxRequests
    MaxInFlight = 1
    MaxRestarts = 0
    Requests <- Releasing
    Listeners = 1
    OverflowChecks = TRUE
    UsizeMax = 7
    MaxFrame = 1
CHECK_DEADLOCK FALSE
PROPERTY
    PublishedTopicsStay
