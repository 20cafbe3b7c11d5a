SPECIFICATION Spec
CONSTANTS
    a = a
    b = b
    Clients = {a, b}
    Names = {"x"}
    Values <- MCValues
    SubIds = {1}
    SubOptions <- Plain
    Timestamps = {1, 2}
    MaxRequests <- LongRequests
    MaxInFlight = 1
    MaxRestarts = 0
    Requests <- Resubscribing
    Listeners = 1
    OverflowChecks = TRUE
    UsizeMax = 7
    MaxFrame = 1
CHECK_DEADLOCK FALSE
INVARIANT
    LatestValueOnly
