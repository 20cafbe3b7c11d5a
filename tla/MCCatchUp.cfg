SPECIFICATION FairSpec
CONSTANTS
    writer = writer
    reader = reader
    Clients = {writer, reader}
    Names = {"x"}
    Values <- MCValues
    SubIds = {1}
    SubOptions <- Defaults
    Timestamps = {1, 2}
    MaxRequests <- LongRequests
    MaxInFlight = 1
    MaxRestarts = 0
    Requests <- MCRequests
    Listeners = 1
    OverflowChecks = TRUE
    UsizeMax = 7
    MaxFrame = 1
CHECK_DEADLOCK FALSE
PROPERTIES
    EventuallyUpToDate
