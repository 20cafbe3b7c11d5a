SPECIFICATION FairSpec
CONSTANTS
    writer = writer
    reader = reader
    Clients = {writer, reader}
    Names = {"x"}
    Values <- MCValues
    SubIds = {1}
    SubOptions <- Periods
    Timestamps = {1, 2}
    MaxRequests <- ShortRequests
    MaxInFlight = 1
    MaxRestarts = 0
    Requests <- MCRequests
    Listeners = 1
    OverflowChecks = TRUE
    UsizeMax = 7
    MaxFrame = 1
CHECK_DEADLOCK FALSE
PROPERTIES
    QueuesDrain
    StoppedLoopsEnd
