SPECIFICATION Spec
CONSTANTS
    writer = writer
    reader = reader
    Clients = {writer, reader}
    Names = {"x"}
    Values <- MCValues
    SubIds = {1}
    SubOptions <- MCSubOptions
    Timestamps = {1, 2}
    MaxRequests <- MCMaxRequests
    MaxInFlight = 2
    MaxRestarts = 0
    Requests <- MCRequests
    Listeners = 1
    OverflowChecks = TRUE
    UsizeMax = 7
    MaxFrame = 2
CHECK_DEADLOCK FALSE
INVARIANTS
    SubscribedTopicsAnnounced
    ValuesFollowAnnouncements
    CustomSubsServed
PROPERTIES
    TimestampsAdvance
    FramesLikeRuns
    StoredValuesDistributed
    QueuedUpdatesSent
