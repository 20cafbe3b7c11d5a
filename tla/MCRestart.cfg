SPECIFICATION Spec
CONSTANTS
    c1 = c1
    c2 = c2
    Clients = {c1, c2}
    Names = {"x"}
    Values <- MCValues
    SubIds = {}
    SubOptions = {}
    Timestamps = {1}
    MaxRequests <- MCMaxRequests
    MaxInFlight = 1
    MaxRestarts = 2
    Requests <- MCRequests
    Listeners = 1
    OverflowChecks = FALSE
    UsizeMax = 7
    MaxFrame = 1
CHECK_DEADLOCK FALSE
INVARIANTS
    PublishersCounted
PROPERTIES
    TopicsStayWhileWanted
    StableTopicsSurvive
