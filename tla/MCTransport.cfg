SPECIFICATION FairSpec
CONSTANTS
    a = a
    b = b
    Clients = {a, b}
    Ports = {"tls"}
    Port <- MCPort
    Faults <- MCFaults
    Readers = {a}
    Frames <- MCFrames
    MaxFrames <- MCMaxFrames
    ChannelSize = 1
    SocketSize = 1
    MaxReplies = 2
CHECK_DEADLOCK FALSE
INVARIANTS
    TransportTypeOK
    FramesInOrder
    OnlyReadersBlock
PROPERTIES
    InboundKept
    EverythingServed
    ConnectionsServed
