\* window PDR after an ACK that arrives later than the window
CONSTANTS
    NoNode = NoNode
    NoRoute = NoRoute
    Bcast = Bcast
    Nodes <- MCNodes
    KnownMac <- MCNodes
    Links <- TriangleLinks
    SendTo <- ToSink
    MaxHops = 2
    RouteTimeout = 1
    E2EWindow = 1
    WaitTicks = 1
    Retries = 1
    MaxTime = 3
    MaxSeq = 2
    PacketIds = {1, 2}
    ForeignRerr = {}
SPECIFICATION Spec
PROPERTY WindowPdrFullOnlyIfAllAcked
CHECK_DEADLOCK FALSE
