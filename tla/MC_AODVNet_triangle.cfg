\* end-to-end ACK tracking over a triangle (sink in direct range)
CONSTANTS
    NoNode = NoNode
    NoRoute = NoRoute
    Bcast = Bcast
    Nodes <- MCNodes
    KnownMac <- MCNodes
    Links <- TriangleLinks
    SendTo <- ToSink
    MaxHops = 2
    RouteTimeout = 1
    E2EWindow = 1
    WaitTicks = 1
    Retries = 1
    MaxTime = 3
    MaxSeq = 2
    PacketIds = {1}
    ForeignRerr = {}
SPECIFICATION Spec
INVARIANT AckRecordedOnce
INVARIANT PendingUnacked
\* the agent never stops; terminal states are the clock and id bounds
CHECK_DEADLOCK FALSE
