\* routing loops on the 3-node line when relays also send to the sink
CONSTANTS
    NoNode = NoNode
    NoRoute = NoRoute
    Bcast = Bcast
    Nodes <- MCNodes
    KnownMac <- MCNodes
    Links <- LineLinks
    SendTo <- AllToSink
    MaxHops = 3
    RouteTimeout = 1
    E2EWindow = 1
    WaitTicks = 1
    Retries = 1
    MaxTime = 4
    MaxSeq = 3
    PacketIds = {1}
    ForeignRerr = {}
SPECIFICATION Spec
INVARIANT LoopFree
\* the agent never stops; terminal states are the clock and id bounds
CHECK_DEADLOCK FALSE
