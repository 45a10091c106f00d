\* discover_route and the end-to-end ACK tracker over a triangle (the sink in
\* direct range) with MAX_HOPS = 1: every call returns (weak fairness of the
\* main thread and the clock), the main thread refines DiscoveryContract, the
\* relay may not rebroadcast an RREQ whose ttl is spent, and duplicated ACKs
\* are accounted once
CONSTANTS
    NoNode = NoNode
    NoRoute = NoRoute
    Bcast = Bcast
    Nodes <- MCNodes
    KnownMac <- MCNodes
    Links <- TriangleLinks
    SendTo <- ToSink
    MaxHops = 1
    RouteTimeout = 1
    E2EWindow = 1
    WaitTicks = 1
    Retries = 1
    MaxTime = 3
    MaxSeq = 3
    PacketIds = {1}
    ForeignRerr <- SinkOnly
SPECIFICATION FairSpec
INVARIANT TypeOK
INVARIANT AckRecordedOnce
INVARIANT PendingUnacked
PROPERTY DiscoveryReturns
PROPERTY ContractSpec
\* the agent never stops; terminal states are the clock and id bounds
CHECK_DEADLOCK FALSE
