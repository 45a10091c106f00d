\* TTL exhaustion: with MAX_HOPS = 1 the relay may not rebroadcast the RREQ
CONSTANTS
    NoNode = NoNode
    NoRoute = NoRoute
    Bcast = Bcast
    Nodes <- MCNodes
    KnownMac <- MCNodes
    Links <- LineLinks
    SendTo <- ToSink
    MaxHops = 1
    RouteTimeout = 1
    E2EWindow = 1
    WaitTicks = 1
    Retries = 1
    MaxTime = 3
    MaxSeq = 2
    PacketIds = {1, 2}
    ForeignRerr <- MCNodes
SPECIFICATION Spec
INVARIANT TypeOK
\* the agent never stops; terminal states are the clock and id bounds
CHECK_DEADLOCK FALSE
