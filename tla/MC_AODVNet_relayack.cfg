\* both agents send: the sink answers DATA with an ACK through the relay
CONSTANTS
    NoNode = NoNode
    NoRoute = NoRoute
    Bcast = Bcast
    Nodes <- MCNodes
    KnownMac <- MCNodes
    Links <- LineLinks
    SendTo <- BothWays
    MaxHops = 2
    RouteTimeout = 1
    E2EWindow = 1
    WaitTicks = 1
    Retries = 1
    MaxTime = 3
    MaxSeq = 2
    PacketIds = {1, 2}
    ForeignRerr = {}
SPECIFICATION Spec
INVARIANT AckOnlyBySource
CHECK_DEADLOCK FALSE
