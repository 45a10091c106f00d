\* route entries installed from a direct RREP (spec 3 and 8 on path shape)
CONSTANTS
    NoNode = NoNode
    NoRoute = NoRoute
    Bcast = Bcast
    Nodes <- MCNodes
    KnownMac <- MCNodes
    Links <- LineLinks
    SendTo <- ToSink
    MaxHops = 2
    RouteTimeout = 1
    E2EWindow = 1
    WaitTicks = 1
    Retries = 1
    MaxTime = 3
    MaxSeq = 2
    PacketIds = {1}
    ForeignRerr = {}
SPECIFICATION Spec
INVARIANT RouteEntryWellFormed
CHECK_DEADLOCK FALSE
