\* send_data optimizes the route to the sink; the periodic sweep then commits the global best left over from it as the route to node 1.
CONSTANTS
    Self = 4
    Peers <- MCPeers
    Sink = 0
    KnownMac <- MCKnownMac
    RerrFor = {}
    RreqTargets = {}
    DataFrom = {}
    FitMax = 2
    RouteTimeout = 1
    MaxTime = 1
    PacketIds = {1}
    ConnInit = {"open"}
    MaxHops = 10
    NoRoute = NoRoute
    NoPath = NoPath
    NoTime = NoTime
SPECIFICATION Spec
INVARIANT RouteEndsAtDest
\* the agent never stops; terminal states are the clock and packet-id bounds
CHECK_DEADLOCK FALSE
