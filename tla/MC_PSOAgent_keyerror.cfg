\* A RERR for the sink reaches the receiver thread between send_data's find_optimal_route and its routing-table read, when no neighbour is active any more.
CONSTANTS
    Self = 4
    Peers <- MCPeers
    Sink = 0
    KnownMac <- MCKnownMac
    RerrFor = {0}
    RreqTargets = {}
    DataFrom = {}
    FitMax = 2
    RouteTimeout = 1
    MaxTime = 2
    PacketIds = {1}
    ConnInit = {"open"}
    MaxHops = 10
    NoRoute = NoRoute
    NoPath = NoPath
    NoTime = NoTime
SPECIFICATION Spec
INVARIANT MainLoopAlive
\* the agent never stops; terminal states are the clock and packet-id bounds
CHECK_DEADLOCK FALSE
