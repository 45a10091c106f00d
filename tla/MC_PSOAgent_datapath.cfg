\* An RREP from the sink replaces the optimized route between send_data's find_optimal_route and its validate_route check.
CONSTANTS
    Self = 4
    Peers <- MCPeers
    Sink = 0
    KnownMac <- MCKnownMac
    RerrFor = {}
    RreqTargets = {0}
    DataFrom = {}
    FitMax = 2
    RouteTimeout = 1
    MaxTime = 1
    PacketIds = {1}
    ConnInit = {"open"}
    MaxHops = 10
    NoRoute = NoRoute
    NoPath = NoPath
    NoTime = NoTime
SPECIFICATION Spec
INVARIANT DataPathValid
\* the agent never stops; terminal states are the clock and packet-id bounds
CHECK_DEADLOCK FALSE
