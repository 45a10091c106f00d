\* The DB connection failed at start-up (connection is None) and send_data persists an optimized route to the sink.
CONSTANTS
    Self = 4
    Peers <- MCPeers
    Sink = 0
    KnownMac <- MCKnownMac
    RerrFor = {}
    RreqTargets = {}
    DataFrom = {}
    FitMax = 2
    RouteTimeout = 1
    MaxTime = 1
    PacketIds = {1}
    ConnInit = {"none"}
    MaxHops = 10
    NoRoute = NoRoute
    NoPath = NoPath
    NoTime = NoTime
SPECIFICATION Spec
INVARIANT MainLoopAlive
\* the agent never stops; terminal states are the clock and packet-id bounds
CHECK_DEADLOCK FALSE
