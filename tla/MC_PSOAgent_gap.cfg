\* send_data validates the optimizer's global best for the sink (540); the
\* periodic sweep's optimization for node 1 replaces it with a fitter path;
\* send_data then returns and persists that path (543) as the sink route.
CONSTANTS
    Self = 4
    Peers <- MCPeers
    Sink = 0
    KnownMac <- MCKnownMac
    RerrFor = {}
    RreqTargets = {}
    DataFrom = {}
    FitMax = 2
    RouteTimeout = 1
    MaxTime = 1
    PacketIds = {1}
    ConnInit = {"open"}
    MaxHops = 10
    NoRoute = NoRoute
    NoPath = NoPath
    NoTime = NoTime
SPECIFICATION Spec
INVARIANT PersistedRoutesValid
\* the agent never stops; terminal states are the clock and packet-id bounds
CHECK_DEADLOCK FALSE
