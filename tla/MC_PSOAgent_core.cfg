\* The PSO agent with a sink and one other neighbour heard by HELLO, the
\* periodic sweep, the main loop and ACKs; an open DB connection that may
\* drop.  RREP, RERR and DATA reception are exercised by the rerr run.
CONSTANTS
    Self = 4
    Peers <- MCPeers
    Sink = 0
    KnownMac <- MCKnownMac
    RerrFor = {}
    RreqTargets = {}
    DataFrom = {}
    FitMax = 2
    RouteTimeout = 1
    MaxTime = 2
    PacketIds = {1, 2}
    ConnInit = {"open"}
    MaxHops = 10
    NoRoute = NoRoute
    NoPath = NoPath
    NoTime = NoTime
SPECIFICATION Spec
INVARIANT TypeOK
INVARIANT PendingUnacked
INVARIANT PersistedRoutesValid
\* the agent never stops; terminal states are the clock and packet-id bounds
CHECK_DEADLOCK FALSE
