\* The PSO agent under receiver-thread events: RERRs for both neighbours
\* (each re-runs the optimizer), RREPs from the sink after an RREQ, DATA
\* frames from node 1, with the periodic sweep and the main loop running.
CONSTANTS
    Self = 4
    Peers <- MCPeers
    Sink = 0
    KnownMac <- MCKnownMac
    RerrFor <- MCPeers
    RreqTargets = {0}
    DataFrom = {1}
    FitMax = 2
    RouteTimeout = 1
    MaxTime = 2
    PacketIds = {1}
    ConnInit = {"open"}
    MaxHops = 10
    NoRoute = NoRoute
    NoPath = NoPath
    NoTime = NoTime
SPECIFICATION Spec
INVARIANT PersistedRoutesValid
\* the agent never stops; terminal states are the clock and packet-id bounds
CHECK_DEADLOCK FALSE
