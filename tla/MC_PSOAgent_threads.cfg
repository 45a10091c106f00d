\* The PSO agent with a sink and one other neighbour heard by HELLO, the
\* periodic sweep, the main loop and ACKs, and the receiver thread's
\* events: RERRs for both neighbours (each re-runs the optimizer), RREPs
\* from the sink after an RREQ, DATA frames from node 1; an open DB
\* connection that may drop.
CONSTANTS
    Self = 4
    Peers <- MCPeers
    Sink = 0
    KnownMac <- MCKnownMac
    RerrFor <- MCPeers
    RreqTargets = {0}
    DataFrom = {1}
    FitMax = 2
    RouteTimeout = 1
    MaxTime = 1
    PacketIds = {1}
    ConnInit = {"open"}
    MaxHops = 10
    NoRoute = NoRoute
    NoPath = NoPath
    NoTime = NoTime
SPECIFICATION Spec
INVARIANT TypeOK
PROPERTY E2ESpec
\* the agent never stops; terminal states are the clock and packet-id bounds
CHECK_DEADLOCK FALSE
