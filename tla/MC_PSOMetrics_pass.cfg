\* fitness range over the metric store, hop_metrics reports: InRange
CONSTANTS
    Self = 4
    Peers <- MCPeers
    Cap = 2
    MinDelay = 10
    Expected = 5
    HelloCounts = {1, 6}
    RawRssi <- MCRawRssi
    RawDelay <- MCRawDelay
    DataPdr = {0, 95}
    ReportEdges <- MCReportEdges
    Reports <- InRange
    NoMetrics = NoMetrics
SPECIFICATION Spec
INVARIANT TypeOK
INVARIANT FitnessInRange
\* frames keep arriving; every state has successors
