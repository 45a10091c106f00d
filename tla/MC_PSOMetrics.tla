----------------------------- MODULE MC_PSOMetrics ----------------------------
(* Model-checking instances of PSOMetrics: agent 4 with neighbours 0 (the *)
(* sink) and 1, as in MC_PSOAgent.                                         *)
EXTENDS PSOMetrics

MCPeers == {0, 1}

\* reported edges of the paths 4 -> 0 and 4 -> 1 -> 0; edge 4 -> 1 falls back
\* to node 1's own metrics
MCReportEdges == {<<4, 0>>, <<1, 0>>}

\* an iwconfig reading and a strong signal past the RSSI clamp
MCRawRssi == {-80, -40}

\* a sender clock ahead of ours (negative, clamped), a normal delay and a
\* frame that took 1.5 s
MCRawDelay == {-20, 30, 1500}

\* the two edge metrics of the spec's fitness example: within the ranges
\* the spec gives for an edge metric entry
InRange == {[rssi |-> -50, delay |-> 20, pdr |-> 95],
            [rssi |-> -90, delay |-> 80, pdr |-> 60]}

\* a neighbour whose clock runs half a second ahead of the sender's reports
\* a negative delay
Skewed == InRange \cup {[rssi |-> -50, delay |-> -500, pdr |-> 95]}

=============================================================================
