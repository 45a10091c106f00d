----------------------------- MODULE MC_AODVNet -----------------------------
(* Model-checking instances of AODVNet.                                    *)
EXTENDS AODVNet

MCNodes == {0, 1, 2}

\* line 2 - 1 - 0: the agent at 2 reaches the sink 0 only through relay 1
LineLinks == {<<0, 1>>, <<1, 0>>, <<1, 2>>, <<2, 1>>}

\* triangle: 2 also hears the sink directly, so ACKs sent straight to 2's
\* MAC arrive and the end-to-end tracker is exercised
TriangleLinks == LineLinks \cup {<<0, 2>>, <<2, 0>>}

\* the main loop of the agent at 2 calls send_data(SINK_NODE_ID = 0)
ToSink == [n \in MCNodes |-> IF n = 2 THEN 0 ELSE NoNode]

\* the sink's agent also sends to 2, so the sink learns a route to 2
BothWays == [n \in MCNodes |-> CASE n = 2 -> 0 [] n = 0 -> 2 [] OTHER -> NoNode]

\* every agent's main loop sends to the sink, as deployed
AllToSink == [n \in MCNodes |-> IF n = 0 THEN NoNode ELSE 0]

\* foreign RERRs name only the sink: the route being discovered can vanish
SinkOnly == {0}

=============================================================================
