---------------------------- MODULE MC_PSOAgent ----------------------------
(* Instances of PSOAgent for TLC: the agent is node 4 as in __main__, the *)
(* sink is node 0 and node 1 is the one other neighbour.                  *)
EXTENDS PSOAgent

MCPeers == {0, 1}
MCKnownMac == {0, 1, 2, 3}

\* OptPaths is computed when the model is loaded; comparing it makes TLC
\* keep it as an explicit table rather than re-evaluating it per lookup
ASSUME OptPaths = OptPaths

=============================================================================
