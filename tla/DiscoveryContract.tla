-------------------------- MODULE DiscoveryContract --------------------------
(***************************************************************************)
(* What discover_route(dest, wait, retries) promises to its caller         *)
(* send_data, per node, seen from the main thread: a call returns at once  *)
(* with success when a valid route is known; otherwise it issues up to     *)
(* retries + 1 RREQs and returns success as soon as a valid route appears, *)
(* or, after the last wait, whether one is valid then.  The result is      *)
(* consumed by the rest of send_data before the next call.                 *)
(*                                                                         *)
(* The routing table is the environment: `valid[n]` is the set of          *)
(* destinations n holds a valid route to, and any step of the receiver    *)
(* thread or of the clock may change it.                                   *)
(***************************************************************************)
EXTENDS Naturals

CONSTANTS
    Nodes,      \* the callers
    Target,     \* Target[n]: the destination n's main loop sends to, or NoNode
    NoNode,
    Retries     \* the retries argument

VARIABLES
    phase,      \* phase[n]: "idle", "wait" (inside discover_route) or "done"
    rreqs,      \* rreqs[n]: RREQs issued by the current call
    ok,         \* ok[n]: the value the last call returned
    valid       \* valid[n]: destinations with a valid routing entry at n

avars == <<phase, rreqs, ok, valid>>

TypeOK ==
    /\ phase \in [Nodes -> {"idle", "wait", "done"}]
    /\ rreqs \in [Nodes -> 0..Retries + 1]
    /\ ok \in [Nodes -> BOOLEAN]
    /\ valid \in [Nodes -> SUBSET Nodes]

Init ==
    /\ phase = [n \in Nodes |-> "idle"]
    /\ rreqs = [n \in Nodes |-> 0]
    /\ ok = [n \in Nodes |-> FALSE]
    /\ valid = [n \in Nodes |-> {}]

\* a call: success without any RREQ when a valid route is known, else the
\* first RREQ
Call(n) ==
    /\ Target[n] # NoNode
    /\ phase[n] = "idle"
    /\ IF Target[n] \in valid[n]
       THEN /\ phase' = [phase EXCEPT ![n] = "done"]
            /\ ok' = [ok EXCEPT ![n] = TRUE]
            /\ UNCHANGED rreqs
       ELSE /\ phase' = [phase EXCEPT ![n] = "wait"]
            /\ rreqs' = [rreqs EXCEPT ![n] = 1]
            /\ ok' = [ok EXCEPT ![n] = FALSE]
    /\ UNCHANGED valid

\* another RREQ, while fewer than retries + 1 have gone out
Reissue(n) ==
    /\ phase[n] = "wait"
    /\ rreqs[n] <= Retries
    /\ rreqs' = [rreqs EXCEPT ![n] = @ + 1]
    /\ UNCHANGED <<phase, ok, valid>>

\* the call returns whether a valid route exists; it may return failure
\* only after its last RREQ
Return(n) ==
    /\ phase[n] = "wait"
    /\ Target[n] \in valid[n] \/ rreqs[n] = Retries + 1
    /\ phase' = [phase EXCEPT ![n] = "done"]
    /\ ok' = [ok EXCEPT ![n] = Target[n] \in valid[n]]
    /\ rreqs' = [rreqs EXCEPT ![n] = 0]
    /\ UNCHANGED valid

\* the caller uses the result and may call again
Consume(n) ==
    /\ phase[n] = "done"
    /\ phase' = [phase EXCEPT ![n] = "idle"]
    /\ UNCHANGED <<rreqs, ok, valid>>

\* routes are installed, expire or are deleted by other threads
Env ==
    /\ valid' \in [Nodes -> SUBSET Nodes]
    /\ UNCHANGED <<phase, rreqs, ok>>

Next ==
    \/ Env
    \/ \E n \in Nodes : Call(n) \/ Reissue(n) \/ Return(n) \/ Consume(n)

\* the waiting caller is not starved: it keeps re-checking and its
\* deadlines pass
Fairness == \A n \in Nodes : WF_avars(Reissue(n)) /\ WF_avars(Return(n))

Spec == Init /\ [][Next]_avars /\ Fairness

\* every call into discover_route returns
CallReturns == \A n \in Nodes : phase[n] = "wait" ~> phase[n] = "done"

=============================================================================
