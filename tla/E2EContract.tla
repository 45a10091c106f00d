----------------------------- MODULE E2EContract -----------------------------
(***************************************************************************)
(* What the end-to-end tracker of an agent promises (send_data's           *)
(* registration in e2e_pending and e2e_sent_log, process_ack with          *)
(* e2e_seen_acks, insert_e2e_metric): a packet is outstanding from its     *)
(* send until its ACK is accounted, it is accounted only after it was      *)
(* sent and at most once, and its persisted row, if the insert succeeds,   *)
(* names the destination the packet was sent to.  Nothing is promised     *)
(* about delivery: DATA and ACK frames may be lost, and an insert may      *)
(* fail.                                                                   *)
(***************************************************************************)
EXTENDS Sequences

CONSTANTS
    Dests,      \* destinations send_data may be called for
    PacketIds   \* packet ids send_data may draw

VARIABLES
    sent,       \* [pid, dest] of every packet sent so far
    outstanding, \* the sent packets waiting for their ACK
    acked,      \* ids of the packets whose ACK has been accounted
    rows        \* the e2e rows persisted, in order

cvars == <<sent, outstanding, acked, rows>>

Record(pid, d) == [pid |-> pid, dest |-> d]

SentIds == {s.pid : s \in sent}

Init ==
    /\ sent = {}
    /\ outstanding = {}
    /\ acked = {}
    /\ rows = <<>>

\* send_data: a fresh packet id is registered for destination d
Send(pid, d) ==
    /\ pid \notin SentIds
    /\ sent' = sent \cup {Record(pid, d)}
    /\ outstanding' = outstanding \cup {Record(pid, d)}
    /\ UNCHANGED <<acked, rows>>

\* process_ack for a sent packet not yet accounted: it is no longer
\* outstanding, it is accounted, and its row is persisted unless the
\* insert fails
Ack(s) ==
    /\ s \in sent
    /\ s.pid \notin acked
    /\ outstanding' = outstanding \ {s}
    /\ acked' = acked \cup {s.pid}
    /\ rows' \in {rows, Append(rows, s)}
    /\ UNCHANGED sent

Next ==
    \/ \E pid \in PacketIds, d \in Dests : Send(pid, d)
    \/ \E s \in sent : Ack(s)

Spec == Init /\ [][Next]_cvars

=============================================================================
