------------------------------- MODULE AODVNet -------------------------------
(***************************************************************************)
(* A mesh of agents running the AODV-only agent of                         *)
(* src/aodv_only_rpi_metrics.py (class AODVNode): route discovery          *)
(* (RREQ / RREP), route deletion (RERR), DATA forwarding, the end-to-end   *)
(* ACK tracker with its sliding-window PDR, and the database row written   *)
(* per accounted ACK.                                                      *)
(*                                                                         *)
(* Transport (send_packet / receive_packets): every frame is a UDP         *)
(* broadcast; a node hears a frame iff it is a radio neighbour of the      *)
(* sender and the header's dst_mac is its own MAC or the broadcast MAC.    *)
(* A sent frame stays in `net` for ever: every neighbour may process it    *)
(* any number of times (duplication), never (loss), and in any order      *)
(* relative to other frames (reordering).                                  *)
(*                                                                         *)
(* Time is a global clock `now` in whole ticks; ROUTE_TIMEOUT, the e2e     *)
(* window and the discovery wait are constants in ticks.  Each handler is  *)
(* one atomic step of the receiver thread; send_data runs in the main      *)
(* thread and is split where it waits for an RREP, so that receiver steps  *)
(* interleave with it.                                                     *)
(***************************************************************************)
EXTENDS Integers, Sequences, FiniteSets, Graphs, FiniteSetsExt

CONSTANTS
    Nodes,          \* node ids of the mesh
    KnownMac,       \* ids that have an entry in MAC_ADDRESSES
    Links,          \* radio neighbourhood: set of ordered pairs, symmetric
    SendTo,         \* SendTo[n]: destination of n's main loop, or NoNode
    NoNode,         \* -1 / "" : an unknown node id or MAC
    NoRoute,        \* absent key in routing_table / reverse_route
    Bcast,          \* the broadcast MAC FF:FF:FF:FF:FF:FF
    MaxHops,        \* MAX_HOPS, the initial TTL of every frame
    RouteTimeout,   \* ROUTE_TIMEOUT in ticks
    E2EWindow,      \* E2E_WINDOW_SEC in ticks
    WaitTicks,      \* discover_route's wait_sec in ticks
    Retries,        \* discover_route's retries
    MaxTime,        \* bound on the clock
    MaxSeq,         \* bound on sequence_num
    PacketIds,      \* the packet ids random.getrandbits(32) may return
    ForeignRerr     \* nodes a RERR from other firmware may name unreachable

ASSUME KnownMac \cup ForeignRerr \subseteq Nodes /\ Links \subseteq Nodes \X Nodes
ASSUME \A l \in Links : <<l[2], l[1]>> \in Links /\ l[1] # l[2]

VARIABLES
    now,        \* time.time()
    seqNum,     \* seqNum[n]: self.sequence_num
    rt,         \* rt[n][d]: self.routing_table[d] or NoRoute
    rev,        \* rev[n][o]: self.reverse_route[o] or NoRoute
    seenRreq,   \* seenRreq[n]: self.seen_rreq
    net,        \* frames sent so far
    app,        \* app[n]: where n's main thread is inside send_data
    pending,    \* pending[n]: self.e2e_pending as a set of <<pid, dest>>
    sentLog,    \* sentLog[n][d]: self.e2e_sent_log[d], <<t_sent, pid>>
    ackLog,     \* ackLog[n][d]: self.e2e_ack_log[d], <<t_ack, pid>>
    seenAcks,   \* seenAcks[n]: self.e2e_seen_acks
    db,         \* db[n]: rows of aodv_metrics inserted by n
    issuer      \* issuer[p]: node that drew packet id p (ids are unique)

vars == <<now, seqNum, rt, rev, seenRreq, net, app, pending, sentLog,
          ackLog, seenAcks, db, issuer>>

-----------------------------------------------------------------------------
(* Data *)

Kinds == {"RREQ", "RREP", "DATA", "ACK"}

(* One frame: header {type, src_mac, dst_mac, ttl} and the JSON fields the *)
(* handlers read.  RREQ/RREP: orig = origin_id, targ = dest_id,            *)
(* id = rreq_id, hops = hop_count.  DATA: orig = source,                   *)
(* targ = destination, id = packet_id.  ACK: orig = source (the ACK        *)
(* sender), targ = destination (the DATA source), id = packet_id.          *)
Frame == [kind : Kinds, src : Nodes, dst : Nodes \cup {Bcast},
          ttl : 1..MaxHops, orig : Nodes, targ : Nodes,
          id : Nat, hops : Nat]

RouteEntry == [next_hop : Nodes, hop_count : Nat,
               last_update : 0..MaxTime, path : Seq(Nodes)]
RevEntry == [next_hop : Nodes, last_update : 0..MaxTime]

AppState == [pc : {"idle", "wait", "send"}, tries : 0..Retries,
             end : 0..MaxTime + WaitTicks, ok : BOOLEAN]

Row == [pid : PacketIds, dest : Nodes, pdr : 0..100]

-----------------------------------------------------------------------------
(* Helpers of AODVNode *)

\* mac_to_node_id(bytes_to_mac(src_mac)): -1 for a MAC not in MAC_ADDRESSES
SourceId(f) == IF f.src \in KnownMac THEN f.src ELSE NoNode

\* route_valid(info): an entry is valid for ROUTE_TIMEOUT after last_update
Fresh(e) == e # NoRoute /\ now - e.last_update <= RouteTimeout

RouteValid(n, d) == Fresh(rt[n][d])

\* send_packet(type, mac, data, ttl): the frame put on the air
Mk(k, s, d, t, o, g, i, h) ==
    [kind |-> k, src |-> s, dst |-> d, ttl |-> t, orig |-> o, targ |-> g,
     id |-> i, hops |-> h]

\* send_rrep: unicast to the next hop towards the origin, when its MAC is known
RrepTo(n, origin, dest, rid, hc, nh) ==
    IF nh \in KnownMac THEN {Mk("RREP", n, nh, MaxHops, origin, dest, rid, hc)}
                       ELSE {}

\* send_ack: via the next hop of a valid route to dest, else straight to
\* dest's MAC; denormalize_mac("") yields a random MAC nobody owns
AckFrames(n, dest, pid) ==
    IF RouteValid(n, dest) /\ rt[n][dest].next_hop \in KnownMac
    THEN {Mk("ACK", n, rt[n][dest].next_hop, MaxHops, n, dest, pid, 0)}
    ELSE IF dest \in KnownMac THEN {Mk("ACK", n, dest, MaxHops, n, dest, pid, 0)}
    ELSE {}

\* _e2e_window_pdr: drop entries older than the window (both logs are in
\* time order, so popleft while old = keep the young ones)
InWindow(log) == SelectSeq(log, LAMBDA e : ~(now - e[1] > E2EWindow))

WindowPdr(sent, ack) ==
    IF Len(sent) > 0 THEN Min({100, (Len(ack) * 100) \div Len(sent)}) ELSE 0

\* DatabaseHandler.insert_metric: the row is written, or lost when
\* check_connection cannot (re)connect or the INSERT raises
InsertMetric(n, row) ==
    \/ db' = [db EXCEPT ![n] = Append(@, row)]
    \/ UNCHANGED db

\* hop distance in the radio graph, for the properties
Radio == [node |-> Nodes, edge |-> Links]
RECURSIVE Within(_, _)
Within(n, k) == IF k = 0 THEN {n}
                ELSE Within(n, k - 1) \cup AllSuccessors(Radio, Within(n, k - 1))
Dist(n, d) == Min({k \in 0..Cardinality(Nodes) : d \in Within(n, k)})

-----------------------------------------------------------------------------
(* State *)

Init ==
    /\ now = 0
    /\ seqNum = [n \in Nodes |-> 0]
    /\ rt = [n \in Nodes |-> [d \in Nodes |-> NoRoute]]
    /\ rev = [n \in Nodes |-> [o \in Nodes |-> NoRoute]]
    /\ seenRreq = [n \in Nodes |-> {}]
    /\ net = {}
    /\ app = [n \in Nodes |-> [pc |-> "idle", tries |-> 0, end |-> 0, ok |-> FALSE]]
    /\ pending = [n \in Nodes |-> {}]
    /\ sentLog = [n \in Nodes |-> [d \in Nodes |-> <<>>]]
    /\ ackLog = [n \in Nodes |-> [d \in Nodes |-> <<>>]]
    /\ seenAcks = [n \in Nodes |-> {}]
    /\ db = [n \in Nodes |-> <<>>]
    /\ issuer = [p \in PacketIds |-> NoNode]

TypeOK ==
    /\ now \in 0..MaxTime
    /\ seqNum \in [Nodes -> 0..MaxSeq]
    /\ \A n, d \in Nodes :
          /\ rt[n][d] = NoRoute \/ rt[n][d] \in RouteEntry
          /\ rev[n][d] = NoRoute \/ rev[n][d] \in RevEntry
          /\ sentLog[n][d] \in Seq((0..MaxTime) \X PacketIds)
          /\ ackLog[n][d] \in Seq((0..MaxTime) \X PacketIds)
    /\ seenRreq \in [Nodes -> SUBSET (Nodes \X (1..MaxSeq))]
    /\ net \subseteq Frame
    /\ app \in [Nodes -> AppState]
    /\ pending \in [Nodes -> SUBSET (PacketIds \X Nodes)]
    /\ seenAcks \in [Nodes -> SUBSET PacketIds]
    /\ db \in [Nodes -> Seq(Row)]
    /\ issuer \in [PacketIds -> Nodes \cup {NoNode}]

-----------------------------------------------------------------------------
(* Clock.  The HELLO thread (send_hello) is left out: process_hello only  *)
(* parses the frame, and the sequence numbers it consumes are compared    *)
(* only for equality in (origin, rreq_id), so skipping them renames      *)
(* rreq ids without changing any behaviour.                              *)

\* the waiter polls with _rrep_cv.wait(timeout=0.2), well inside a tick, so
\* a main thread whose deadline has come acts before the clock moves on
WaitersOnTime == \A n \in Nodes : app[n].pc = "wait" => now < app[n].end

Tick ==
    /\ now < MaxTime
    /\ WaitersOnTime
    /\ now' = now + 1
    /\ UNCHANGED <<seqNum, rt, rev, seenRreq, net, app, pending, sentLog,
                   ackLog, seenAcks, db, issuer>>

-----------------------------------------------------------------------------
(* Main thread: send_data(SendTo[n], msg) with discover_route inside *)

\* send_rreq(dest): next sequence number as rreq_id, remembered as seen
RreqSent(n, dest) ==
    LET rid == seqNum[n] + 1 IN
    /\ seqNum[n] < MaxSeq
    /\ seqNum' = [seqNum EXCEPT ![n] = rid]
    /\ seenRreq' = [seenRreq EXCEPT ![n] = @ \cup {<<n, rid>>}]
    /\ net' = net \cup {Mk("RREQ", n, Bcast, MaxHops, n, dest, rid, 0)}

\* model bound: a discovery is begun only when all its retries + 1 RREQs and
\* waits fit under MaxSeq and MaxTime
DiscoveryFits(n) ==
    /\ seqNum[n] + Retries + 1 <= MaxSeq
    /\ now + (Retries + 1) * WaitTicks <= MaxTime

\* discover_route entry: a valid route returns True at once, otherwise the
\* first RREQ goes out and the thread waits until now + wait_sec
StartSend(n) ==
    /\ SendTo[n] # NoNode
    /\ app[n].pc = "idle"
    /\ IF RouteValid(n, SendTo[n])
       THEN /\ app' = [app EXCEPT ![n] = [@ EXCEPT !.pc = "send", !.ok = TRUE]]
            /\ UNCHANGED <<seqNum, seenRreq, net>>
       ELSE /\ DiscoveryFits(n)
            /\ RreqSent(n, SendTo[n])
            /\ app' = [app EXCEPT ![n] = [pc |-> "wait", tries |-> 0,
                                          end |-> now + WaitTicks, ok |-> FALSE]]
    /\ UNCHANGED <<now, rt, rev, pending, sentLog, ackLog, seenAcks, db, issuer>>

\* the waiter re-checks the routing table before its deadline
RrepArrived(n) ==
    /\ app[n].pc = "wait"
    /\ now < app[n].end
    /\ RouteValid(n, SendTo[n])
    /\ app' = [app EXCEPT ![n] = [@ EXCEPT !.pc = "send", !.ok = TRUE]]
    /\ UNCHANGED <<now, seqNum, rt, rev, seenRreq, net, pending, sentLog,
                   ackLog, seenAcks, db, issuer>>

\* mutant: range(retries + 2), one RREQ too many
RetryRreqExtra(n) ==
    /\ app[n].pc = "wait"
    /\ now >= app[n].end
    /\ app[n].tries <= Retries
    /\ RreqSent(n, SendTo[n])
    /\ app' = [app EXCEPT ![n] = [@ EXCEPT !.tries = @ + 1,
                                           !.end = now + WaitTicks]]
    /\ UNCHANGED <<now, rt, rev, pending, sentLog, ackLog, seenAcks, db, issuer>>

\* deadline passed with retries left: another RREQ
RetryRreq(n) ==
    /\ app[n].pc = "wait"
    /\ now >= app[n].end
    /\ app[n].tries < Retries
    /\ RreqSent(n, SendTo[n])
    /\ app' = [app EXCEPT ![n] = [@ EXCEPT !.tries = @ + 1,
                                           !.end = now + WaitTicks]]
    /\ UNCHANGED <<now, rt, rev, pending, sentLog, ackLog, seenAcks, db, issuer>>

\* mutant: the last deadline is taken one retry too late
GiveUpLate(n) ==
    /\ app[n].pc = "wait"
    /\ now >= app[n].end
    /\ app[n].tries = Retries + 1
    /\ app' = [app EXCEPT ![n] = [@ EXCEPT !.pc = "send",
                                           !.ok = RouteValid(n, SendTo[n])]]
    /\ UNCHANGED <<now, seqNum, rt, rev, seenRreq, net, pending, sentLog,
                   ackLog, seenAcks, db, issuer>>

\* last deadline passed: discover_route returns whether a route is valid now
GiveUp(n) ==
    /\ app[n].pc = "wait"
    /\ now >= app[n].end
    /\ app[n].tries = Retries
    /\ app' = [app EXCEPT ![n] = [@ EXCEPT !.pc = "send",
                                           !.ok = RouteValid(n, SendTo[n])]]
    /\ UNCHANGED <<now, seqNum, rt, rev, seenRreq, net, pending, sentLog,
                   ackLog, seenAcks, db, issuer>>

\* the DATA frame: to the entry's next hop when its MAC is known, else
\* straight to the destination's MAC (none when that is unknown too)
DataFrames(n, d, info, pid) ==
    IF info # NoRoute /\ info.next_hop \in KnownMac
    THEN {Mk("DATA", n, info.next_hop, MaxHops, n, d, pid, 0)}
    ELSE IF d \in KnownMac THEN {Mk("DATA", n, d, MaxHops, n, d, pid, 0)}
    ELSE {}

\* rest of send_data after discover_route: routing_table.get(dest) is read
\* again (it may have changed or gone stale meanwhile), a fresh packet id is
\* drawn, pending / sent_log are written, then the frame is sent
FinishSend(n) ==
    LET d == SendTo[n]
        info == IF app[n].ok THEN rt[n][d] ELSE NoRoute
    IN
    /\ app[n].pc = "send"
    /\ app' = [app EXCEPT ![n] = [@ EXCEPT !.pc = "idle"]]
    /\ IF info = NoRoute /\ d \notin KnownMac
       THEN UNCHANGED <<net, pending, sentLog, issuer>>
       ELSE \E pid \in PacketIds :
              /\ issuer[pid] = NoNode
              /\ issuer' = [issuer EXCEPT ![pid] = n]
              /\ pending' = [pending EXCEPT ![n] = @ \cup {<<pid, d>>}]
              /\ sentLog' = [sentLog EXCEPT ![n][d] = Append(@, <<now, pid>>)]
              /\ net' = net \cup DataFrames(n, d, info, pid)
    /\ UNCHANGED <<now, seqNum, rt, rev, seenRreq, ackLog, seenAcks, db>>

-----------------------------------------------------------------------------
(* Receiver thread: receive_packets and the handlers it dispatches to *)

\* the frame reached n's radio and passes the dst_mac filter (ttl >= 1 holds
\* for every frame ever sent)
Hears(n, f) ==
    /\ <<f.src, n>> \in Links
    /\ f.dst \in {n, Bcast}

\* mutant: the seen_rreq check is missing
RecvRreqNoDedup(n, f) ==
    LET sid == SourceId(f) IN
    /\ f.kind = "RREQ"
    /\ Hears(n, f)
    /\ sid # NoNode
    /\ seenRreq' = [seenRreq EXCEPT ![n] = @ \cup {<<f.orig, f.id>>}]
    /\ rev' = [rev EXCEPT ![n][f.orig] = [next_hop |-> sid, last_update |-> now]]
    /\ net' = net \cup
         CASE f.targ = n -> RrepTo(n, f.orig, f.targ, f.id, 0, sid)
           [] RouteValid(n, f.targ) ->
                RrepTo(n, f.orig, f.targ, f.id, rt[n][f.targ].hop_count, sid)
           [] f.ttl - 1 <= 0 -> {}
           [] OTHER -> {Mk("RREQ", n, Bcast, f.ttl - 1, f.orig, f.targ, f.id,
                           f.hops + 1)}
    /\ UNCHANGED <<now, seqNum, rt, app, pending, sentLog, ackLog, seenAcks,
                   db, issuer>>

\* mutant: the ttl - 1 <= 0 check before rebroadcasting is missing
RecvRreqNoTtlCheck(n, f) ==
    LET sid == SourceId(f) IN
    /\ f.kind = "RREQ"
    /\ Hears(n, f)
    /\ sid # NoNode
    /\ <<f.orig, f.id>> \notin seenRreq[n]
    /\ seenRreq' = [seenRreq EXCEPT ![n] = @ \cup {<<f.orig, f.id>>}]
    /\ rev' = [rev EXCEPT ![n][f.orig] = [next_hop |-> sid, last_update |-> now]]
    /\ net' = net \cup
         CASE f.targ = n -> RrepTo(n, f.orig, f.targ, f.id, 0, sid)
           [] RouteValid(n, f.targ) ->
                RrepTo(n, f.orig, f.targ, f.id, rt[n][f.targ].hop_count, sid)
           [] OTHER -> {Mk("RREQ", n, Bcast, f.ttl - 1, f.orig, f.targ, f.id,
                           f.hops + 1)}
    /\ UNCHANGED <<now, seqNum, rt, app, pending, sentLog, ackLog, seenAcks,
                   db, issuer>>

\* process_rreq: drop unknown senders and seen (origin, rreq_id); record the
\* reverse route; reply as destination, reply from a valid route, or
\* rebroadcast with ttl - 1 and hop_count + 1
RecvRreq(n, f) ==
    LET sid == SourceId(f) IN
    /\ f.kind = "RREQ"
    /\ Hears(n, f)
    /\ sid # NoNode
    /\ <<f.orig, f.id>> \notin seenRreq[n]
    /\ seenRreq' = [seenRreq EXCEPT ![n] = @ \cup {<<f.orig, f.id>>}]
    /\ rev' = [rev EXCEPT ![n][f.orig] = [next_hop |-> sid, last_update |-> now]]
    /\ net' = net \cup
         CASE f.targ = n -> RrepTo(n, f.orig, f.targ, f.id, 0, sid)
           [] RouteValid(n, f.targ) ->
                RrepTo(n, f.orig, f.targ, f.id, rt[n][f.targ].hop_count, sid)
           [] f.ttl - 1 <= 0 -> {}
           [] OTHER -> {Mk("RREQ", n, Bcast, f.ttl - 1, f.orig, f.targ, f.id,
                           f.hops + 1)}
    /\ UNCHANGED <<now, seqNum, rt, app, pending, sentLog, ackLog, seenAcks,
                   db, issuer>>

\* process_rrep, forwarding part: along a fresh reverse route to the origin
RrepForward(n, f, newHops) ==
    LET rr == rev[n][f.orig] IN
    IF Fresh(rr) /\ f.ttl - 1 > 0 /\ rr.next_hop \in KnownMac
    THEN {Mk("RREP", n, rr.next_hop, f.ttl - 1, f.orig, f.targ, f.id, newHops)}
    ELSE {}

\* mutant: the sender's hop is not added (new_hops = hop_count)
RecvRrepSameHops(n, f) ==
    LET sid == SourceId(f)
        cur == rt[n][f.targ]
    IN
    /\ f.kind = "RREP"
    /\ Hears(n, f)
    /\ sid # NoNode
    /\ rt' = IF ~Fresh(cur) \/ f.hops < cur.hop_count
             THEN [rt EXCEPT ![n][f.targ] =
                     [next_hop |-> sid, hop_count |-> f.hops,
                      last_update |-> now, path |-> <<n, sid, f.targ>>]]
             ELSE rt
    /\ net' = IF f.orig = n THEN net ELSE net \cup RrepForward(n, f, f.hops)
    /\ UNCHANGED <<now, seqNum, rev, seenRreq, app, pending, sentLog, ackLog,
                   seenAcks, db, issuer>>

\* process_rrep: install the route to dest_id via the sender when there is
\* none, it is stale, or the new one is strictly shorter; the origin wakes
\* its waiter, everybody else forwards towards the origin
RecvRrep(n, f) ==
    LET sid == SourceId(f)
        newHops == f.hops + 1
        cur == rt[n][f.targ]
    IN
    /\ f.kind = "RREP"
    /\ Hears(n, f)
    /\ sid # NoNode
    /\ rt' = IF ~Fresh(cur) \/ newHops < cur.hop_count
             THEN [rt EXCEPT ![n][f.targ] =
                     [next_hop |-> sid, hop_count |-> newHops,
                      last_update |-> now, path |-> <<n, sid, f.targ>>]]
             ELSE rt
    /\ net' = IF f.orig = n THEN net ELSE net \cup RrepForward(n, f, newHops)
    /\ UNCHANGED <<now, seqNum, rev, seenRreq, app, pending, sentLog, ackLog,
                   seenAcks, db, issuer>>

\* process_data: the destination answers with an ACK to the DATA source;
\* others forward with ttl - 1 along a valid route, or drop
RecvData(n, f) ==
    /\ f.kind = "DATA"
    /\ Hears(n, f)
    /\ net' = net \cup
         CASE f.targ = n -> AckFrames(n, f.orig, f.id)
           [] f.ttl - 1 <= 0 -> {}
           [] RouteValid(n, f.targ) /\ rt[n][f.targ].next_hop \in KnownMac ->
                {Mk("DATA", n, rt[n][f.targ].next_hop, f.ttl - 1, f.orig,
                    f.targ, f.id, 0)}
           [] OTHER -> {}
    /\ UNCHANGED <<now, seqNum, rt, rev, seenRreq, app, pending, sentLog,
                   ackLog, seenAcks, db, issuer>>

\* mutant: the e2e_seen_acks check is missing
RecvAckNoSeen(n, f) ==
    LET pend == {e \in pending[n] : e[1] = f.id}
        dest == IF pend # {} THEN (CHOOSE e \in pend : TRUE)[2] ELSE f.orig
        sent == InWindow(sentLog[n][dest])
        acks == InWindow(Append(ackLog[n][dest], <<now, f.id>>))
    IN
    /\ f.kind = "ACK"
    /\ Hears(n, f)
    /\ seenAcks' = [seenAcks EXCEPT ![n] = @ \cup {f.id}]
    /\ pending' = [pending EXCEPT ![n] = @ \ pend]
    /\ ackLog' = [ackLog EXCEPT ![n][dest] = acks]
    /\ sentLog' = [sentLog EXCEPT ![n][dest] = sent]
    /\ InsertMetric(n, [pid |-> f.id, dest |-> dest, pdr |-> WindowPdr(sent, acks)])
    /\ UNCHANGED <<now, seqNum, rt, rev, seenRreq, net, app, issuer>>

\* mutant: e2e_pending.get instead of pop, the entry stays
RecvAckKeepPending(n, f) ==
    LET pend == {e \in pending[n] : e[1] = f.id}
        dest == IF pend # {} THEN (CHOOSE e \in pend : TRUE)[2] ELSE f.orig
        sent == InWindow(sentLog[n][dest])
        acks == InWindow(Append(ackLog[n][dest], <<now, f.id>>))
    IN
    /\ f.kind = "ACK"
    /\ Hears(n, f)
    /\ f.id \notin seenAcks[n]
    /\ seenAcks' = [seenAcks EXCEPT ![n] = @ \cup {f.id}]
    /\ pending' = pending
    /\ ackLog' = [ackLog EXCEPT ![n][dest] = acks]
    /\ sentLog' = [sentLog EXCEPT ![n][dest] = sent]
    /\ InsertMetric(n, [pid |-> f.id, dest |-> dest, pdr |-> WindowPdr(sent, acks)])
    /\ UNCHANGED <<now, seqNum, rt, rev, seenRreq, net, app, issuer>>

\* process_ack: ignore a packet id already seen; pop the pending entry (its
\* dest, or the ACK's source when there is none); log the ACK, prune both
\* logs to the window, compute the window PDR and insert the row
RecvAck(n, f) ==
    LET pend == {e \in pending[n] : e[1] = f.id}
        dest == IF pend # {} THEN (CHOOSE e \in pend : TRUE)[2] ELSE f.orig
        sent == InWindow(sentLog[n][dest])
        acks == InWindow(Append(ackLog[n][dest], <<now, f.id>>))
    IN
    /\ f.kind = "ACK"
    /\ Hears(n, f)
    /\ f.id \notin seenAcks[n]
    /\ seenAcks' = [seenAcks EXCEPT ![n] = @ \cup {f.id}]
    /\ pending' = [pending EXCEPT ![n] = @ \ pend]
    /\ ackLog' = [ackLog EXCEPT ![n][dest] = acks]
    /\ sentLog' = [sentLog EXCEPT ![n][dest] = sent]
    /\ InsertMetric(n, [pid |-> f.id, dest |-> dest, pdr |-> WindowPdr(sent, acks)])
    /\ UNCHANGED <<now, seqNum, rt, rev, seenRreq, net, app, issuer>>

\* process_rerr: a RERR for u (sent by a neighbour running other firmware;
\* this agent never sends one) deletes the routing entry for u
RecvRerr(n, u) ==
    /\ rt[n][u] # NoRoute
    /\ rt' = [rt EXCEPT ![n][u] = NoRoute]
    /\ UNCHANGED <<now, seqNum, rev, seenRreq, net, app, pending, sentLog,
                   ackLog, seenAcks, db, issuer>>

-----------------------------------------------------------------------------
Next ==
    \/ Tick
    \/ \E n \in Nodes :
          \/ StartSend(n) \/ RrepArrived(n) \/ RetryRreq(n) \/ GiveUp(n)
          \/ FinishSend(n)
          \/ \E u \in ForeignRerr : RecvRerr(n, u)
          \/ \E f \in net : \/ RecvRreq(n, f) \/ RecvRrep(n, f)
                            \/ RecvData(n, f) \/ RecvAck(n, f)

Spec == Init /\ [][Next]_vars

\* The main thread of every node is never starved (it runs on its own OS
\* thread and wakes at least every 0.2 s) and wall-clock time passes.  The
\* receiver handlers get no fairness: a frame may be lost for ever.
Fairness ==
    /\ WF_vars(Tick)
    /\ \A n \in Nodes : WF_vars(RrepArrived(n) \/ RetryRreq(n) \/ GiveUp(n))

FairSpec == Spec /\ Fairness

-----------------------------------------------------------------------------
(* Properties *)

\* RREQ flooding is damped by seen_rreq: a node puts at most one RREQ for a
\* given (origin_id, rreq_id) on the air, even when the same request reaches
\* it again by duplication or as the echo of its own or a neighbour's
\* rebroadcast (send_rreq, process_rreq).
RreqForwardedOnce ==
    \A f, g \in net :
        (/\ f.kind = "RREQ" /\ g.kind = "RREQ" /\ f.src = g.src
         /\ f.orig = g.orig /\ f.id = g.id) => f = g

\* A route never claims fewer hops than the radio graph allows: every
\* routing_table entry's hop_count is at least the hop distance to its
\* destination, however RREPs are answered from intermediate routes,
\* forwarded, duplicated or reordered (process_rreq, process_rrep).
HopCountSound ==
    \A n, d \in Nodes :
        rt[n][d] # NoRoute => rt[n][d].hop_count >= Dist(n, d)

\* e2e_seen_acks makes ACK accounting idempotent: a packet id is written to
\* a node's aodv_metrics table at most once, whatever ACK duplicates arrive
\* (process_ack).
AckRecordedOnce ==
    \A n \in Nodes : \A i, j \in DOMAIN db[n] :
        i # j => db[n][i].pid # db[n][j].pid

\* A packet waiting in e2e_pending has not been acknowledged yet: the
\* receiver thread's ACK handling and the main thread's send_data keep the
\* pending map and the seen set disjoint (send_data, process_ack).
PendingUnacked ==
    \A n \in Nodes : \A e \in pending[n] : e[1] \notin seenAcks[n]

\* the next-hop graph towards d: an edge n -> next_hop for every valid entry
RouteGraph(d) ==
    [node |-> Nodes,
     edge |-> {<<n, rt[n][d].next_hop>> : n \in {m \in Nodes \ {d} : RouteValid(m, d)}}]

\* Spec (1, 4): DATA is forwarded towards the sink: following valid
\* routing entries' next hops never comes back to a node (no routing loop).
\* process_rrep replaces a stale entry by any RREP, and process_rreq answers
\* from an intermediate route, without destination sequence numbers.
LoopFree == \A d \in Nodes : ~HasCycle(RouteGraph(d))

\* Spec (3, 8): every routing entry's path starts at the node itself, ends
\* at the destination, repeats no node, and hop_count = |path| - 1.
\* process_rrep stores path [self, source_id, dest_id] whatever the hop count.
RouteEntryWellFormed ==
    \A n, d \in Nodes :
        rt[n][d] # NoRoute =>
            LET p == rt[n][d].path IN
            /\ p[1] = n
            /\ p[Len(p)] = d
            /\ Cardinality(ToSet(p)) = Len(p)
            /\ rt[n][d].hop_count = Len(p) - 1

\* Spec (4.2, ACK receive): an ACK is accounted by the original source of
\* the DATA only: every row a node writes to aodv_metrics is for a packet it
\* sent itself.  process_ack does not look at the ACK's destination field.
AckOnlyBySource ==
    \A n \in Nodes : \A i \in DOMAIN db[n] : issuer[db[n][i].pid] = n

\* Spec (8): the window PDR is 100 only when every send still in the
\* window has been acknowledged.  Checked on each row process_ack inserts,
\* against the sent log _e2e_window_pdr has just pruned.
WindowPdrFullOnlyIfAllAcked ==
    [][\A n \in Nodes :
         Len(db'[n]) > Len(db[n]) =>
            LET r == db'[n][Len(db'[n])] IN
            r.pdr = 100 =>
               \A e \in ToSet(sentLog'[n][r.dest]) : e[2] \in seenAcks'[n]]_vars

\* Every call of discover_route returns to send_data, whatever frames are
\* lost: the retry loop's deadlines pass and the last one ends the wait
\* (discover_route, lines 362-370).
DiscoveryReturns ==
    \A n \in Nodes : app[n].pc = "wait" ~> app[n].pc = "send"

-----------------------------------------------------------------------------
(* Refinement: the main thread of every node implements the discovery     *)
(* contract of spec section 4 (discover_route).                            *)

Contract == INSTANCE DiscoveryContract WITH
    Target <- SendTo,
    phase <- [n \in Nodes |-> CASE app[n].pc = "idle" -> "idle"
                                 [] app[n].pc = "wait" -> "wait"
                                 [] app[n].pc = "send" -> "done"],
    rreqs <- [n \in Nodes |-> IF app[n].pc = "wait" THEN app[n].tries + 1 ELSE 0],
    ok <- [n \in Nodes |-> app[n].ok],
    valid <- [n \in Nodes |-> {d \in Nodes : RouteValid(n, d)}]

\* discover_route issues at most retries + 1 RREQs per call, returns False
\* only after its last wait, returns exactly whether a valid route exists
\* when it returns, and every call returns (discover_route, lines 354-370).
ContractSpec == Contract!Spec

=============================================================================
