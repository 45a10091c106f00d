------------------------------ MODULE PSOAgent ------------------------------
(***************************************************************************)
(* The PSO-GA agent of src/Pengujian_psogaupdate_e2e_fixed.py (node 4, a   *)
(* Raspberry Pi) against an environment of ESP32/agent neighbours.         *)
(*                                                                         *)
(* Three threads share the agent's state without locks: the receiver       *)
(* thread (process_* handlers, one atomic step each), the periodic         *)
(* optimizer thread (optimize_all_routes, one step per find_optimal_route) *)
(* and the main loop (send_data split between optimize_route's check of   *)
(* global_best and its return, and where the receiver thread can change   *)
(* the routing table between find_optimal_route and the table read).      *)
(* The sweep's and process_rerr's optimize_route calls, and send_data's   *)
(* second call, are single steps: their interleavings are a subset of the *)
(* program's.                                                              *)
(*                                                                         *)
(* The optimizer keeps global_best and global_best_fitness across calls of *)
(* optimize_route.  Fitness is a level in 1..FitMax chosen per evaluation: *)
(* it depends on edge metrics that HELLO and DATA frames keep changing,    *)
(* and every value it can take is reachable for some metrics.  The paths   *)
(* a run of the swarm can produce are those the operators of PSOGAOps     *)
(* reach (Candidates).                                                     *)
(***************************************************************************)
EXTENDS Integers, Sequences, FiniteSets, Functions

CONSTANTS
    Self,          \* this agent's node id (4)
    Peers,         \* ids of the other nodes
    Sink,          \* SINK_NODE_ID
    KnownMac,      \* ids with an entry in MAC_ADDRESSES
    RerrFor,       \* unreachable_node values RERR frames may carry
    RreqTargets,   \* destinations the main loop may send an RREQ for
    DataFrom,      \* peers that may address a DATA frame to this node
    FitMax,        \* fitness levels 1..FitMax; 0 stands for float('-inf')
    RouteTimeout,  \* ROUTE_TIMEOUT in ticks
    MaxTime,       \* bound of the clock
    PacketIds,     \* packet ids send_data may draw
    ConnInit,      \* possible states of the DB connection after __init__
    MaxHops,       \* MAX_HOPS, bound of mutate's 'add'
    NoRoute, NoPath, NoTime

ASSUME Self \notin Peers /\ Sink \in Peers /\ RerrFor \subseteq Peers
ASSUME RreqTargets \cup DataFrom \subseteq Peers /\ ConnInit \subseteq {"open", "none"}

Nodes == Peers \cup {Self}
NegInf == 0

VARIABLES
    now,         \* wall clock
    topo,        \* network_topology[n]['last_update'], NoTime while n is absent
    helloTimes,  \* hello_times
    gbest,       \* PSOGAOptimizer.global_best (a path)
    gbestFit,    \* PSOGAOptimizer.global_best_fitness
    rt,          \* routing_table
    asked,       \* destinations an RREQ was sent for
    mainPc,      \* main loop: "idle", "ret" (between 540 and 543 of
                 \* optimize_route), "read" (after find_optimal_route), "dead"
    todo,        \* nodes optimize_all_routes still has to visit
    pending,     \* e2e_pending as a set of [pid, dest, path]
    issued,      \* packet ids drawn so far
    seenAcks,    \* e2e_seen_acks
    e2eRows,     \* rows of e2e_metrics_psoga
    routeRows,   \* best_route values of the rows of rute_optimal_psoga
    conn         \* DatabaseHandler.connection: "open", "broken", "none"

optVars == <<gbest, gbestFit>>
dbVars == <<e2eRows, routeRows, conn>>
vars == <<now, topo, helloTimes, gbest, gbestFit, rt, asked, mainPc, todo,
          pending, issued, seenAcks, e2eRows, routeRows, conn>>

Time == 0..MaxTime
Path == UNION {[1..k -> Nodes] : k \in 2..Cardinality(Nodes)}
RouteEntry == [next_hop : Peers, hop_count : Nat, path : Seq(Nodes)]

-----------------------------------------------------------------------------
(* PSOGAOptimizer *)

\* the available nodes of initialize_population, update_particles, mutate
\* and find_alternative_route: the peers of network_topology whose active
\* flag find_optimal_route has just recomputed as
\* now - last_update <= ROUTE_TIMEOUT.  The stored flag is read nowhere
\* else (print_network_status aside), so the model keeps last_update only;
\* the flag process_rerr clears is overwritten by that recomputation before
\* the optimizer reads it
Avail(t) == {n \in Peers : t[n] # NoTime /\ now - t[n] <= RouteTimeout}

\* validate_route (optimizer and node versions): no repeated node, the
\* destination somewhere on the path, the path starts at self
ValidRoute(p, d) ==
    /\ IsInjective(p)
    /\ d \in Range(p)
    /\ p[1] = Self

\* the swarm and GA operators of the optimizer
Ops == INSTANCE PSOGAOps

\* every path initialize_population, update_particles, arithmetic_crossover
\* and mutate can build in optimize_route(d) when A is available, for every
\* d and A (computed once)
OptPaths == [d \in Peers, A \in SUBSET Peers |-> {q.path : q \in Ops!Reach(d, A)}]

Candidates(d, A) == OptPaths[d, A]

\* calculate_fitness is float('-inf') unless the path has two nodes or
\* more, starts at self, ends at the destination and repeats no node
FitnessFinite(p, d) ==
    /\ Len(p) >= 2
    /\ p[1] = Self
    /\ p[Len(p)] = d
    /\ IsInjective(p)

\* global_best after optimize_route: unchanged when no candidate has a
\* strictly higher fitness, else a candidate with that fitness; a
\* candidate of fitness -inf never beats the initial -inf
BestAfter(d, A) ==
    (IF gbestFit > NegInf THEN {[path |-> gbest, fit |-> gbestFit]} ELSE {})
    \cup {[path |-> c, fit |-> f] : c \in {q \in Candidates(d, A) : FitnessFinite(q, d)},
                                   f \in (gbestFit + 1)..FitMax}

\* find_alternative_route: the best of the one-neighbour paths
AltRoutes(d, A) ==
    {IF nh = d THEN <<Self, nh>> ELSE <<Self, nh, d>> : nh \in A}

\* what optimize_route returns for a global best g
Returned(g, d, A) == IF ValidRoute(g.path, d) THEN {g.path} ELSE AltRoutes(d, A)

-----------------------------------------------------------------------------
(* AODVNode helpers *)

\* mutant: next_hop taken from path[0] instead of path[1]
EntryPathHead(r) == [next_hop |-> r[1], hop_count |-> Len(r) - 1, path |-> r]

\* the routing entry find_optimal_route commits
Entry(r) == [next_hop |-> r[2], hop_count |-> Len(r) - 1, path |-> r]

\* update_metrics, called from process_hello and process_data
Heard(t, n) == [t EXCEPT ![n] = now]

\* DatabaseHandler.insert_optimized_route and insert_e2e_metric: the
\* possible outcomes, as [rows, conn, raised], of an INSERT that turns
\* table into added.
\* check_connection reconnects a missing or closed connection and reports
\* success even when the reconnect failed; the INSERT may fail with a
\* caught Error; a cursor on a None connection raises an AttributeError,
\* which `except Error` does not catch
InsertOutcomes(table, added) ==
    LET ok(c) == {[rows |-> added, conn |-> c, raised |-> FALSE],
                  [rows |-> table, conn |-> c, raised |-> FALSE]}
    IN IF conn = "open"
       THEN ok("open")
       ELSE ok("open")
            \cup {[rows |-> table, conn |-> conn, raised |-> conn = "none"]}

\* find_optimal_route after optimize_route returned route r: the routing
\* entry over table rt0 and, for save_to_db and the sink,
\* insert_optimized_route; res is "ok" (True) or "raised"
Commit(d, save, rt0, r, res) ==
    /\ rt' = [rt0 EXCEPT ![d] = Entry(r)]
    /\ IF save /\ d = Sink
       THEN \E o \in InsertOutcomes(routeRows, routeRows \cup {r}) :
              /\ routeRows' = o.rows
              /\ conn' = o.conn
              /\ res = IF o.raised THEN "raised" ELSE "ok"
       ELSE /\ res = "ok"
            /\ UNCHANGED <<routeRows, conn>>

\* find_optimal_route(d, save) as one step: refresh the active flags, run
\* the optimizer and commit its route over table rt0; res is "ok" (True),
\* "none" (False) or "raised"
FindOptimal(d, save, rt0, res) ==
    LET A == Avail(topo)
    IN IF A = {}
       THEN /\ res = "none"
            /\ rt' = rt0
            /\ UNCHANGED <<optVars, routeRows, conn>>
       ELSE \E g \in BestAfter(d, A) :
              \E r \in Returned(g, d, A) :
                /\ gbest' = g.path
                /\ gbestFit' = g.fit
                /\ Commit(d, save, rt0, r, res)

Results == {"ok", "none", "raised"}

-----------------------------------------------------------------------------
Init ==
    /\ now = 0
    /\ topo = [n \in Peers |-> NoTime]
    /\ helloTimes = [n \in Peers |-> NoTime]
    /\ gbest = NoPath
    /\ gbestFit = NegInf
    /\ rt = [n \in Peers |-> NoRoute]
    /\ asked = {}
    /\ mainPc = "idle"
    /\ todo = {}
    /\ pending = {}
    /\ issued = {}
    /\ seenAcks = {}
    /\ e2eRows = <<>>
    /\ routeRows = {}
    /\ conn \in ConnInit

TypeOK ==
    /\ now \in Time
    /\ topo \in [Peers -> Time \cup {NoTime}]
    /\ helloTimes \in [Peers -> Time \cup {NoTime}]
    /\ gbest \in Path \cup {NoPath}
    /\ gbestFit \in 0..FitMax
    /\ rt \in [Peers -> RouteEntry \cup {NoRoute}]
    /\ asked \subseteq RreqTargets
    /\ mainPc \in {"idle", "ret", "read", "dead"}
    /\ todo \subseteq Peers
    /\ pending \subseteq [pid : PacketIds, dest : Peers, path : Seq(Nodes)]
    /\ issued \subseteq PacketIds /\ seenAcks \subseteq PacketIds
    /\ e2eRows \in Seq([pid : PacketIds, dest : Peers])
    /\ routeRows \subseteq Path
    /\ conn \in {"open", "broken", "none"}

-----------------------------------------------------------------------------
(* Main loop (__main__ and send_data) *)

\* send_data, first part: find_optimal_route(SINK, save_to_db=True) up to
\* optimize_route's validate_route(self.global_best) at 540.  No available
\* node: False, send_data returns.  A global best that fails the check is
\* replaced by find_alternative_route and committed in this step; one that
\* passes is returned by reading self.global_best again at 543
\* (SendReturn), and the sweep and process_rerr, which share the optimizer
\* without a lock, may replace it in between
SendOptimize ==
    /\ mainPc = "idle"
    /\ LET A == Avail(topo) IN
       IF A = {}
       THEN UNCHANGED <<optVars, rt, mainPc, routeRows, conn>>
       ELSE \E g \in BestAfter(Sink, A) :
              /\ gbest' = g.path
              /\ gbestFit' = g.fit
              /\ IF ValidRoute(g.path, Sink)
                 THEN /\ mainPc' = "ret"
                      /\ UNCHANGED <<rt, routeRows, conn>>
                 ELSE \E r \in AltRoutes(Sink, A), res \in Results :
                        /\ Commit(Sink, TRUE, rt, r, res)
                        /\ mainPc' = IF res = "raised" THEN "dead" ELSE "read"
    /\ UNCHANGED <<now, topo, helloTimes, asked, todo, pending, issued, seenAcks, e2eRows>>

\* optimize_route's `return self.global_best` (543) and the rest of
\* find_optimal_route: the route committed and persisted is the global
\* best as it is now, not the one validated; an exception escaping the
\* insert ends the main loop
SendReturn ==
    /\ mainPc = "ret"
    /\ \E res \in Results :
         /\ Commit(Sink, TRUE, rt, gbest, res)
         /\ mainPc' = IF res = "raised" THEN "dead" ELSE "read"
    /\ UNCHANGED <<now, topo, helloTimes, optVars, asked, todo, pending, issued,
                   seenAcks, e2eRows>>

\* send_data, packet part: register the pending packet and its send
Emit(path) ==
    \E pid \in PacketIds \ issued :
       /\ issued' = issued \cup {pid}
       /\ pending' = pending \cup {[pid |-> pid, dest |-> Sink, path |-> path]}

\* send_data, second part: route_info = routing_table[dest] (a KeyError
\* ends the main loop when the entry was deleted meanwhile); an invalid
\* route_info triggers a second find_optimal_route, but the packet still
\* carries the route_info read before it
SendEmit ==
    /\ mainPc = "read"
    /\ UNCHANGED <<now, topo, helloTimes, asked, todo, seenAcks, e2eRows>>
    /\ IF rt[Sink] = NoRoute
       THEN /\ mainPc' = "dead"
            /\ UNCHANGED <<optVars, rt, pending, issued, routeRows, conn>>
       ELSE LET info == rt[Sink] IN
            IF ValidRoute(info.path, Sink)
            THEN /\ Emit(info.path)
                 /\ mainPc' = "idle"
                 /\ UNCHANGED <<optVars, rt, routeRows, conn>>
            ELSE \E res \in Results :
                   /\ FindOptimal(Sink, TRUE, rt, res)
                   /\ IF res = "ok"
                      THEN Emit(info.path)
                      ELSE UNCHANGED <<pending, issued>>
                   /\ mainPc' = IF res = "raised" THEN "dead" ELSE "idle"

\* every fifth cycle: send_rreq for a random node
MainRreq(t) ==
    /\ mainPc = "idle"
    /\ asked' = asked \cup {t}
    /\ UNCHANGED <<now, topo, helloTimes, optVars, rt, mainPc, todo, pending,
                   issued, seenAcks, dbVars>>

\* every seventh cycle: send_rerr for a random routing-table destination
\* and delete its entry
MainRerr(u) ==
    /\ mainPc = "idle"
    /\ rt[u] # NoRoute
    /\ rt' = [rt EXCEPT ![u] = NoRoute]
    /\ UNCHANGED <<now, topo, helloTimes, optVars, asked, mainPc, todo, pending,
                   issued, seenAcks, dbVars>>

-----------------------------------------------------------------------------
(* Periodic optimizer thread (periodic_optimization, optimize_all_routes) *)

\* the sweep's snapshot: nodes whose last HELLO is younger than ROUTE_TIMEOUT
SweepStart ==
    /\ todo = {}
    /\ todo' = {n \in Peers : helloTimes[n] # NoTime /\ now - helloTimes[n] < RouteTimeout}
    /\ UNCHANGED <<now, topo, helloTimes, optVars, rt, asked, mainPc, pending,
                   issued, seenAcks, dbVars>>

\* one find_optimal_route(nid, save_to_db=False) of the sweep
SweepStep(n) ==
    /\ n \in todo
    /\ todo' = todo \ {n}
    /\ \E res \in Results : FindOptimal(n, FALSE, rt, res)
    /\ UNCHANGED <<now, topo, helloTimes, asked, mainPc, pending, issued, seenAcks, e2eRows>>

-----------------------------------------------------------------------------
(* Receiver thread (receive_packets and the process_* handlers) *)

\* process_hello: hello_times and update_metrics for the sender
RecvHello(n) ==
    /\ helloTimes' = [helloTimes EXCEPT ![n] = now]
    /\ topo' = Heard(topo, n)
    /\ UNCHANGED <<now, optVars, rt, asked, mainPc, todo, pending, issued,
                   seenAcks, dbVars>>

\* process_data for a DATA frame addressed to this node: update_metrics only
RecvData(n) ==
    /\ topo' = Heard(topo, n)
    /\ UNCHANGED <<now, helloTimes, optVars, rt, asked, mainPc, todo, pending,
                   issued, seenAcks, dbVars>>

\* process_rrep for the RREP send_rrep builds at target t (source_id =
\* target_id = t, hop_count 1): installed when there is no entry or the
\* stored one has more hops, with path [self, source_id, target_id]
RecvRrep(t) ==
    /\ t \in asked
    /\ IF rt[t] = NoRoute THEN TRUE ELSE rt[t].hop_count > 1
    /\ rt' = [rt EXCEPT ![t] = [next_hop |-> t, hop_count |-> 1,
                                path |-> <<Self, t, t>>]]
    /\ UNCHANGED <<now, topo, helloTimes, optVars, asked, mainPc, todo,
                   pending, issued, seenAcks, dbVars>>

\* process_rerr: delete the route; if the node is in the topology mark it
\* inactive and run find_optimal_route(u, save_to_db=False)
RecvRerr(u) ==
    /\ LET rt0 == [rt EXCEPT ![u] = NoRoute] IN
       IF topo[u] # NoTime
       THEN \E res \in Results : FindOptimal(u, FALSE, rt0, res)
       ELSE /\ rt' = rt0
            /\ UNCHANGED <<optVars, routeRows, conn>>
    /\ UNCHANGED <<now, topo, helloTimes, asked, mainPc, todo, pending, issued,
                   seenAcks, e2eRows>>

\* mutant: process_ack without the pop of e2e_pending
RecvAckKeepPending(pid) ==
    /\ pid \in issued
    /\ pid \notin seenAcks
    /\ seenAcks' = seenAcks \cup {pid}
    /\ LET pend == {e \in pending : e.pid = pid} IN
       /\ UNCHANGED pending
       /\ IF pend = {}
          THEN UNCHANGED <<e2eRows, conn>>
          ELSE \E e \in pend :
                 \E o \in InsertOutcomes(e2eRows, Append(e2eRows, [pid |-> pid, dest |-> e.dest])) :
                   /\ e2eRows' = o.rows
                   /\ conn' = o.conn
    /\ UNCHANGED <<now, topo, helloTimes, optVars, rt, asked, mainPc, todo,
                   issued, routeRows>>

\* process_ack: drop a seen packet id, else mark it seen, pop its pending
\* entry and, when one was pending, insert the e2e row (exceptions of the
\* insert are swallowed)
RecvAck(pid) ==
    /\ pid \in issued
    /\ pid \notin seenAcks
    /\ seenAcks' = seenAcks \cup {pid}
    /\ LET pend == {e \in pending : e.pid = pid} IN
       /\ pending' = pending \ pend
       /\ IF pend = {}
          THEN UNCHANGED <<e2eRows, conn>>
          ELSE \E e \in pend :
                 \E o \in InsertOutcomes(e2eRows, Append(e2eRows, [pid |-> pid, dest |-> e.dest])) :
                   /\ e2eRows' = o.rows
                   /\ conn' = o.conn
    /\ UNCHANGED <<now, topo, helloTimes, optVars, rt, asked, mainPc, todo,
                   issued, routeRows>>

-----------------------------------------------------------------------------
(* Environment *)

Tick ==
    /\ now < MaxTime
    /\ now' = now + 1
    /\ UNCHANGED <<topo, helloTimes, optVars, rt, asked, mainPc, todo, pending,
                   issued, seenAcks, dbVars>>

\* the MySQL server closes the connection
DbDrop ==
    /\ conn = "open"
    /\ conn' = "broken"
    /\ UNCHANGED <<now, topo, helloTimes, optVars, rt, asked, mainPc, todo,
                   pending, issued, seenAcks, e2eRows, routeRows>>

Next ==
    \/ Tick
    \/ DbDrop
    \/ SendOptimize
    \/ SendReturn
    \/ SendEmit
    \/ \E t \in RreqTargets : MainRreq(t)
    \/ \E u \in Peers : MainRerr(u)
    \/ SweepStart
    \/ \E n \in Peers : SweepStep(n)
    \/ \E n \in Peers : RecvHello(n)
    \/ \E n \in DataFrom : RecvData(n)
    \/ \E t \in Peers : RecvRrep(t)
    \/ \E u \in RerrFor : RecvRerr(u)
    \/ \E pid \in PacketIds : RecvAck(pid)

Spec == Init /\ [][Next]_vars

\* the end-to-end tracker seen as E2EContract: every packet id drawn was
\* sent to the sink, e2e_pending holds the outstanding ones
E2E == INSTANCE E2EContract WITH
    Dests <- {Sink},
    sent <- {[pid |-> p, dest |-> Sink] : p \in issued},
    outstanding <- {[pid |-> e.pid, dest |-> e.dest] : e \in pending},
    acked <- seenAcks,
    rows <- e2eRows

-----------------------------------------------------------------------------
(* Properties *)

\* Route persistence: every route send_data persists for the sink passed
\* validate_route (no repeated node, starts at self, contains the sink).
\* optimize_route checks self.global_best at 540 and returns it by reading
\* it again at 543, while the periodic sweep and process_rerr run
\* optimize_route on the same optimizer object
PersistedRoutesValid ==
    \A r \in routeRows : ValidRoute(r, Sink)

\* Routing table (spec section 8): every route ends at its destination
RouteEndsAtDest ==
    \A d \in Peers : rt[d] # NoRoute => rt[d].path[Len(rt[d].path)] = d

\* Main loop: no exception escapes send_data, so the agent keeps sending
\* (spec: no error escapes to abort the agent)
MainLoopAlive == mainPc # "dead"

\* send_data: every packet carries a route that passes validate_route,
\* the check send_data itself applies to route_info
DataPathValid == \A e \in pending : ValidRoute(e.path, e.dest)

\* The agent's end-to-end tracker implements E2EContract: send_data
\* (main thread) and process_ack (receiver thread) interleaved, with DB
\* drops, a packet leaves e2e_pending exactly when its ACK is accounted,
\* an ACK is accounted at most once and only for a packet sent, and each
\* e2e row is appended by the accounting of its packet
E2ESpec == E2E!Spec

=============================================================================
