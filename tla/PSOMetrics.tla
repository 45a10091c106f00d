------------------------------ MODULE PSOMetrics ------------------------------
(***************************************************************************)
(* The metric store of the PSO agent (src/Pengujian_psogaupdate_e2e_fixed  *)
(* .py) and the fitness the optimizer computes from it.                    *)
(*                                                                         *)
(* process_hello and process_data measure the frame locally (RSSI probe,  *)
(* calculate_actual_delay, a clamped PDR), store it with update_metrics    *)
(* as network_topology[src]['metrics'] and with record_edge_metric on the  *)
(* edge (src, self), and then store every entry of the frame's             *)
(* hop_metrics list on the edge (u, v) it names.  calculate_fitness reads  *)
(* edge (u, v) of a path through _get_edge_metric: the mean of the edge's  *)
(* ring buffer, else the last metrics of node v, else a default.           *)
(*                                                                         *)
(* Metric values are integers, means and fitness exact rationals.          *)
(***************************************************************************)
EXTENDS Integers, Sequences, SequencesExt, FiniteSets

CONSTANTS
    Self,           \* this agent's node id
    Peers,          \* ids of the neighbours whose frames arrive
    Cap,            \* maxlen of the edge ring buffers (20 in the code)
    MinDelay,       \* MIN_DELAY_MS
    Expected,       \* int(ROUTE_TIMEOUT / HELLO_INTERVAL)
    HelloCounts,    \* HELLOs the window may hold
    RawRssi,        \* values the iwconfig probe may return
    RawDelay,       \* (now - timestamp) * 1000 for a plausible timestamp
    DataPdr,        \* values calculate_actual_pdr may return
    ReportEdges,    \* (u, v) pairs a hop_metrics entry may name
    Reports,        \* [rssi, delay, pdr] a neighbour may report in hop_metrics
    NoMetrics       \* network_topology has no 'metrics' for the node

Nodes == Peers \cup {Self}
Triple == [rssi : Int, delay : Int, pdr : Int]

VARIABLES
    em,     \* em[<<u, v>>]: edge_metrics[(u, v)] as a sequence of triples, for
            \* the edges a path from self can use (an edge (src, self)
            \* lies on no such path, so calculate_fitness never reads it)
    topoM   \* topoM[v]: network_topology[v]['metrics'] or NoMetrics

vars == <<em, topoM>>

-----------------------------------------------------------------------------
(* Exact rationals *)

RECURSIVE Gcd(_, _)
Gcd(a, b) == IF b = 0 THEN a ELSE Gcd(b, a % b)

\* n / d in lowest terms, d > 0
Q(n, d) == LET g == Gcd(IF n < 0 THEN -n ELSE n, d) IN
           [num |-> n \div g, den |-> d \div g]
QAdd(a, b) == Q(a.num * b.den + b.num * a.den, a.den * b.den)
QMul(a, b) == Q(a.num * b.num, a.den * b.den)
QLeq(a, b) == a.num * b.den <= b.num * a.den
QMaxOf(a, b) == IF QLeq(a, b) THEN b ELSE a
QMinOf(a, b) == IF QLeq(a, b) THEN a ELSE b

-----------------------------------------------------------------------------
(* Measurement *)

\* calculate_actual_delay: negative clock drift clamps to 0, then the floor
ActualDelay(raw) == IF raw < 0 THEN MinDelay ELSE IF raw < MinDelay THEN MinDelay ELSE raw

\* calculate_hello_pdr: got HELLOs in the window against the expected count
HelloPdr(got) == IF got >= Expected THEN 100 ELSE (got * 100) \div Expected

\* mutant: a deque without maxlen
RecordEdgeNoEvict(m, e, t) == [m EXCEPT ![e] = Append(@, t)]

\* record_edge_metric: append to the edge's ring buffers, evicting the oldest
RecordEdge(m, e, t) ==
    [m EXCEPT ![e] = IF Len(@) = Cap THEN Append(Tail(@), t) ELSE Append(@, t)]

\* the hop_metrics lists a frame may carry (at most one entry)
HopLists == {<<>>} \cup {<<[u |-> e[1], v |-> e[2], m |-> r]>> : e \in ReportEdges, r \in Reports}

\* the frame's local measurement and hop_metrics: update_metrics,
\* record_edge_metric on (src, self) (not kept, see em), then each
\* reported edge
Store(src, local, hops) ==
    /\ topoM' = [topoM EXCEPT ![src] = local]
    /\ em' = FoldLeft(LAMBDA m, h : RecordEdge(m, <<h.u, h.v>>, h.m), em, hops)

\* process_hello, metric part: the probe's RSSI, the actual delay, the
\* windowed HELLO PDR
RecvHello(src) ==
    \E rssi \in RawRssi, raw \in RawDelay, got \in HelloCounts, hops \in HopLists :
        Store(src, [rssi |-> rssi, delay |-> ActualDelay(raw), pdr |-> HelloPdr(got)], hops)

\* process_data for self, metric part: the probe's RSSI, the actual delay,
\* the sent/received PDR
RecvData(src) ==
    \E rssi \in RawRssi, raw \in RawDelay, pdr \in DataPdr, hops \in HopLists :
        Store(src, [rssi |-> rssi, delay |-> ActualDelay(raw), pdr |-> pdr], hops)

-----------------------------------------------------------------------------
(* Fitness *)

\* _get_edge_metric(u, v, key, default): mean of the edge's buffer, else the
\* last metrics of v, else the default
EdgeMetric(u, v, key, default) ==
    IF <<u, v>> \in DOMAIN em /\ em[<<u, v>>] # <<>>
    THEN Q(FoldLeft(LAMBDA s, t : s + t[key], 0, em[<<u, v>>]), Len(em[<<u, v>>]))
    ELSE IF v \in DOMAIN topoM /\ topoM[v] # NoMetrics
    THEN Q(topoM[v][key], 1)
    ELSE Q(default, 1)

\* mutant: norm_latency without its max(0.0, ...) floor
HopFitLatencyUnfloored(u, v) ==
    LET rssi == EdgeMetric(u, v, "rssi", -90)
        delay == EdgeMetric(u, v, "delay", 100)
        pdr == EdgeMetric(u, v, "pdr", 50)
        normRssi == QMaxOf(Q(0, 1), QMinOf(Q(1, 1), QMul(QAdd(rssi, Q(110, 1)), Q(1, 40))))
        normLatency == QAdd(Q(1, 1), QMul(delay, Q(-1, 100)))
        normPdr == QMul(pdr, Q(1, 100))
    IN QAdd(QAdd(QMul(Q(1, 2), normRssi), QMul(Q(3, 10), normLatency)),
            QMul(Q(1, 5), normPdr))

\* one hop of calculate_fitness: clamped RSSI, latency floored at 0 only,
\* PDR as reported
HopFit(u, v) ==
    LET rssi == EdgeMetric(u, v, "rssi", -90)
        delay == EdgeMetric(u, v, "delay", 100)
        pdr == EdgeMetric(u, v, "pdr", 50)
        normRssi == QMaxOf(Q(0, 1), QMinOf(Q(1, 1), QMul(QAdd(rssi, Q(110, 1)), Q(1, 40))))
        normLatency == QMaxOf(Q(0, 1), QAdd(Q(1, 1), QMul(delay, Q(-1, 100))))
        normPdr == QMul(pdr, Q(1, 100))
    IN QAdd(QAdd(QMul(Q(1, 2), normRssi), QMul(Q(3, 10), normLatency)),
            QMul(Q(1, 5), normPdr))

\* 1 + ln(1 + hops) to three decimals: the divisor of the hop penalty
PenaltyDivisor(h) == Q(CASE h = 1 -> 1693 [] h = 2 -> 2099 [] h = 3 -> 2386
                          [] OTHER -> 2609, 1000)

\* the valid paths calculate_fitness scores (others get -inf)
ValidPaths(d) ==
    {p \in UNION {[1..k -> Nodes] : k \in 2..Cardinality(Nodes)} :
        p[1] = Self /\ p[Len(p)] = d /\ Cardinality(ToSet(p)) = Len(p)}

\* calculate_fitness(path, d) for a valid path: mean hop fitness over the
\* hop penalty, returned as <<mean, divisor>> (fitness = mean / divisor)
MeanHopFit(p) ==
    LET h == Len(p) - 1 IN
    QMul(FoldLeft(LAMBDA s, i : QAdd(s, HopFit(p[i], p[i + 1])), Q(0, 1),
                  [j \in 1..h |-> j]),
         Q(1, h))

-----------------------------------------------------------------------------
Init ==
    /\ em = [e \in ReportEdges |-> <<>>]
    /\ topoM = [v \in Nodes |-> NoMetrics]

Next == \E src \in Peers : RecvHello(src) \/ RecvData(src)

Spec == Init /\ [][Next]_vars

TypeOK ==
    /\ em \in [ReportEdges -> Seq(Triple)]
    /\ \A e \in DOMAIN em : Len(em[e]) <= Cap
    /\ topoM \in [Nodes -> Triple \cup {NoMetrics}]

-----------------------------------------------------------------------------
(* Properties *)

\* Spec (PSO-GA, fitness): the fitness of every valid path lies in [0, 1],
\* whatever the agent has measured and its neighbours have reported in
\* hop_metrics (calculate_fitness over _get_edge_metric and the store
\* written by process_hello / process_data).
FitnessInRange ==
    \A d \in Peers : \A p \in ValidPaths(d) :
        LET f == MeanHopFit(p)
            pen == PenaltyDivisor(Len(p) - 1)
        IN QLeq(Q(0, 1), f) /\ QLeq(f, pen)

=============================================================================
