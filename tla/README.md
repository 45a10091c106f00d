# TLA+ models of the FANET AODV and PSO-GA agents

The repository has two Raspberry-Pi agents for a small flying ad-hoc network
of ESP32 nodes:

* `src/aodv_only_rpi_metrics.py` is the baseline. Each node runs a plain AODV
  agent over UDP broadcast frames that carry a 14-byte header. It does route
  discovery by RREQ/RREP with reverse routes, DATA forwarding, RERR
  invalidation and end-to-end ACKs. Metric rows (window PDR, latency, hops) go
  to MySQL.
* `src/Pengujian_psogaupdate_e2e_fixed.py` is the PSO-GA variant. It has the
  same frame format, but routes come from a particle-swarm / genetic optimizer
  over the node's measured topology. A periodic optimizer thread re-optimizes
  the routes, and the best routes to the sink are persisted.

## Inventory

| Part | Source | State | Operations | Interacts with |
|---|---|---|---|---|
| Wire codec / transport | both, `send_packet`, `receive_packets` | socket | header pack/unpack; ttl, destination-MAC and broadcast filter; dispatch by type | every handler |
| Identity / MAC map | both, `MAC_ADDRESSES`, `mac_to_node_id`, `node_id_to_mac` | static table | id <-> MAC; unknown MAC -> id -1; unknown id -> no unicast | transport |
| AODV-only agent | `aodv_only_rpi_metrics.py` `AODVNode` | `routing_table`, `reverse_route`, `seen_rreq`, `sequence_num` | `send_rreq`, `discover_route`, `send_data`, `process_rreq/rrep/data/ack/rerr`, `send_hello` | transport, E2E tracker |
| E2E tracker (both) | `e2e_pending`, `e2e_sent_log`, `e2e_ack_log`, `e2e_seen_acks` | per-packet pending, per-destination time-stamped logs | `send_data` registers; `process_ack` resolves; `_e2e_window_pdr` | DB |
| Persistence | `DatabaseHandler` in both | MySQL connection | `check_connection`, `insert_metric`, `insert_optimized_route` | E2E tracker, optimizer |
| PSO-GA optimizer | `PSOGAOptimizer` | population, `global_best`, `global_best_fitness` | `initialize_population`, `update_particles`, `crossover`, `mutate`, `calculate_fitness`, `optimize_route`, `validate_route`, `find_alternative_route` | metric store, PSO agent |
| PSO agent | PSO `AODVNode` | routing table, topology, hello times, metrics | `find_optimal_route`, `send_data`, handlers, `optimize_all_routes` (periodic thread) | optimizer, DB |
| Metric store | PSO `update_metrics`, HELLO PDR | edge metrics, hello counters | update on HELLO/DATA; PDR over a window | optimizer fitness |
| Threads | both `main` | — | a receiver thread, a HELLO thread, the main send loop, and (PSO) a periodic optimizer | all of the above, sharing the state above without locks |
| RSSI probe, printing | `get_actual_rssi`, `safe_print`, `print_status` | — | I/O only | — |

The hard behaviours are:

* the radio loses, duplicates and reorders frames;
* the receiver thread's handlers interleave with the main thread's discovery
  wait and send;
* routes expire by wall-clock time between a check and a use;
* late RREPs and ACKs arrive after a retry or after their window;
* ACKs travel by a route different from the DATA's route;
* DB inserts fail;
* (PSO) one optimizer object is shared by three threads, and its best path
  persists across calls.

## Modules

### `AODVNet.tla`: the AODV-only network (built)

This module covers every node of the network running `aodv_only_rpi_metrics.py`.

* **Constants.** The topology is the constants `Nodes` and `Links`, which are
  symmetric radio links. `KnownMac` is the set of ids that have a MAC in
  `MAC_ADDRESSES`. `SendTo[n]` is the destination of node n's main loop.
  `ForeignRerr` is the set of destinations that RERRs from other firmware may
  name; the AODV-only agent never sends a RERR itself.

* **State.** Each code variable has a model variable:

  | Code | Model |
  |---|---|
  | `routing_table` | `rt` |
  | `reverse_route` | `rev` |
  | `seen_rreq` | `seenRreq` |
  | `sequence_num` | `seqNum` |
  | the discovery loop's position | `app` (`pc`, `tries`, `end`, `ok`) |
  | `e2e_pending` | `pending` |
  | `e2e_sent_log` | `sentLog` |
  | `e2e_ack_log` | `ackLog` |
  | `e2e_seen_acks` | `seenAcks` |
  | the metrics table | `db` |

  `now` is the wall clock. `net` is every frame ever sent. The radio may
  deliver a frame to any neighbour any number of times, or never, and in any
  order. `issuer` records which node drew each packet id.

* **Actions.**
  * `send_data` is split where its thread blocks: `StartSend` (the cached
    route check, or the first RREQ), `RrepArrived`, `RetryRreq`, `GiveUp`
    (the end of `discover_route`), and `FinishSend` (lines 375-429). This lets
    receiver steps run during the wait.
  * Each `process_*` handler is one atomic action, `RecvRreq` … `RecvRerr`.
    It covers the handler's whole body, including the frames it sends.
  * `Hears` is the `receive_packets` filter: the link exists and the frame is
    addressed to this node or broadcast.
  * `SourceId` is the MAC lookup: an unknown sender becomes id -1 (`NoNode`),
    and every handler drops its frames.
  * `InsertMetric` either appends the row or loses it, which models a failed
    `check_connection` or INSERT.

* **Abstractions.**
  * `send_hello` is not modelled. HELLO frames only advance `sequence_num`,
    which is only used as an RREQ id and compared for equality, and
    `process_hello` changes nothing that the other handlers read.
  * Packet ids are drawn fresh, so a `getrandbits(32)` collision is excluded
    (see hazards).
  * The window PDR is `min(100, acks*100 \div sent)`, the integer floor of the
    code's float.
  * Time is an integer clock. Only the order of `now - t` against
    `ROUTE_TIMEOUT`, `E2E_WINDOW_SEC` and the discovery wait matters, so all
    three are 1 tick.

`MC_AODVNet.tla` instantiates it on three nodes (0 is the sink). It defines
two topologies: the line 2-1-0 and the triangle. It also defines the send
plans `ToSink` (2 sends to 0) and `BothWays` (2 sends to 0, and 0 sends to 2).

### `PSOAgent.tla`: the PSO-GA agent (built)

This module models node 4 running `Pengujian_psogaupdate_e2e_fixed.py`
against an environment of neighbours (the sink 0, and 1).

* **Threads.** Three threads share the agent's state without locks. The
  model has one action per step:
  * **Main loop.** `send_data` is split in two places. `SendOptimize` is
    `find_optimal_route(SINK, True)` up to `optimize_route`'s
    `validate_route(self.global_best)` at line 540. A global best that fails
    the check is replaced by `find_alternative_route` and committed in the
    same step. When it passes, `SendReturn` is line 543's second read of
    `self.global_best` and the commit (`Commit`), so the sweep and
    `process_rerr` can replace the global best between the check and the
    use. `SendEmit` covers
    `route_info = routing_table[dest]`, the validate/re-find branch and the
    packet registration (`Emit`). `MainRreq` and `MainRerr` are the 5th/7th
    cycle steps; the counters are abstracted to choices.
  * **Periodic optimizer thread.** `SweepStart` takes the `hello_times`
    snapshot of `optimize_all_routes`. `SweepStep` is one
    `find_optimal_route(nid, False)`, as one step.
  * **Receiver thread.** `RecvHello`, `RecvData`, `RecvRrep`, `RecvRerr` and
    `RecvAck`, one atomic step per handler.

  The sweep's calls, `process_rerr`'s call and `send_data`'s second call
  keep their check and re-read in one step, so the model's interleavings
  are a subset of the program's. The swarm of a call is also one step:
  another thread replacing `self.population` between line 464 and line 465
  can make the global best a path for another destination. That is the
  stale global best of finding 4 again (hazard P:465).
* **Optimizer.** `FindOptimal` models `find_optimal_route`:
  * compute the available nodes (`Avail`: peers whose `last_update` is
    within `ROUTE_TIMEOUT`);
  * run `optimize_route`;
  * commit `Entry(r)`;
  * persist the route for the sink through `InsertOutcomes`.

  Inside `optimize_route`, the optimizer's `global_best` and its fitness are
  state variables (`gbest`, `gbestFit`) that survive across calls, exactly
  as in the code.
  * `BestAfter` is the global best after a run. It stays the same when no
    candidate is strictly fitter; otherwise it becomes a fitter candidate.
    Only candidates whose `calculate_fitness` is not `-inf`
    (`FitnessFinite`: at least two nodes, starting at self, ending at the
    destination, no repeated node) can win, since the comparison is a
    strict `>` and the initial fitness is `-inf`.
  * `Candidates(d, A)` is the set of paths the PSO-GA operators of
    `PSOGAOps` can build for destination `d` when `A` is available
    (`OptPaths`, computed once for every `d` and `A`).
  * `Returned` models the `validate_route` safety net and the
    `find_alternative_route` fallback (`AltRoutes`).
* **Fitness.** Fitness is a level `1..FitMax`, and 0 stands for `-inf`. It is
  chosen per evaluation because it depends on edge metrics that the receiver
  thread keeps changing.
* **Persistence.** The DB connection is `open`, `broken` or `none`:
  * `check_connection` reconnects or silently fails;
  * an INSERT on a broken connection raises a caught `Error`;
  * an INSERT on `None` raises an uncaught `AttributeError`.
* **Abstraction of `network_topology`.** The model keeps only `last_update`.
  The stored `active` flag is recomputed by every `find_optimal_route`
  before the optimizer reads it, so the flag that `process_rerr` clears
  never takes effect.

`MC_PSOAgent.tla` fixes the peers `{0, 1}` and the MAC table `{0..3}` of the
code.

### `DiscoveryContract.tla`: what `discover_route` promises (built)

This module is an abstract spec of `discover_route` (A:354-371), seen from its
caller `send_data`, for each node. Its state is:

* `phase`: idle, waiting inside the call, or returned;
* `rreqs`: the RREQs the current call has issued;
* `ok`: the value returned;
* `valid[n]`: the destinations n has a valid route to. Any step of the
  environment (`Env`) may change it.

It has these actions:

* `Call` returns at once with success when the route is valid; otherwise it
  issues the first RREQ.
* `Reissue` issues another RREQ while at most `retries` have gone out.
* `Return` may return failure only after the last RREQ, and always returns
  exactly whether the route is valid.
* `Consume` is the caller using the result.

Its `Spec` has weak fairness on `Reissue` and `Return`. So it promises both
the bound on RREQs and that every call returns.

`AODVNet` refines it. `Contract == INSTANCE DiscoveryContract WITH ...` maps
each component as follows:

| Contract | AODVNet |
|---|---|
| `phase` | `app[n].pc` |
| `rreqs` | `tries + 1` while waiting |
| `ok` | `app[n].ok` |
| `valid` | `RouteValid` over the routing table |
| `Target` | `SendTo` |

`ContractSpec == Contract!Spec` is checked as a PROPERTY. Every receiver
handler and `Tick` map to `Env` or to stuttering.

**Fairness (AODVNet `Fairness`).** Two things are assumed fair:

* `Tick` is weakly fair, because wall-clock time passes.
* The main thread's wait actions (`RrepArrived`, `RetryRreq`, `GiveUp`) are
  weakly fair as one disjunction. The thread is a dedicated OS thread that
  wakes from `_rrep_cv.wait(timeout=0.2)` at least every 0.2 s and
  re-checks its deadline.

The receiver handlers get no fairness, because a frame may be lost for ever.
Two guards keep time faithful to the 0.2 s polling:

* `WaitersOnTime`: `Tick` never passes a waiter's deadline before the waiter
  has acted on it.
* `DiscoveryFits(n)`: a send starts a discovery only when all of its
  `retries + 1` RREQs and waits fit under the model's bounds `MaxSeq` and
  `MaxTime`. This is a bound of the model, named so that the clock bound
  never cuts a discovery short.

### `PSOMetrics.tla`: the metric store and the fitness (built)

This module models node 4's metric store and `calculate_fitness`, with
exact values.

**Store.** The store has two variables:

* `em` is `edge_metrics`, one ring buffer of `Cap` triples per edge. Only the
  edges a path from the agent can use are kept. `(src, self)` lies on no such
  path, so `calculate_fitness` never reads it.
* `topoM` is `network_topology[v]['metrics']`.

**Receiving.** `RecvHello` and `RecvData` model the metric part of
`process_hello` and `process_data`. The local measurement is:

* the RSSI probe's value;
* `calculate_actual_delay` (`ActualDelay`, with clock drift clamped);
* `calculate_hello_pdr` (`HelloPdr`) or the DATA PDR.

The handler stores that measurement with `update_metrics`. It then stores
each `hop_metrics` entry of the frame on its edge (`Store`, a `FoldLeft` of
`RecordEdge`).

**Fitness.**

* `EdgeMetric` is `_get_edge_metric`: the buffer mean, else node v's last
  metrics, else the default.
* `HopFit` and `MeanHopFit` are the body of `calculate_fitness`.
* The divisor `1 + ln(1 + hops)` is tabulated to three decimals
  (`PenaltyDivisor`).

**Arithmetic.** Values are rationals `[num, den]`, kept in lowest terms with
a RECURSIVE `Gcd`. This keeps every product within TLC's 32-bit integers.

`MC_PSOMetrics.tla` supplies the following inputs:

* raw delays that are negative, normal and 1.5 s;
* RSSI inside and past the clamp;
* HELLO counts below and above the expected count;
* neighbour reports on the edges of `[4, 0]` and `[4, 1, 0]`.

The negative sets are defined there, because a .cfg cannot hold negative
numbers.

### `PSOGAOps.tla`: the optimizer's path operators (built)

The optimizer's operators, written as pure operators. Each one returns the
set of particles that one call can produce, one particle for each outcome of
its random choices. A particle is its path and the length of its velocity
list.

* The velocity values only pick an index into the available nodes, so any
  index is allowed.
* The fitness only decides which particles survive.

| Operator | Code |
|---|---|
| `InitParticles(d, A)` | `initialize_population`: `hop_count - 2` picks among the available nodes other than `d`, each appended when new, then `d` |
| `UpdateParticle(q, d, A)` | `update_particles`: at most `min(len(velocity), len(path) - 1)` picks, skipping repeats and `d`, then `d` |
| `Mutate(q, d, A)` | `mutate`: `MutatedPaths` (add at Python positions `1..len-1` below `MAX_HOPS`, remove, replace), then `Repair` (the seen/uniq dedup, self in front, `d` at the end) |
| `Crossover(q, r, d)` | `arithmetic_crossover`: `max(1, int(alpha * n))` of the union of the parents' middles, then `dict.fromkeys` |
| `Generation(S, d, A)` | one iteration of `optimize_route`: `update_particles` and `apply_genetic_operations`; selection and elitism only copy particles |
| `Reach(d, A)` | the fixpoint of `Generation` from `InitParticles` (the `RECURSIVE` `Closure`), i.e. every particle any number of iterations can hold |

`Crossover` lets the chosen middle nodes come in any order. This is a
superset of the orders the code's position-key sort yields. With two peers a
middle has at most one node, so the superset adds no path in the runs.

`PSOAgent` instantiates the module as `Ops` and takes its candidate paths
from `Ops!Reach`. Before the change, `Candidates` was written by hand as the
set of all simple paths. Both versions give the same state count (1,119,078
for the core configuration), so on these peers the operators reach exactly
the simple paths. Whatever the operators built, `calculate_fitness`'s `-inf`
guard keeps every other path out of the global best. So no property about
the shape of the global best can be broken by a mutant of one definition.

`MC_PSOAgent.tla` asserts `ASSUME OptPaths = OptPaths`. The comparison makes
TLC store the table as an explicit function when the model is loaded. Left
lazy, the table is re-evaluated at every lookup, which makes the runs about
20 times slower. `PSOGAOps` also avoids `FoldLeft` with a `LAMBDA`: a
constant definition that uses it is not cached by TLC.

### `E2EContract.tla`: what the end-to-end tracker promises (built)

This module is the abstract specification of an agent's end-to-end tracker.
It covers:
* the registration in `e2e_pending` by `send_data`;
* `process_ack` with `e2e_seen_acks`;
* the e2e row of `insert_e2e_metric`.

| Variable | Meaning |
|---|---|
| `sent` | every `[pid, dest]` sent so far |
| `outstanding` | the sent packets still waiting for their ACK |
| `acked` | the ids whose ACK has been accounted |
| `rows` | the persisted e2e rows |

The actions are:
* `Send(pid, d)`: a fresh id.
* `Ack(s)`: a sent packet that is not yet accounted leaves `outstanding` and
  is accounted. Its row is appended, or is not, because the insert may fail.

Nothing is promised about delivery, so the specification has no fairness.

`PSOAgent` defines `E2E == INSTANCE E2EContract WITH ...`. The refinement
mapping sends:
* `sent` to the drawn ids, all for the sink;
* `outstanding` to `pending`;
* `acked` to `seenAcks`;
* `rows` to `e2eRows`.

Every other step of the agent is a stuttering step of the contract.
`E2ESpec == E2E!Spec` is checked by `pso_threads`.

In the PSO agent, accounting at most once is guaranteed twice over. The seen
check of `process_ack` is one guarantee. The other is `e2e_pending.pop`: a
duplicate ACK finds no pending entry, `dest_id` is `None`, and no row is
written. With the seen check removed, `E2ESpec` and at-most-once rows still hold on the `pso_threads` configuration, because
every duplicate ACK is then a stuttering step. The mutant that breaks
`E2ESpec` is therefore the one that drops the pop.

The AODV-only agent does not refine this contract, and its run
`relayack` shows why: a relay accounts an ACK for a packet it never sent
(finding 2).

## Runs

All runs use `RouteTimeout = E2EWindow = WaitTicks = 1` and `Retries = 1`.
The first five runs use `MaxTime = 3` and `MaxSeq = 2`. `discovery` uses
`MaxSeq = 3`, so that an RREQ beyond `retries + 1` would still have an id
and could not be hidden by the bound.
`loop` uses `MaxTime = 4` and `MaxSeq = 3`, so that a route can expire and be
rediscovered. With these bounds routes do expire while a
send is in progress, a retry happens, and a second RREQ id exists. All runs
set `CHECK_DEADLOCK FALSE`. The agents never stop; their only terminal states
are the ones where the clock, the sequence numbers or the packet ids are
exhausted.

| Run | Config | Checks | Result |
|---|---|---|---|
| line | line 2-1-0, MaxHops 3, 2 packet ids, RERR for any node | `RreqForwardedOnce`: an RREQ is rebroadcast at most once per node, despite echoes and duplicates. `HopCountSound`: no installed hop count is below the true graph distance, including replies from intermediate tables and routes invalidated by RERR. | passes (about 382k states) |
| relayack | line, both directions | `AckOnlyBySource` (a metric row is written only by the packet's source) | **violated**: the sink's ACK goes to its next hop 1, which records it as its own |
| window | triangle, 2 packet ids | `WindowPdrFullOnlyIfAllAcked`, an action property: a 100% window PDR row means every send in the window was acknowledged | **violated**: the ACK of a send that has left the window counts toward the window |
| discovery | triangle, node 2 sends to 0, MaxHops 1, one packet id, RERRs only for the sink, `FairSpec` | `TypeOK`, which includes `ttl >= 1` for every frame sent: forwarding stops when `ttl - 1 <= 0`. `AckRecordedOnce`: a duplicated ACK yields one row. `PendingUnacked`: an acknowledged packet is never pending. The entry is registered before the DATA frame is sent, so its ACK can only follow it, and `process_ack` pops it. `DiscoveryReturns`: every `discover_route` call returns, with frames lost. `ContractSpec`: the main thread refines `DiscoveryContract`. | passes (about 113k states, 25 s) |
| loop | line, nodes 1 and 2 both send to 0, MaxHops 3 | `LoopFree`: the next hops of valid entries toward a destination form no cycle | **violated**: 1's route to 0 expires; 2 answers 1's RREQ from its route via 1, and 1 installs next hop 2 |

The PSOMetrics runs use `Cap = 2`, so that eviction happens, and
`MinDelay = 10` and `Expected = 5`, as in the code.

| Run | Config | Checks | Result |
|---|---|---|---|
| pso_metrics | neighbour reports within the spec's ranges | `TypeOK`, which includes buffers within `Cap`. `FitnessInRange`: every valid path's fitness is in [0, 1], with clamped clock drift, HELLO over-count and saturated RSSI. | passes (about 31k states, 15 s) |

PSOAgent runs use `RouteTimeout = 1`, `FitMax = 2` (so that a stale best
can beat every new candidate), and `MaxTime = 1`. The features that are
not needed are switched off with the constants `RerrFor`, `RreqTargets` and
`DataFrom`. This keeps each run under three minutes. With `MaxTime = 2`, so
that routes also expire, `pso_threads` takes 4m14 (2.1M states) even with
RERRs for the sink only. Its properties (the types and the end-to-end
tracker) do not depend on route expiry. `pso_threads` fires every
action of the module.

| Run | Config | Checks | Result |
|---|---|---|---|
| pso_threads | sweep, main loop (split at 540/543 and at the table read), HELLO, ACK, DB drops, RERRs for both peers, RREPs from the sink, DATA from node 1; one packet id, MaxTime 1 | `TypeOK`, which includes `next_hop` being a peer taken from `path[1]`. `E2ESpec`: the tracker refines `E2EContract` (it implies that an accounted packet is not pending). | passes (about 742k states, 2m10) |
| pso_stale | sweep and main loop only | `RouteEndsAtDest` (spec §8) | **violated**: the sweep commits `[4,1,0]`, the sink's best, as the route to node 1 |
| pso_gap | sweep and main loop only | `PersistedRoutesValid`: every route persisted for the sink passes `validate_route` | **violated**: `send_data` validates `[4,0]`, the sweep's optimization for node 1 makes `[4,1]` the global best, and line 543 returns it, so it is committed and persisted as the sink route |
| pso_dbnone | connection None at start | `MainLoopAlive` | **violated**: `AttributeError` from `insert_optimized_route` ends the main loop |
| pso_keyerror | RERR for the sink | `MainLoopAlive` | **violated**: `KeyError` at `send_data`'s table read |
| pso_datapath | RREP from the sink | `DataPathValid` | **violated**: the packet is sent and registered with `[4,0,0]` after the re-find |

Every property of a passing run has a mutant in `PROJECT.json`, and TLC
finds the property violated when the mutant replaces the code's action:

| Mutant | What it does |
|---|---|
| `RecvRreqNoDedup` | drops the seen-RREQ check |
| `RecvRrepSameHops` | drops the `+1` |
| `RecvRreqNoTtlCheck` | drops the ttl check |
| `RecvAckNoSeen` | drops the seen-ACK check |
| `RecvAckKeepPending` | drops the `pop` |
| `EntryPathHead` (PSO) | takes `path[0]` as next hop |
| `RecvAckKeepPending` (PSO) | drops the `pop` |
| `RecvAckKeepPending` (PSO, for `E2ESpec`) | drops the `pop`: an accounted packet stays outstanding |
| `GiveUpLate` | waits for a third RREQ before giving up: with retries exhausted the call never returns |
| `RetryRreqExtra` | an off-by-one in the retry loop bound: one RREQ too many |
| `RecordEdgeNoEvict` | a deque without `maxlen` |
| `HopFitLatencyUnfloored` | drops `max(0.0, ...)` on `norm_latency` |

Only the `discovery` run assumes fairness. All other properties are safety
properties.

**The shared optimizer (P:543, P:465).** The three threads share one
`PSOGAOptimizer` without a lock. The model splits the main thread's call at
`optimize_route`'s check (540) and re-read (543) of `global_best`, where the
interleaving changes the outcome (finding 10). The other calls stay single
steps.

## Findings

1. **Malformed path from a direct RREP** (`aodv_only_rpi_metrics.py:604`,
   configuration `MC_AODVNet_path.cfg`). A route learned from a direct RREP
   has the path `[self, dest, dest]` with hop_count 1.
   `RouteEntryWellFormed` (a simple node sequence from self to dest, with
   hop_count = len - 1) is violated. The configuration is kept beside the
   runs, because its run slot went to `pso_gap`.
2. **ACKs absorbed by relays** (`aodv_only_rpi_metrics.py:449-454`, 698, run
   `relayack`). ACKs are routed hop by hop but never forwarded. The relay
   writes a metric row for a packet it did not send, and the source's packet
   stays pending forever.
3. **Window PDR mixes two clocks** (`aodv_only_rpi_metrics.py:467-475`, run
   `window`). The send log is windowed by send time and the ACK log by
   arrival time, so the window PDR can be 100% while a packet sent in the
   window is unacknowledged.

4. **Stale global best** (`Pengujian_psogaupdate_e2e_fixed.py:242`, 471-481,
   run `pso_stale`). The global best is never reset. A route to one
   destination can therefore be committed, and persisted, as a route ending
   at another node.
5. **Uncaught `AttributeError`** (`:100-103`, 155, run `pso_dbnone`).
   `check_connection` reports success with a `None` connection, and the
   `AttributeError` escapes to `__main__`.
6. **`KeyError` race** (`:880`, run `pso_keyerror`). `send_data`'s unguarded
   table read races `process_rerr`'s delete in the receiver thread.
7. **Stale `route_info`** (`:881-895`, run `pso_datapath`). After a failed
   validation, the DATA frame still carries the old `route_info`.
8. **Routing loops** (`aodv_only_rpi_metrics.py:597`, 565, run `loop`).
   `process_rrep` accepts any RREP for an expired entry. Intermediate nodes
   answer from their own table without destination sequence numbers, which
   the spec leaves out. Two relays can therefore point at each other. The
   spec does not say that loops may occur.
9. **Fitness outside [0, 1]** (`Pengujian_psogaupdate_e2e_fixed.py:298`,
   1172, 1223, configuration `MC_PSOMetrics_skew.cfg`). A neighbour's `hop_metrics` are stored
   unchecked, and `norm_latency` is floored at 0 but not capped at 1. A
   negative reported delay pushes the fitness above 1. The spec clamps each
   normalised metric to [0, 1]. TLC reports `FitnessInRange` violated under
   that configuration. It is kept beside the runs rather than listed as
   one.
10. **Unvalidated route returned by `optimize_route`**
    (`Pengujian_psogaupdate_e2e_fixed.py:540-543`, run `pso_gap`).
    `validate_route` checks `self.global_best`, and `return self.global_best`
    reads it again. The periodic sweep, in another thread, stores a fitter
    `[4, 1]` for node 1 in between. `find_optimal_route(SINK)` then commits
    and persists a sink route that does not contain the sink.

## Further configurations

These configurations are kept on disk but are not listed as runs. A larger
run checks the same properties.

* `MC_AODVNet_ttl.cfg` and `MC_AODVNet_triangle.cfg`: their properties
  (`TypeOK`, `AckRecordedOnce`, `PendingUnacked`) are checked by `discovery`.
* `MC_PSOAgent_core.cfg` and `MC_PSOAgent_rerr.cfg`: `pso_threads` is their
  union.
* `MC_PSOMetrics_skew.cfg`: finding 9.
* `MC_AODVNet_path.cfg`: finding 1.

## Not modelled

* RSSI probing, status printing, SQL schema and connection set-up: these are
  I/O.
* JSON and byte encoding: the model keeps only the fields the handlers read.
* The HELLO thread: see the abstractions above.
* The PSO agent's `process_rreq` (it only answers others), `process_rreq_metric`
  (it only prints), `send_hello` and the `packet_stats` counters.
* In PSOAgent, the metric values are abstracted to fitness levels.
  PSOMetrics models the values themselves. The two are not composed, because
  the product of their state spaces is beyond TLC in five minutes.
* JSON value types. A non-numeric `hop_metrics` value would make `sum()`
  raise `TypeError` in `_get_edge_metric`; this is listed as a hazard.
* The PSO agent's `e2e_sent_log`, `e2e_ack_log` and `_e2e_window_stats`.
  They compute the same window PDR as the AODV-only `_e2e_window_pdr`, which
  AODVNet models; finding 3 applies to them unchanged, and the clamp to
  [0, 100] hides `ack > sent`. They feed only the `window_pdr` column of the
  e2e row, and adding time-stamped logs to PSOAgent would push `pso_threads`
  past five minutes.
* The growth of `e2e_pending` (neither agent removes the entry of a lost
  packet): it needs unbounded packet ids. It is listed as a hazard.
