# Bifrost Core in TLA+

Bifrost Core (`src/`, Rust) is a debugging HTTP proxy: it forwards HTTP requests, tunnels or
intercepts `CONNECT`s, relays WebSockets, and keeps traffic statistics and a bounded log of
the requests it has seen, which it shows on pages of its own. Everything runs in tokio tasks that
share one `Store`.

This directory holds models of its concurrent core, the TLC runs that check them and the
TLAPS proofs about them. Line numbers below and in `PROJECT.json` refer to `src/src/`.

## 1. Inventory

| Component | State it keeps | Operations | Talks to |
|---|---|---|---|
| `main.rs`, `ProxyServer` | none | accept loop, one task per connection, dispatch by method | both interceptors |
| `HttpInterceptor` | `DNS_CACHE` (5 minutes) | `handle_http`: DNS lookup, WebSocket upgrade or `http_request`: draw id, plugin chain, upstream request | plugins, `Store` ids |
| `HttpsInterceptor` | `cert_cache` | `handle_connect`: draw id, then a TLS session (`--https`) or a tunnel | `HttpInterceptor`, `TunnelInterceptor` |
| `TunnelInterceptor` | the locals of one task per tunnel | dial, upgrade, copying loop, close | plugins |
| `Websocket` | the locals of one task per socket | connect, upgrade, two forwarding loops | neither ids nor plugins |
| `PluginManager` | the list of plugins | five chains, called in order of registration | the three plugins |
| `TrafficStatsPlugin` | locals of the sampling task | handlers that add to counters; a round of the sampling task each second | `Store.traffic_stats` |
| `NetStorage` | none | add a record, mark it Sending, data, close | `Store.network_records` |
| `BifrostServerPlugin` | none | answers requests to the proxy's own port | reads the `Store` |
| `Store` | `REQUEST_ID_COUNTER`, `network_records` (RwLock), `traffic_stats` (atomics), `config` | add, update by id, read | used by all of the above |
| `error.rs`, `rules.rs` | none | an enum nothing uses; an empty file | nothing |

What is hard in this code, and the property that answers it:

- **Interleaved requests over one log.** `NetStorage` adds a record under one lock and marks it
  under another; other requests evict in between (`RecordMatchesRequest`, `RetainsNewest`,
  `ImplementsRecordLog`).
- **Handlers that are several atomic operations.** A request is counted by three `fetch_add`s, in
  between others are counted, leave and are sampled (`ImplementsTotals`).
- **Ids shared by requests that never meet.** HTTP requests and `CONNECT`s draw from one counter;
  tunnels update records by ids that have no record (`DistinctIds`, `RecordMatchesRequest`).
- **A client that goes away.** hyper drops the handler at whatever await it is in, with counters
  raised and records half way (`CountersMatchFlows`, `RecordMatchesRequest`).
- **Sampling counters that others write.** Ten relaxed atomic operations per round, handlers in
  between (`SpeedsAddUp`, `NoRequestCountedTwice`, `PeaksHold`, `EveryByteIsPublished`,
  `GaugesSettle`).
- **One task for both directions of a tunnel.** Reads alternate, a blocked write stops everything
  else, shutdowns, resets and the idle timer come at any moment (`ImplementsRelay`,
  `CountsEveryByte`, `EofDrains`, `FailedWriteNeverCloses`, `IdleTunnelCloses`).
- **Caches that many requests fill at once.** The clock is read before the cache and the answer
  stored after an await, under locks taken twice; the wall clock may be set back
  (`NothingFromTheFuture`, `ImplementsCache`, `NoStandstill`, `EveryConnectIsDecided`).
- **Two loops in one `select!`.** A WebSocket's loops are dropped at an await when the other one
  ends, and two closes follow one after the other (`StreamEndDrains`, `LosesAtMostOne`,
  `ImplementsRelay`, `DirectionsIndependent`, `NobodyLeftOut`, `BothEndsTold`).
- **A page over a log that changes.** `/get_record` copies what the requests are still writing
  (`PageShowsNewest`).
- **Boundaries.** `--max-records 0` (`AtMostMaxRecords`), `fetch_sub` at zero, the error limit.

`PROJECT.json` lists every hazard at its line, those no property covers yet with the reason.

## 2. Modules

| Module | Models | Notes |
|---|---|---|
| `StatsCounters` | `TrafficStatsData`, what the handlers do to it | operators only, shared by the next two users |
| `RecordLog` | nothing: the abstract log of requests | what the store promises |
| `TrafficTotals` | nothing: the abstract totals of the statistics | what the plugin promises, at either grain |
| `Proxy` | the life of all requests: ids, plugin chain, record log, tunnels as a whole | extends `StatsCounters`, refines `RecordLog` and `TrafficTotals` |
| `ProxyProofs` | nothing: theorems about `Proxy` | TLAPS |
| `TrafficStats` | `TrafficStatsPlugin` at the grain of single atomic operations | extends `StatsCounters`, refines `TrafficTotals` |
| `ByteRelay` | nothing: the abstract two-way relay | what a tunnel promises |
| `Tunnel` | the loop of `handle_tunnel`, its sockets and its clock | refines `ByteRelay` |
| `WebSocketRelay` | `handle_websocket`: handshake, the two loops, the two closes | refines `ByteRelay`, messages for bytes |
| `CacheClients` | the requests that use a cache, the system clock | extended by the next two |
| `DnsCache` | `dns_lookup` over `DNS_CACHE` | refines `TimedCache` |
| `CertCache` | `get_or_generate_cert` over `cert_cache` and its `RwLock` | refines `TimedCache` |
| `TimedCache` | nothing: the abstract cache with a lifetime | what both caches promise |
| `TrafficStatsProofs` | nothing: theorems about `TrafficStats` | TLAPS |
| `StreamLemmas` | nothing: lemmas about queues of numbered elements | TLAPS, used by the next two |
| `TunnelProofs`, `WebSocketRelayProofs` | nothing: theorems about the relays | TLAPS |
| `TimedCacheProofs` | nothing: what `TimedCache` means for its clients | TLAPS, instantiated by the next two |
| `DnsCacheProofs`, `CertCacheProofs` | nothing: theorems about the caches | TLAPS |
| `MCProxy`, `MCTrafficStats`, `MCTunnel` | nothing: symmetry sets and volumes for TLC | |

`Proxy` sees a tunnel as "relay some bytes, then close", `Tunnel` opens that box; `Proxy` sees a
handler of the statistics plugin as one step, `TrafficStats` opens that one. That the second view is
fair is not taken for granted: both refine `TrafficTotals`, `TrafficStats` with the requests
between their first two `fetch_add`s taken as counted. In the same way
`DnsCache` opens the stage `dns` of `Proxy`, `CertCache` the stage `cert` and `WebSocketRelay` the
action `HandleWebSocket`: `Proxy` only lets each of them succeed, fail or lose its client, which
is all `handle_http` and `handle_connect` see (the addresses a lookup returns are dropped). One
composed model of both caches and the flows was tried: they share no state but the clock, and the
product had too many states for any instance that says more than the parts.

### Proxy

A *flow* is one call of `proxy_handler`, or of `handle_http` inside an intercepted TLS session.
`pc[f]` is the await its handler stands at, `at[f]` its position in the plugin chain. A step is
the code between two awaits that may suspend:

| `pc` | the code stands at |
|---|---|
| `idle` | the request is not there yet |
| `dns` | `dns_lookup(..).await` (or `handle_websocket(..).await`), http_interceptor.rs:99, 108 |
| `chain` | the call of plugin `at[f]`, plugin/mod.rs:101 |
| `marking` | the second lock of `NetStorage.handle_request`, net_storage.rs:146 |
| `upstream` | `client.request(..).await`, http_interceptor.rs:219 |
| `streaming` | hyper copies the response body |
| `cert` | `get_or_generate_cert(..).await`, https_interceptor.rs:220 |
| `dial` | `TcpStream::connect(..).await`, tunnel_interceptor.rs:146 |
| `upgrading` | `hyper::upgrade::on(..).await` of the spawned task, :149 |
| `relay`, `closed` | the copying loop, and after the close chain |
| `done`, `dropped` | over, and dropped because the client left |

Modelling decisions a reader should know:

- The log is only touched under its `RwLock`. Inside `add_network_record` the config lock is
  awaited too, but nothing ever writes the configuration, so no other task of the log can come in
  between: the critical section is one step.
- `AddRecord` keeps the `pop_front` on a possibly empty deque: with `--max-records 0` the log
  holds one record. `Capacity` is what the log does hold; that it is not what main.rs:46 documents
  is the finding `max_records`.
- `enableHttps` is `--https`: either value at the start, written by nobody.
- The whole `handle_data` chain for one byte is one step, as is the close chain. The statistics
  part has no await, and the record part is one critical section on an id without a record.
- `handle_response` of the plugins is not modelled because the chain has no caller in `src/`.
  WebSocket upgrades draw no id and call no plugin; only that is modelled.
- `GetRecord` is the page of `/get_record` as a function of the log: `get_network_records` copies
  the log under the read lock, so the page is the log of one moment, read backwards and cut at
  `limit`. The program has one limit, 10; `PageShowsNewest` is claimed of every limit up to
  `PageLength`, shorter and longer than the log.
- `added` is a history variable: the ids in the order of `add_network_record`.

### TrafficStats

`Handler` is one `fetch_add` (or `fetch_sub`) per step, `Sampler` one load or store per step; the
comparison and store of a peak are one step because only this task writes it. All operations are
`Relaxed`. Each atomic still has one modification order, and the properties of the sampling task
relate a counter only to samples of that same counter, so interleaving the operations covers what
the memory model allows: a stale load is a load that came earlier. `TypeOK` and `ImplementsTotals`
do compare two counters. They are about the order in which each handler adds, which is program
order, and say nothing of what a Relaxed reader of both counters would see. `published` and
`counted` are history
variables (sums of what was published). The one-second sleep is the stage between two rounds;
handlers may run at any stage.

### Tunnel

One byte per element, numbered from 1 in each direction. `inbox[d]` holds what the source has
sent and the tunnel has not read, `outbox[d]` what it has written and the sink has not read; both
are bounded by `SockSize`, so a write blocks. `ReadData` takes any prefix that fits the buffer.
While `pc = "write"` no read and no timer step is possible: `write_all` is awaited in the body
of a `select!` branch. `Reset` makes reads of that end return an error or an end of stream
once its data is gone, and writes to it fail. `Send`, `Receive`, `Finish`, `Reset` and `Tick` are
the environment. `EchoTarget` replaces ends that read whatever arrives by a target that answers
each byte before it reads the next, with both ends staying connected.

### WebSocketRelay

One element per message. `ForwardLoop(d)` is one of the two `async` blocks: `held[d]` is the message
between its `next().await` and the end of its `send(..).await`. Both are polled by the same
`select!`, so each has steps of its own and its own fairness. The first to end moves the task to
`close_client`; the other is dropped with what it holds. `close()` of the sink may still flush that
message or lose it: tungstenite and the split sinks are external, so both are possible. A close
frame is the last message of its stream and is forwarded like the others (`EndStream` follows it);
after it has been read, sends to that end may fail (`Unwilling`). `ReadError` is `Some(Err(_))`: the
connection has failed, or the next message is refused (protocol, UTF-8, size) while its sender is
alive. Both take the same branch, and an end whose message was refused is still owed a close frame:
`NobodyLeftOut` and `BothEndsTold` let nobody go but an end that is gone or whose own close frame has
been read. `attentive` is chosen at the start
and never changes: the ends that keep receiving. The others may receive or not, as they like.
`handle_websocket` never returns an error, so the 400 of http_interceptor.rs:114 is unreachable.

### DnsCache and CertCache

Each request runs once, `pc` is where it stands. `SetClock` sets the clock to any reading, forward
or back. `BeginLookup` reads the clock, `CacheHit`, `CacheMiss` and `Underflow` read the entry later,
`Resolved` stores. When the entry is newer than the reading, the u64 subtraction wraps (release
build: a miss) or panics (debug build): both are steps. Addresses are named after the lookup that
obtained them, certificates after the `CONNECT` that generated them; `host`/`domain` are inputs
chosen in `Init`. A host in `BadPorts` has no u16 after its colon, and its lookup panics.
In `CertCache` the expiry is compared with the clock of that moment and set at the end of
`generate_cert`. Its `RwLock` is tokio's: a queue, first come first served; a waiter that is
dropped leaves it. `generate_cert` is one step that may fail at any of its `?`. `looked` and
`generated` are history variables.

## 3. Runs

| Run | Instance | Shows |
|---|---|---|
| `proxy` | 3 flows, log of 2, pages of 1 to 3, with and without interception, 2 bytes | types and bound, `DistinctIds`, `RetainsNewest`, `RecordMatchesRequest`, `PageShowsNewest`, `CountersMatchFlows`, refinement of `RecordLog` and of `TrafficTotals` |
| `stats_sampling` | 3 callers, chunks of 1 or 2, 2 bytes each way | sums, request rate, peaks in every interleaving, refinement of `TrafficTotals` |
| `stats_progress` | 2 callers, 2 bytes each way | liveness of sampling |
| `tunnel_relay` | buffer 2, sockets 2, 2 bytes each way, timeout 2 | refinement of `ByteRelay`, counted bytes, end of stream, error limit; the idle timer closes the tunnel if both ends read |
| `websocket_relay` | sockets of 1, 3 messages each way, any set of attentive ends | refinement of `ByteRelay`, end of stream, at most one message lost, independent directions, both ends told |
| `dns_cache` | 3 lookups, 3 hosts (one malformed), clock 0..3, duration 2 | refinement of `TimedCache`, nothing from the future |
| `cert_cache` | 3 `CONNECT`s, 2 hosts, clock 0..1, duration 1 | refinement of `TimedCache`, the guards and the queue of the lock, somebody can always go on, nobody waits for ever |
| `current_requests` | as `proxy` with 2 flows | *violated*: see findings |
| `completed_records` | as `proxy` with 2 flows | *violated* |
| `max_records` | 2 flows, `MaxRecords = 0` | *violated* |
| `lost_request` | 2 callers | *violated* |
| `tunnel_blocked` | buffer 1, sockets 1, 6 bytes each way, echo target | *violated* |

Why the bounds are enough. Three flows over a log of two reach the situations that matter: a
record evicted between its two steps, a log in which one request is present and another gone, a
tunnel beside two records. Pages of one, two and three cut the log, show all of it and are longer
than it, and a page of two has an order. Ids are compared for equality only. Three callers put one handler
before, one inside and one after a reset. A buffer and sockets of two bytes give partial reads,
partial writes and a full socket; two bytes fill them. Three read errors reach `MAX_ERRORS`. The
echo run needs more bytes than the path holds (two sockets of one byte and the buffer, each way).
Three messages fill a WebSocket's path of one inbox, one held and one outbox, so that a loop does
block. Three lookups are one that stores, one that stores later with an older time, and one that
reads; three `CONNECT`s put a reader and a writer in the queue behind a holder, and a clock of two
readings makes an entry fresh or expired. The clock of `dns_cache` reaches both sides of the duration.
`Word` (2^64 in the program) is 1000 (100 in `dns_cache`), far above any count of an instance: a counter that wrapped
below zero would be visible at once. Flows and callers are symmetric in the safety runs; no
liveness run uses symmetry. Runs of `Proxy`, `Tunnel` and `WebSocketRelay` do not check deadlock, because requests,
tunnels and relays end; the sampling task never does, and its runs check it. The cache runs
check it too, but the clock can always move: there `NoStandstill` is what excludes a deadlock.

Fairness. `stats_progress` assumes weak fairness of the sampling task only: it is an endless
loop whose sleep wakes up, and nothing it does can block. The tunnel runs assume that the
runtime polls the tunnel task while it can go on and that time passes (`WF` of `Tunnel` and
`Tick`). They also assume that each end reads what has arrived, and for the echo target that it
answers what it has read: these are assumptions about the ends, named in `Fairness`, and
`IdleTunnelCloses` is claimed under them only. No fairness is assumed of clients sending,
shutting down or resetting. `websocket_relay` assumes that `select!` polls both loops and the
runtime the task (`WF` of each `ForwardLoop` and of the closes), and that the ends in `attentive`
receive; what is claimed of an end depends on it being in that set. `cert_cache` assumes that a
`CONNECT` that can go on does (`WF` of `Progress`): the runtime polls it, tokio hands the lock on,
and reading two files and generating a key end. The clock, clients and servers are never fair.
`DnsCache` has no liveness: a name server may never answer. `Proxy` has no liveness property: no wait of a request is
bounded by the code (`client.request` has no timeout), so a request is only as live as its server.

### Findings

- `current_requests`: the counter commented "当前请求数量" never goes down for HTTP requests,
  because the decrement is in `handle_response`, which has no caller. `CountersMatchFlows` states
  what the counter does say.
- `completed_records`: no record ever becomes Completed, although net_storage.rs:269 says so;
  records stay Sending.
- `lost_request`: load and reset of `requests_this_second` are two operations; a request between
  them is in no rate. `NoRequestCountedTwice` is the half that holds.
- `max_records`: main.rs:46 documents `--max-records` as the maximum number of records; with 0 the
  log keeps one. `LogWithinLimit` proves that 0 is the only value for which it fails.
- `tunnel_blocked`: the target answers each byte before it reads the next. When its answer is not
  taken it reads no more, and the tunnel, waiting in `write_all` to it, does not take the answer. The
  client reads whatever arrives; one blocked write is enough. The tunnel stays open for ever, because
  the 300 second timer is not polled during `write_all`.

## 4. Proofs

`ProxyProofs` proves, for every finite set of flows, every `MaxRecords`, with and without
interception, and from no assumption but `ProxyAssumption` and `WordAssumption`:

| Theorem | Statement |
|---|---|
| `TypeCorrect` | `Spec => []TypeOK`, with the bound on the log |
| `IdsAreDistinct` | `Spec => []DistinctIds` |
| `LogRetainsNewest` | `Spec => []RetainsNewest` |
| `ProxyInvariant` | `Spec => []ProxyInv`, the inductive invariant |
| `RecordsMatchRequests` | `Spec => []RecordMatchesRequest` |
| `ProxyImplementsRecordLog` | `Spec => ImplementsRecordLog` |
| `CountersCorrect` | `Spec => []CountersMatchFlows` |
| `PageIsNewest` | `Spec => []PageShowsNewest`, for pages of every length |
| `LogWithinLimit` | `MaxRecords # 0` implies `Spec => []AtMostMaxRecords`: the boundary of the finding `max_records` |
| `ProxyImplementsTotals` | `Spec => ImplementsTotals` |
| `RecordsAdvance` | no request comes back into the log after its eviction, and no record goes back to an earlier state: an action property, from the refinement of `RecordLog` |
| `RequestsNeverLeave` | `current_requests` falls only when a tunnel closes: the finding `current_requests`, for every instance |
| `NoRecordIsCompleted` | no record is ever Completed: the finding `completed_records`, for every instance |

`TrafficStatsProofs` proves, for any finite set of callers, any chunk size and amount of traffic,
from `TrafficAssumption` and `WordAssumption`:

| Theorem | Statement |
|---|---|
| `StatsInvariant` | `Spec => []StatsInv`, the inductive invariant |
| `StatsTypeCorrect` | `Spec => []TypeOK`, `current_requests` never wraps |
| `SpeedsSumToBytes` | `Spec => []SpeedsAddUp` |
| `RatesCountOnce` | `Spec => []NoRequestCountedTwice` |
| `PeaksNeverFall` | `Spec => PeaksHold`, an action property |
| `HandlersCountAtomically` | `Spec => ImplementsTotals`: interleaved `fetch_add`s count as if each handler were one step |

`TunnelProofs` proves, for every buffer, socket size, volume of traffic and timeout, with either
kind of target, from `TunnelAssumption`; `WebSocketRelayProofs`, for every capacity of the
connections and number of messages, from `WebSocketAssumption`:

| Theorem | Statement |
|---|---|
| `TunnelInvariant`, `SocketInvariant` | the inductive invariants `TunnelInv` and `SocketInv` |
| `TunnelTypeCorrect`, `SocketTypeCorrect` | `Spec => []TypeOK` |
| `EveryByteCounted` | `Spec => []CountsEveryByte` |
| `EofLosesNothing` | `Spec => []EofDrains` |
| `WritesNeverClose` | `Spec => FailedWriteNeverCloses`, an action property |
| `EndedStreamLosesNothing` | `Spec => []StreamEndDrains` |
| `RelayLosesAtMostOne` | `Spec => []LosesAtMostOne` |
| `BothEndsAnswered` | `Spec => []NobodyLeftOut`, the safety half of `BothEndsTold` |
| `TunnelImplementsRelay`, `SocketImplementsRelay` | `Spec => ImplementsRelay` |
| `BytesArriveInOrder`, `MessagesArriveInOrder` | what an end has received is a prefix of what the other one sent, from the refinement |

`DnsCacheProofs` and `CertCacheProofs` prove, for any sets of requests and hosts, any bound on the
clock and any duration, from `ClientsAssumption` and `DnsAssumption` or `CertAssumption`:

| Theorem | Statement |
|---|---|
| `DnsTypeCorrect` | `Spec => []TypeOK`, an entry leads back to its lookup |
| `NoAnswerFromTheFuture` | `Spec => []NothingFromTheFuture` |
| `DnsImplementsCache`, `CertImplementsCache` | `Spec => ImplementsCache` |
| `CertTypeCorrect` | `Spec => []TypeOK`: guards held exactly where they are in scope, and a `CONNECT` in the queue of the lock exactly once while it waits |
| `CertNeverStands` | `Spec => []NoStandstill`, the safety half of `EveryConnectIsDecided` |
| `AnswersAreFresh`, `CertsAreFresh` | a request gets its own value or one for the same host that was fresh when it asked, from the refinement |

`TimedCacheProofs` proves `ValuesAreOwnOrFresh` of the abstract cache, assuming only that `Nobody`
is not a client; the last two theorems apply it through an instance of that module.

`Proxy`. None of the properties is inductive alone. `ControlOK` says what a handler holds
where it stands (an id after the draw, position 3 of the chain while marking); with the types it
is inductive. `IdsOK` adds that `nextId` is the number of ids drawn, so a draw is new.
`RetainsNewest` is inductive by a lemma about `AddRecord` (eviction is `Tail`, for every
`MaxRecords`, 0 included) and one about `UpdateRecord` (it keeps ids and length).
`AddedByRequest` says the history has no id twice and each of its ids belongs to an HTTP request
that has passed `NetStorageAdd`. From it and `RetainsNewest` the ids in the log are
distinct, so "the first record with this id" is the request's own or none, tunnels touch no
record, and `RecordMatchesRequest` follows. The refinement then maps `NetStorageAdd` to `Enter`,
`NetStorageMarkSending` to `Advance` or a stutter, and every other step to a stutter. The
counters are a cardinality argument: each step adds at most one flow to one of the counted sets.
They map to `TrafficTotals` one to one: a tunnel that relays or closes is itself in the set, so
the total it leaves is not zero.

The sampling task. `StatsInv` adds three things to what the runs check. `RequestsCounted`: the two
request counters are the cardinalities of the callers that have entered and of those still open, so
no `fetch_sub` finds a zero. `QpsHeld`: between the load and the reset the counter is at least what
was loaded, because only `ResetQps` lowers it; without it the reset could make
`NoRequestCountedTwice` fail. `PeaksCover`: outside the few steps between publishing a gauge and
raising its peak the peak covers the gauge, and inside them the gauge is exactly what the sampler
will compare with; `PeaksHold` at the end of a round is its instance.
The refinement of `TrafficTotals` adds the callers between their first two `fetch_add`s to
`current_requests`: the first one is then `EnterOne`, the second moves a caller from one summand to
the other and is a stutter, and nothing the sampler does is visible.

The relays. Elements are numbered, so "in order, without a gap" is `Follows(queue, n)`: the queue
holds the numbers after `n`. `InOrder` says it of each queue on the way, each starting where the one
before it ends: `outbox` after what has been received, the chunk (or the held message) after that,
`inbox` last; `StreamLemmas` says what `Append`, `Tail`, `SubSeq` and `\o` do to it. `Receive` then
takes exactly the next number, which is a step of `ByteRelay`. In a tunnel the chunk is only in its
place while its receiver is there (`Sink(d) \notin reset`): to a connection that is reset bytes are
written in vain. `WriteFollowsRead` says that a write finds the error count at zero, hence
`FailedWriteNeverCloses`; `EofRead` that the stream which closed the tunnel was read to its end. In a
WebSocket the inbox continues what was held only while both loops run (`Whole`); afterwards `close()`
may have lost the held message, and only the part in front of it is claimed. `EndedEmpty` then needs
`RunningIsFresh`, that nothing has ended the loops before. `LosesAtMostOne` is `InOrder` while the
loops run, with what is held as the one; when they end `held` goes, once and for all, and from then
on every step keeps the sum of what is received, in the outbox and in the inbox up with what is
sent. `NobodyLeftOut` needs `ToldInTurn`, which says it one `close()` at a time, and that an end that
is answered stays so: nobody comes back, no close frame is unsent, and nothing follows the close
frame that was read. How the loops ended does not matter, which is what covers `ReadError`.

The caches. The inductive invariants (`DnsInv`, `CertInv`) say that an entry leads back to a request
that has returned it and is over, so that the times it carries never change again. A hit then
names such a request, for the same key; `HitIsFresh` shows that an age that wrapped around cannot
be below `CACHE_DURATION`, because `Word` exceeds every reading of the clock plus the duration. A
hit maps to `Reuse`, a store to `GetOwn`, what sets a time to `Wait`, every other step to a stutter.
`QueueExact` is inductive by itself once it says both that who waits is in the queue and that nobody
is in it twice: joining appends one that was not there, being served and leaving remove the only
occurrence (`WithoutElement` is the lemma about the sequence). `NoStandstill` follows from it and
`GuardsHeld` without a further invariant: if nobody checks, generates or stores, nobody holds the
lock, the queue is not empty, and its head has its turn.

Every invariant and action property that a passing run checks is proved, and every refinement of an
abstract specification. Model-checked only, because liveness under fairness is out of reach of the
prover: `EveryByteIsPublished`, `GaugesSettle`, `IdleTunnelCloses`, `DirectionsIndependent`,
`BothEndsTold` and `EveryConnectIsDecided`. No module uses RECURSIVE.

## 5. Not modelled

Headers, URIs, sizes and sub-protocols; start-up. The JSON pages other than `/get_record`: they only
read, and the loads of `/traffic_stats` are Relaxed loads of different atomics, of which the code
promises no order. Captured bodies and their size limit (`handle_data` of `NetStorage`): that code
runs only for ids that have no record, because tunnels call it and only HTTP requests are recorded.
`handle_response` of the manager and of the plugins has no caller. Panics on malformed input, except
in `DnsCache`: a panic in a handler ends its connection task and is, for the shared state, the same
as `ClientGone`. Counters wrapping upward at 2^64 are out of reach of any run of the program. The
caches never evict; memory is not part of the models. `error.rs` and `rules.rs` contain nothing that
runs.

## 6. Plan

Done: all modules of section 2, and the proofs of section 4, with the safety half of the liveness
properties that have one: `NoStandstill` and `NobodyLeftOut` (of the sampling task there is nothing
to prove, it waits for nobody). What is left:

1. A counterpart of `ByteRelay` for the opposite direction of a half-closed tunnel: how many bytes a
   shutdown of one end can cost the other one. The code promises nothing here.
2. The pages that are Relaxed loads of several counters, should the code come to promise something
   about them together.
