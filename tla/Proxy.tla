------------------------------- MODULE Proxy -------------------------------
(***************************************************************************)
(* The life of the requests bifrost handles at the same time: the request  *)
(* id counter, the plugin chain (Bifrost server, traffic statistics,        *)
(* network records), the bounded log of network records and the CONNECT     *)
(* tunnels.  A flow is one call of proxy_handler, or one call of            *)
(* handle_http inside an intercepted TLS session.                           *)
(*                                                                          *)
(* A step is the code between two awaits that can suspend, so every         *)
(* interleaving of the tokio tasks is a behaviour.  The record log is only  *)
(* touched under its RwLock, and the one await inside the lock              *)
(* (config.read in add_network_record) waits for no writer, because nothing *)
(* ever writes the configuration: each critical section is one step.        *)
(***************************************************************************)
EXTENDS StatsCounters, Sequences, FiniteSets

CONSTANTS
    Flows,          \* the requests of a behaviour
    MaxRecords,     \* --max-records, any usize, 0 included
    PageLength,     \* bound on the pages of /get_record, 10 in the program
    MaxBytes        \* bound on the bytes all tunnels relay

ASSUME ProxyAssumption ==
    /\ IsFiniteSet(Flows)
    /\ MaxRecords \in Nat
    /\ PageLength \in Nat
    /\ MaxBytes \in Nat

VARIABLES
    enableHttps,  \* --https: CONNECT is intercepted instead of tunnelled
    kind,         \* what each flow asks for
    pc,           \* where the handler of each flow stands
    at,           \* position of each flow in the plugin chain
    reqId,        \* the request id each flow drew
    status,       \* the status code of the response of each flow, 0 before it
    nextId,       \* REQUEST_ID_COUNTER
    records,      \* Store.network_records
    stats,        \* Store.traffic_stats
    added         \* history: the ids given to add_network_record, in order

vars == <<enableHttps, kind, pc, at, reqId, status, nextId, records, stats, added>>

\* "http" goes to another server, "admin" to the Bifrost server itself.
Kinds == {"http", "admin", "connect"}

Pcs == {"idle", "dns", "chain", "marking", "upstream", "cert", "dial",
        "upgrading", "relay", "closed", "streaming", "done", "dropped"}

RequestState == {"Connecting", "Sending", "Receiving", "Completed", "Cancelled"}

NetworkRecord == [id : Nat, state : RequestState]

NoId == -1

\* register_plugin is called in this order.
PluginChain == <<"bifrost_server", "traffic_stats", "net_storage">>

-----------------------------------------------------------------------------
(* Store: the bounded log of network records.                               *)

\* add_network_record: pop_front of an empty deque does nothing.
AddRecordLate(rs, rec) ==
    IF Len(rs) > MaxRecords /\ rs # <<>>
    THEN Append(Tail(rs), rec)
    ELSE Append(rs, rec)
AddRecordDropsNewest(rs, rec) ==
    IF Len(rs) >= MaxRecords /\ rs # <<>>
    THEN Append(SubSeq(rs, 1, Len(rs) - 1), rec)
    ELSE Append(rs, rec)
AddRecord(rs, rec) ==
    IF Len(rs) >= MaxRecords /\ rs # <<>>
    THEN Append(Tail(rs), rec)
    ELSE Append(rs, rec)

\* update_network_record_by_id: the first record with this id, if any; the
\* error for a record that is gone is dropped by every caller (.ok()).
UpdateFirstRecord(rs, id, next) ==
    IF rs = <<>> THEN rs ELSE [rs EXCEPT ![1].state = next[@]]
UpdateRecord(rs, id, next) ==
    [i \in DOMAIN rs |->
        IF rs[i].id = id /\ \A j \in 1..(i - 1) : rs[j].id # id
        THEN [rs[i] EXCEPT !.state = next[@]]
        ELSE rs[i]]

\* What the closures of net_storage.rs do to the state of the record.
ToSending == [s \in RequestState |-> "Sending"]
OnData(direction) ==
    [s \in RequestState |-> IF direction = "Downstream" THEN "Completed" ELSE s]
OnClose ==
    [s \in RequestState |-> IF s = "Completed" THEN s ELSE "Cancelled"]

\* handle_get_record: .iter().rev().take(limit) of a copy of the log, which is
\* taken under its read lock.
PageSize(limit) == IF Len(records) < limit THEN Len(records) ELSE limit

GetRecordInLogOrder(limit) ==
    [i \in 1..PageSize(limit) |-> records[Len(records) - PageSize(limit) + i]]
GetRecord(limit) ==
    [i \in 1..PageSize(limit) |-> records[Len(records) + 1 - i]]

-----------------------------------------------------------------------------
(* Helpers of the actions.                                                  *)

Goto(f, from, to) == pc[f] = from /\ pc' = [pc EXCEPT ![f] = to]

Respond(f, code) == status' = [status EXCEPT ![f] = code]

\* REQUEST_ID_COUNTER.fetch_add(1)
DrawIdPerKind(f) ==
    /\ reqId' = [reqId EXCEPT ![f] =
                    Cardinality({g \in Flows : kind'[g] = kind'[f] /\ reqId[g] # NoId})]
    /\ nextId' = nextId + 1
DrawId(f) ==
    /\ reqId' = [reqId EXCEPT ![f] = nextId]
    /\ nextId' = nextId + 1

\* The chain reaches plugin p for flow f.
InPlugin(f, p) == pc[f] = "chain" /\ PluginChain[at[f]] = p

\* The plugin answers (true, None): the loop goes on, or is over.
Continue(f) ==
    /\ at' = [at EXCEPT ![f] = @ + 1]
    /\ pc' = [pc EXCEPT ![f] =
                 IF at[f] = Len(PluginChain) THEN "upstream" ELSE "chain"]

-----------------------------------------------------------------------------
(* HTTP requests.                                                           *)

\* proxy_handler dispatches to handle_http, which awaits the DNS lookup.
AcceptHttp(f, k) ==
    /\ k \in {"http", "admin"}
    /\ Goto(f, "idle", "dns")
    /\ kind' = [kind EXCEPT ![f] = k]
    /\ UNCHANGED <<at, reqId, status, nextId, records, stats, added>>

DnsLookupFails(f) ==
    /\ Goto(f, "dns", "done")
    /\ Respond(f, 502)
    /\ UNCHANGED <<kind, at, reqId, nextId, records, stats, added>>

\* A WebSocket upgrade: connected to the target and relayed by a task of its
\* own, or not connected.  It draws no id and no plugin hears of it.
HandleWebSocket(f) ==
    /\ Goto(f, "dns", "done")
    /\ \E code \in {101, 502} : Respond(f, code)
    /\ UNCHANGED <<kind, at, reqId, nextId, records, stats, added>>

\* The lookup succeeds and http_request runs up to the plugin chain.  The id
\* is drawn before the outcome of the request builder is examined.
HttpRequest(f) ==
    /\ kind' = kind
    /\ DrawId(f)
    /\ \/ Goto(f, "dns", "chain") /\ UNCHANGED status
       \/ Goto(f, "dns", "done") /\ Respond(f, 500)
    /\ UNCHANGED <<at, records, stats, added>>

\* BifrostServerPlugin.handle_request: answers requests for its own port and
\* stops the chain, lets the others through.
BifrostHandleRequest(f) ==
    /\ InPlugin(f, "bifrost_server")
    /\ \/ /\ kind[f] = "admin"
          /\ Goto(f, "chain", "done")
          /\ \E code \in {200, 404, 500} : Respond(f, code)
          /\ UNCHANGED at
       \/ kind[f] # "admin" /\ Continue(f) /\ UNCHANGED status
    /\ UNCHANGED <<kind, reqId, nextId, records, stats, added>>

\* TrafficStatsPlugin.handle_request.
StatsHandleRequest(f) ==
    /\ InPlugin(f, "traffic_stats")
    /\ Continue(f)
    /\ stats' = CountRequest(stats)
    /\ UNCHANGED <<kind, reqId, status, nextId, records, added>>

\* NetStorage.handle_request, first await: the record enters the log ...
NetStorageAdd(f) ==
    /\ InPlugin(f, "net_storage")
    /\ Goto(f, "chain", "marking")
    /\ records' = AddRecord(records, [id |-> reqId[f], state |-> "Connecting"])
    /\ added' = Append(added, reqId[f])
    /\ UNCHANGED <<kind, at, reqId, status, nextId, stats>>

\* ... second await: if it is still there, it is marked as being sent.
NetStorageMarkSending(f) ==
    /\ pc[f] = "marking"
    /\ Continue(f)
    /\ records' = UpdateRecord(records, reqId[f], ToSending)
    /\ UNCHANGED <<kind, reqId, status, nextId, stats, added>>

\* client.request ends.  The response, 200 for any that is complete, is
\* returned as it is: no plugin is called any more, handle_response has no
\* caller.
UpstreamReplies(f) ==
    /\ \/ Goto(f, "upstream", "streaming") /\ Respond(f, 200)
       \/ Goto(f, "upstream", "done") /\ Respond(f, 502)
    /\ UNCHANGED <<kind, at, reqId, nextId, records, stats, added>>

\* hyper has copied the whole response body to the client; handle_data is
\* not called for it.
BodyEnds(f) ==
    /\ Goto(f, "streaming", "done")
    /\ UNCHANGED <<kind, at, reqId, status, nextId, records, stats, added>>

-----------------------------------------------------------------------------
(* CONNECT requests.                                                        *)

\* HttpsInterceptor.handle_connect up to its first slow await: a certificate
\* if the tunnel is intercepted, the connection to the target otherwise.
\* A request without an authority is answered with 500.
AcceptConnect(f) ==
    /\ kind' = [kind EXCEPT ![f] = "connect"]
    /\ DrawId(f)
    /\ \/ Goto(f, "idle", IF enableHttps THEN "cert" ELSE "dial") /\ UNCHANGED status
       \/ Goto(f, "idle", "done") /\ Respond(f, 500)
    /\ UNCHANGED <<at, records, stats, added>>

\* Interception: the client gets its 200 and the spawned TLS session serves
\* its requests with handle_http, each a flow of its own; without a
\* certificate ProxyServer.handle_connect answers 500.
CertReady(f) ==
    /\ Goto(f, "cert", "done")
    /\ \E code \in {200, 500} : Respond(f, code)
    /\ UNCHANGED <<kind, at, reqId, nextId, records, stats, added>>

\* handle_tunnel_proxy: connected, the tunnel task is spawned and the client
\* gets its 200; not connected, 502.
Dialled(f) ==
    /\ \/ Goto(f, "dial", "upgrading") /\ Respond(f, 200)
       \/ Goto(f, "dial", "done") /\ Respond(f, 502)
    /\ UNCHANGED <<kind, at, reqId, nextId, records, stats, added>>

\* The spawned task waits for the upgrade; handle_tunnel then runs the
\* handle_connect chain, in which only the statistics plugin does something.
StartTunnel(f) ==
    /\ Goto(f, "upgrading", "relay")
    /\ stats' = CountRequest(stats)
    /\ UNCHANGED <<kind, at, reqId, status, nextId, records, added>>

UpgradeFails(f) ==
    /\ Goto(f, "upgrading", "done")
    /\ UNCHANGED <<kind, at, reqId, status, nextId, records, stats, added>>

\* The handle_data chain for one byte.
RelayData(f, direction) ==
    /\ pc[f] = "relay"
    /\ stats.bytes_in + stats.bytes_out < MaxBytes
    /\ stats' = CountData(stats, direction, 1)
    /\ records' = UpdateRecord(records, reqId[f], OnData(direction))
    /\ UNCHANGED <<kind, pc, at, reqId, status, nextId, added>>

\* The relay loop has ended: the handle_connect_close chain.
CloseTunnelPerDirection(f) ==
    /\ Goto(f, "relay", "closed")
    /\ stats' = CountClose(CountClose(stats))
    /\ records' = UpdateRecord(records, reqId[f], OnClose)
    /\ UNCHANGED <<kind, at, reqId, status, nextId, added>>
CloseTunnelUncounted(f) ==
    /\ Goto(f, "relay", "closed")
    /\ records' = UpdateRecord(records, reqId[f], OnClose)
    /\ UNCHANGED <<kind, at, reqId, status, nextId, stats, added>>
CloseTunnel(f) ==
    /\ Goto(f, "relay", "closed")
    /\ stats' = CountClose(stats)
    /\ records' = UpdateRecord(records, reqId[f], OnClose)
    /\ UNCHANGED <<kind, at, reqId, status, nextId, added>>

-----------------------------------------------------------------------------
\* The client goes away: hyper drops the future of the service at the await
\* it is suspended in.  TrafficStatsPlugin.handle_request has no await, and
\* spawned tunnels are not part of that future.
Awaiting(f) ==
    \/ pc[f] \in {"dns", "marking", "upstream", "streaming", "cert", "dial"}
    \/ InPlugin(f, "bifrost_server")
    \/ InPlugin(f, "net_storage")

ClientGone(f) ==
    /\ Awaiting(f)
    /\ pc' = [pc EXCEPT ![f] = "dropped"]
    /\ UNCHANGED <<kind, at, reqId, status, nextId, records, stats, added>>

Init ==
    /\ enableHttps \in BOOLEAN
    /\ kind = [f \in Flows |-> "http"]
    /\ pc = [f \in Flows |-> "idle"]
    /\ at = [f \in Flows |-> 1]
    /\ reqId = [f \in Flows |-> NoId]
    /\ status = [f \in Flows |-> 0]
    /\ nextId = 0
    /\ records = <<>>
    /\ stats = ZeroStats
    /\ added = <<>>

HttpStep(f) ==
    \/ \E k \in Kinds : AcceptHttp(f, k)
    \/ DnsLookupFails(f)
    \/ HandleWebSocket(f)
    \/ HttpRequest(f)
    \/ BifrostHandleRequest(f)
    \/ StatsHandleRequest(f)
    \/ NetStorageAdd(f)
    \/ NetStorageMarkSending(f)
    \/ UpstreamReplies(f)
    \/ BodyEnds(f)

ConnectStep(f) ==
    \/ AcceptConnect(f)
    \/ CertReady(f)
    \/ Dialled(f)
    \/ StartTunnel(f)
    \/ UpgradeFails(f)
    \/ \E direction \in DataDirection : RelayData(f, direction)
    \/ CloseTunnel(f)

\* Nothing writes the configuration once the program has started.
Next ==
    /\ \E f \in Flows : HttpStep(f) \/ ConnectStep(f) \/ ClientGone(f)
    /\ UNCHANGED enableHttps

Spec == Init /\ [][Next]_vars

-----------------------------------------------------------------------------
(* Properties.                                                              *)

\* How many records the log can hold: add_network_record pushes after a pop
\* that may find nothing, so the log holds one record even if MaxRecords is 0:
\* one more than the option says, see AtMostMaxRecords.
Capacity == IF MaxRecords = 0 THEN 1 ELSE MaxRecords

FlowTypes ==
    /\ kind \in [Flows -> Kinds]
    /\ pc \in [Flows -> Pcs]
    /\ at \in [Flows -> 1..(Len(PluginChain) + 1)]
    /\ reqId \in [Flows -> Nat \cup {NoId}]
    /\ status \in [Flows -> Nat]
    /\ nextId \in Nat

StoreTypes ==
    /\ records \in Seq(NetworkRecord)
    /\ Len(records) <= Capacity
    /\ stats \in [Counters -> Nat]
    /\ added \in Seq(Nat)

\* Types, and the bound on the record log (store.rs:111).
TypeOK == FlowTypes /\ StoreTypes /\ enableHttps \in BOOLEAN

\* No two requests of the process share an id, HTTP requests and CONNECTs
\* drawing from one counter (store.rs:11): an update by id of one request can
\* therefore never reach the record of another one.
DistinctIds ==
    /\ \A f, g \in Flows : reqId[f] = reqId[g] => f = g \/ reqId[f] = NoId
    /\ \A f \in Flows : reqId[f] < nextId

\* However the tasks interleave, the log holds exactly the newest records in
\* the order they were added: an eviction never takes any but the oldest
\* (store.rs:107-115).
RetainsNewest ==
    /\ Len(records) = IF Len(added) <= Capacity THEN Len(added) ELSE Capacity
    /\ \A i \in 1..Len(records) :
        records[i].id = added[Len(added) - Len(records) + i]

\* Every record belongs to one HTTP request and shows how far that request
\* got: Sending once the plugin chain is over, Connecting only while the
\* handler is between its two steps or was dropped there.  Evictions between
\* the two steps, and the calls tunnels make with ids that have no record
\* (net_storage.rs:218-278), never touch the record of another request.
Owner(f, i) == kind[f] = "http" /\ reqId[f] = records[i].id

StateOfOwner(f) == IF at[f] > Len(PluginChain) THEN "Sending" ELSE "Connecting"

RecordMatchesRequest ==
    \A i \in 1..Len(records) :
        \E f \in Flows :
            /\ Owner(f, i)
            /\ records[i].state = StateOfOwner(f)
            /\ records[i].state = "Connecting" => pc[f] \in {"marking", "dropped"}

\* /get_record shows the requests that were recorded last, the latest first,
\* as many as the page and the log hold, and each in the state its own handler
\* has reached, whether the page is shorter or longer than the log
\* (bifrost_server.rs:104-123).
ShowsNewest(page, limit) ==
    /\ Len(page) \in {limit, Len(added), Capacity}
    /\ \A n \in {limit, Len(added), Capacity} : Len(page) <= n
    /\ \A i \in 1..Len(page) :
        \E f \in Flows :
            /\ kind[f] = "http" /\ reqId[f] = added[Len(added) + 1 - i]
            /\ page[i] = [id |-> reqId[f], state |-> StateOfOwner(f)]

PageShowsNewest == \A limit \in 1..PageLength : ShowsNewest(GetRecord(limit), limit)

\* The statistics plugin has seen the HTTP request f.
Counted(f) ==
    /\ kind[f] = "http"
    /\ \E i \in 1..Len(PluginChain) : PluginChain[i] = "traffic_stats" /\ i < at[f]

CountedRequests == {f \in Flows : Counted(f)}
OpenTunnels == {f \in Flows : pc[f] = "relay"}
StartedTunnels == {f \in Flows : pc[f] \in {"relay", "closed"}}

\* What the request counters really say (traffic_stats.rs:105-141, 165-173):
\* tunnels are counted while they are open, HTTP requests from the plugin
\* chain on and for ever, requests to the Bifrost server and CONNECTs that are
\* intercepted never.  So no interleaving makes current_requests wrap around below zero.
CountersMatchFlows ==
    /\ stats["total_requests"] = Cardinality(CountedRequests) + Cardinality(StartedTunnels)
    /\ stats["current_requests"] = Cardinality(CountedRequests) + Cardinality(OpenTunnels)

\* The totals of the statistics, one handler of the plugin in one step, as
\* TrafficStats shows they may be taken: requests and tunnels enter one at a
\* time, no more leave than have entered, and a byte is only counted while
\* something is (traffic_stats.rs:105-173).
Totals == INSTANCE TrafficTotals WITH
    Directions <- DataDirection,
    total <- stats["total_requests"],
    open <- stats["current_requests"],
    bytes <- [d \in DataDirection |-> stats[CounterOf(d)]]

ImplementsTotals == Totals!TotalsSpec

\* The records as the abstract log: its history is the sequence of additions.
RequestIds == 0..(Cardinality(Flows) - 1)

Log == INSTANCE RecordLog WITH Ids <- RequestIds, history <- added, window <- records

\* The store and NetStorage implement RecordLog: entries are added once, only
\* the oldest is forgotten, one record changes at a time and only forward.
ImplementsRecordLog == Log!LogSpec

-----------------------------------------------------------------------------
(* What comments of the code say and the code does not do.                  *)

\* store.rs:22: current_requests is the current number of requests.
CurrentRequestsAreInFlight ==
    stats["current_requests"] =
        Cardinality({f \in CountedRequests : pc[f] \notin {"done", "dropped"}})
            + Cardinality(OpenTunnels)

\* main.rs:46: --max-records is the maximum number of network records.  It is
\* unless it is 0, see Capacity.
AtMostMaxRecords == Len(records) <= MaxRecords

\* net_storage.rs:269: a request whose whole response has arrived is
\* Completed.
CompletedWhenAnswered ==
    \A f \in Flows, i \in 1..Len(records) :
        Owner(f, i) /\ pc[f] = "done" /\ status[f] = 200
            => records[i].state = "Completed"
=============================================================================
