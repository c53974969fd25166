---------------------------- MODULE TrafficStats ----------------------------
(***************************************************************************)
(* TrafficStatsPlugin at the grain of its atomic operations: the handlers,  *)
(* run by any number of request tasks, against the task that samples the    *)
(* counters once a second to publish speeds, the request rate and peaks.    *)
(* All accesses are Relaxed.  The interleavings below also cover the stale  *)
(* loads that allows: a load that misses additions is one that came before  *)
(* them, and what is said of the sampling task relates one counter to its   *)
(* own samples.  TypeOK and ImplementsTotals compare two counters: they are *)
(* about the order in which the handlers add, not about what a Relaxed      *)
(* reader of both would see.                                                *)
(***************************************************************************)
EXTENDS StatsCounters, FiniteSets

CONSTANTS
    Callers,    \* the requests and tunnels that call the plugin
    MaxChunk,   \* bound on the bytes of one handle_data call
    MaxBytes    \* bound on the bytes counted in each direction

ASSUME TrafficAssumption ==
    /\ IsFiniteSet(Callers)
    /\ MaxChunk \in Nat \ {0}
    /\ MaxBytes \in Nat

VARIABLES
    stats,      \* Store.traffic_stats
    pc,         \* what each caller does next
    stage,      \* what the sampling task does next
    current,    \* its locals current_bytes_in and current_bytes_out
    last,       \* its locals last_bytes_in and last_bytes_out
    qps,        \* its local current_qps
    published,  \* history: sum of the speeds published, per direction
    counted     \* history: sum of the request rates published

locals == <<current, last, qps>>
vars == <<stats, pc, stage, locals, published, counted>>

Stages == {"load_in", "load_out", "speed_in", "speed_out", "peak_in",
           "peak_out", "load_qps", "store_qps", "reset_qps", "peak_qps"}

\* Where the counter, the gauge and the peak of each direction are kept.
SpeedOf(d) == IF d = "Upstream" THEN "current_speed_out" ELSE "current_speed_in"
PeakOf(d)  == IF d = "Upstream" THEN "max_speed_out" ELSE "max_speed_in"
Bytes(d)   == stats[CounterOf(d)]

-----------------------------------------------------------------------------
(* The handlers.  handle_request and handle_connect are three fetch_adds.   *)

Call(c, from, to, counter) ==
    /\ pc[c] = from
    /\ pc' = [pc EXCEPT ![c] = to]
    /\ stats' = FetchAdd(stats, counter, 1)
    /\ UNCHANGED <<stage, locals, published, counted>>

AddTotal(c)   == Call(c, "idle", "total", "total_requests")
AddCurrent(c) == Call(c, "total", "current", "current_requests")
AddSecond(c)  == Call(c, "current", "active", "requests_this_second")

HandleData(c, d, n) ==
    /\ pc[c] = "active"
    /\ Bytes(d) + n <= MaxBytes
    /\ stats' = CountData(stats, d, n)
    /\ UNCHANGED <<pc, stage, locals, published, counted>>

\* Only tunnels are closed; an HTTP request stays active for ever, because
\* handle_response is never called.
HandleConnectCloseAgain(c) ==
    /\ pc[c] = "active"
    /\ stats' = CountClose(stats)
    /\ UNCHANGED <<pc, stage, locals, published, counted>>
HandleConnectClose(c) ==
    /\ pc[c] = "active"
    /\ pc' = [pc EXCEPT ![c] = "closed"]
    /\ stats' = CountClose(stats)
    /\ UNCHANGED <<stage, locals, published, counted>>

-----------------------------------------------------------------------------
(* The sampling task: one round of its loop, ten atomic operations long.    *)

Sample(from, to) == stage = from /\ stage' = to

Store(counter, value) == stats' = [stats EXCEPT ![counter] = value]

SaturatingSub(a, b) == IF a >= b THEN a - b ELSE 0

Speed(d) == SaturatingSub(current[d], last[d])

LoadBytes(d) ==
    /\ IF d = "Downstream" THEN Sample("load_in", "load_out")
                           ELSE Sample("load_out", "speed_in")
    /\ current' = [current EXCEPT ![d] = Bytes(d)]
    /\ UNCHANGED <<stats, pc, last, qps, published, counted>>

StoreSpeedIfAny(d) ==
    /\ IF d = "Downstream" THEN Sample("speed_in", "speed_out")
                           ELSE Sample("speed_out", "peak_in")
    /\ IF Speed(d) > 0 THEN Store(SpeedOf(d), Speed(d)) ELSE UNCHANGED stats
    /\ published' = [published EXCEPT ![d] = @ + Speed(d)]
    /\ UNCHANGED <<pc, locals, counted>>
StoreSpeed(d) ==
    /\ IF d = "Downstream" THEN Sample("speed_in", "speed_out")
                           ELSE Sample("speed_out", "peak_in")
    /\ Store(SpeedOf(d), Speed(d))
    /\ published' = [published EXCEPT ![d] = @ + Speed(d)]
    /\ UNCHANGED <<pc, locals, counted>>

\* Nothing else writes the peaks: load, comparison and store are one step.
RaisePeakAlways(d) ==
    /\ IF d = "Downstream" THEN Sample("peak_in", "peak_out")
                           ELSE Sample("peak_out", "load_qps")
    /\ Store(PeakOf(d), Speed(d))
    /\ UNCHANGED <<pc, locals, published, counted>>
RaisePeak(d) ==
    /\ IF d = "Downstream" THEN Sample("peak_in", "peak_out")
                           ELSE Sample("peak_out", "load_qps")
    /\ IF Speed(d) > stats[PeakOf(d)] THEN Store(PeakOf(d), Speed(d)) ELSE UNCHANGED stats
    /\ UNCHANGED <<pc, locals, published, counted>>

LoadQps ==
    /\ Sample("load_qps", "store_qps")
    /\ qps' = stats["requests_this_second"]
    /\ UNCHANGED <<stats, pc, current, last, published, counted>>

StoreQps ==
    /\ Sample("store_qps", "reset_qps")
    /\ Store("last_qps", qps)
    /\ counted' = counted + qps
    /\ UNCHANGED <<pc, locals, published>>

\* requests_this_second.store(0): what was added since LoadQps is gone.
ForgetReset ==
    /\ Sample("reset_qps", "peak_qps")
    /\ UNCHANGED <<stats, pc, locals, published, counted>>
ResetQps ==
    /\ Sample("reset_qps", "peak_qps")
    /\ Store("requests_this_second", 0)
    /\ UNCHANGED <<pc, locals, published, counted>>

\* The end of the round keeps the byte counts it loaded, then sleeps.
EndRoundReload ==
    /\ Sample("peak_qps", "load_in")
    /\ IF qps > stats["max_qps"] THEN Store("max_qps", qps) ELSE UNCHANGED stats
    /\ last' = [d \in DataDirection |-> Bytes(d)]
    /\ UNCHANGED <<pc, current, qps, published, counted>>
EndRound ==
    /\ Sample("peak_qps", "load_in")
    /\ IF qps > stats["max_qps"] THEN Store("max_qps", qps) ELSE UNCHANGED stats
    /\ last' = current
    /\ UNCHANGED <<pc, current, qps, published, counted>>

-----------------------------------------------------------------------------
Init ==
    /\ stats = ZeroStats
    /\ pc = [c \in Callers |-> "idle"]
    /\ stage = "load_in"
    /\ current = [d \in DataDirection |-> 0]
    /\ last = [d \in DataDirection |-> 0]
    /\ qps = 0
    /\ published = [d \in DataDirection |-> 0]
    /\ counted = 0

Handler(c) ==
    \/ AddTotal(c)
    \/ AddCurrent(c)
    \/ AddSecond(c)
    \/ \E d \in DataDirection, n \in 1..MaxChunk : HandleData(c, d, n)
    \/ HandleConnectClose(c)

Sampler ==
    \/ \E d \in DataDirection : LoadBytes(d) \/ StoreSpeed(d) \/ RaisePeak(d)
    \/ LoadQps
    \/ StoreQps
    \/ ResetQps
    \/ EndRound

Next == (\E c \in Callers : Handler(c)) \/ Sampler

Spec == Init /\ [][Next]_vars

\* The loop of the sampling task never ends and its sleep always wakes up.
FairSpec == Spec /\ WF_vars(Sampler)

-----------------------------------------------------------------------------
(* Properties.                                                              *)

\* Types; current_requests has not wrapped around below zero
\* (traffic_stats.rs:171).
TypeOK ==
    /\ stats \in [Counters -> Nat]
    /\ stats["current_requests"] <= stats["total_requests"]
    /\ pc \in [Callers -> {"idle", "total", "current", "active", "closed"}]
    /\ stage \in Stages
    /\ current \in [DataDirection -> Nat]
    /\ last \in [DataDirection -> Nat]
    /\ qps \in Nat
    /\ published \in [DataDirection -> Nat]
    /\ counted \in Nat

\* The stages at which this round has published the speed of a direction.
Published(d) ==
    stage \notin {"load_in", "load_out", "speed_in"}
        /\ (d = "Upstream" => stage # "speed_out")

\* The speeds published since the start add up to the bytes counted at the
\* load of the last round that published: no byte is left out or counted
\* twice, whatever arrives during a round (traffic_stats.rs:27-39, 68-70).
SpeedsAddUp ==
    \A d \in DataDirection :
        /\ published[d] = IF Published(d) THEN current[d] ELSE last[d]
        /\ last[d] <= current[d] /\ current[d] <= Bytes(d)

\* Requests whose third fetch_add has been executed.
Arrived == {c \in Callers : pc[c] \in {"active", "closed"}}

\* What requests_this_second holds that no published rate includes.
Unpublished ==
    stats["requests_this_second"] - (IF stage = "reset_qps" THEN qps ELSE 0)

\* The published rates and the running second together never count a request
\* twice (traffic_stats.rs:56-61).
NoRequestCountedTwice == counted + Unpublished <= Cardinality(Arrived)

\* The requests between their first two fetch_adds.
Entering == {c \in Callers : pc[c] = "total"}

\* Handlers that interleave with each other and with the sampling task count
\* as if each ran in one step: a request that is between its fetch_adds is
\* taken as counted, and the sampling task never touches a total
\* (traffic_stats.rs:105-141, 150-173).
Totals == INSTANCE TrafficTotals WITH
    Directions <- DataDirection,
    total <- stats["total_requests"],
    open <- stats["current_requests"] + Cardinality(Entering),
    bytes <- [d \in DataDirection |-> Bytes(d)]

ImplementsTotals == Totals!TotalsSpec

\* Peaks never fall, and every round ends with peaks that cover the speeds
\* and the rate it published (traffic_stats.rs:41-54, 63-66).
Covers(s) ==
    /\ \A d \in DataDirection : s[PeakOf(d)] >= s[SpeedOf(d)]
    /\ s["max_qps"] >= s["last_qps"]

PeaksHold ==
    [][ /\ \A p \in {"max_speed_in", "max_speed_out", "max_qps"} : stats'[p] >= stats[p]
        /\ stage' = "load_in" => Covers(stats') ]_vars

\* Every byte a handler counts appears in some published speed.
EveryByteIsPublished ==
    \A d \in DataDirection, n \in 1..MaxBytes :
        Bytes(d) >= n ~> published[d] >= n

\* When the traffic stops, the gauges return to zero and stay there.
GaugesSettle ==
    <>[](\A g \in {"current_speed_in", "current_speed_out", "last_qps"} : stats[g] = 0)

-----------------------------------------------------------------------------
(* What comments of the code say and the code does not do.                  *)

\* store.rs:24: requests_this_second is the number of requests in the current
\* second, so that each request belongs to one published rate or to the
\* running second.
EveryRequestInSomeSecond == counted + Unpublished = Cardinality(Arrived)
=============================================================================
