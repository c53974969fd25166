--------------------------- MODULE StatsCounters ---------------------------
(***************************************************************************)
(* The atomic counters of store.rs (TrafficStatsData) and what the handlers *)
(* of TrafficStatsPlugin do to them, as operators on one function from      *)
(* counter names to values.  TrafficStats interleaves the single atomic     *)
(* operations with the sampling task; Proxy uses whole handlers.            *)
(***************************************************************************)
EXTENDS Integers

CONSTANT Word    \* number of values of an AtomicU64, 2^64 in the program

ASSUME WordAssumption == Word \in Nat \ {0}

\* last_bytes_in, last_bytes_out, last_update and last_second are left out:
\* nothing in src/ reads or writes them after TrafficStatsData::new.
Counters ==
    {"bytes_in", "bytes_out", "total_requests", "current_requests",
     "requests_this_second", "last_qps", "max_qps", "current_speed_in",
     "current_speed_out", "max_speed_in", "max_speed_out"}

ZeroStats == [c \in Counters |-> 0]

DataDirection == {"Upstream", "Downstream"}

FetchAdd(s, c, n) == [s EXCEPT ![c] = @ + n]

\* fetch_sub wraps around at zero; the upward wrap takes 2^64 events and is
\* not modelled.
FetchSub(s, c, n) == [s EXCEPT ![c] = IF @ >= n THEN @ - n ELSE @ + Word - n]

\* Bytes the client sends are counted as outbound, bytes of the target as
\* inbound.
CounterOf(direction) ==
    IF direction = "Upstream" THEN "bytes_out" ELSE "bytes_in"

\* handle_request and handle_connect.
CountRequest(s) ==
    FetchAdd(FetchAdd(FetchAdd(s, "total_requests", 1), "current_requests", 1),
             "requests_this_second", 1)

\* handle_connect_close.
CountClose(s) == FetchSub(s, "current_requests", 1)

\* handle_data.
CountData(s, direction, n) == FetchAdd(s, CounterOf(direction), n)
=============================================================================
