------------------------------ MODULE DnsCache ------------------------------
(***************************************************************************)
(* HttpInterceptor::dns_lookup: concurrent lookups over the DNS_CACHE all   *)
(* connections share.  A lookup reads the clock, then the cache, then asks  *)
(* a name server; other lookups run in between, on other threads or while   *)
(* this one waits.  The guard of DNS_CACHE.get is dropped before the await. *)
(* The addresses a lookup obtains are named after the lookup.               *)
(***************************************************************************)
EXTENDS CacheClients

CONSTANTS
    CACHE_DURATION, \* 300 seconds in the program
    BadPorts,       \* the hosts whose second ":" field is not a u16
    Word            \* number of values of a u64, 2^64 in the program

\* Clock readings are far apart from the width of a u64.
ASSUME DnsAssumption ==
    /\ CACHE_DURATION \in Nat
    /\ BadPorts \subseteq Hosts
    /\ Word \in Nat /\ Word > MaxTime + CACHE_DURATION

VARIABLES
    pc,             \* where each lookup stands
    host,           \* the host it asks for
    current_time,   \* when it read the clock
    answer,         \* the addresses it returns
    DNS_CACHE       \* [addrs, timestamp] for each host

vars == <<clock, pc, host, current_time, answer, DNS_CACHE>>

NoEntry == [addrs |-> Nobody, timestamp |-> 0]

Cached(f) == DNS_CACHE[host[f]]

Goto(f, from, to) == pc[f] = from /\ pc' = [pc EXCEPT ![f] = to]

\* current_time - timestamp wraps around in a release build.
SaturatingAge(now, timestamp) == IF now >= timestamp THEN now - timestamp ELSE 0
Age(now, timestamp) ==
    IF now >= timestamp THEN now - timestamp ELSE now + Word - timestamp

BeginLookup(f) ==
    /\ Goto(f, "idle", "check")
    /\ current_time' = [current_time EXCEPT ![f] = clock]
    /\ UNCHANGED <<clock, host, answer, DNS_CACHE>>

Hit(f) ==
    /\ Cached(f) # NoEntry
    /\ Age(current_time[f], Cached(f).timestamp) < CACHE_DURATION

CacheHit(f) ==
    /\ Hit(f)
    /\ Goto(f, "check", "answered")
    /\ answer' = [answer EXCEPT ![f] = Cached(f).addrs]
    /\ UNCHANGED <<clock, host, current_time, DNS_CACHE>>

CacheMiss(f) ==
    /\ ~Hit(f)
    /\ Goto(f, "check", IF host[f] \in BadPorts THEN "panicked" ELSE "resolve")
    /\ UNCHANGED <<clock, host, current_time, answer, DNS_CACHE>>

\* In a debug build the subtraction panics instead of wrapping around.
Underflow(f) ==
    /\ Cached(f) # NoEntry /\ current_time[f] < Cached(f).timestamp
    /\ Goto(f, "check", "panicked")
    /\ UNCHANGED <<clock, host, current_time, answer, DNS_CACHE>>

\* The answer is stored under the time the lookup began, over whatever
\* another lookup has stored in the meantime.
ResolvedStampsLate(f) ==
    /\ Goto(f, "resolve", "answered")
    /\ answer' = [answer EXCEPT ![f] = f]
    /\ DNS_CACHE' = [DNS_CACHE EXCEPT ![host[f]] = [addrs |-> f, timestamp |-> clock]]
    /\ UNCHANGED <<clock, host, current_time>>
Resolved(f) ==
    /\ Goto(f, "resolve", "answered")
    /\ answer' = [answer EXCEPT ![f] = f]
    /\ DNS_CACHE' = [DNS_CACHE EXCEPT ![host[f]] =
                        [addrs |-> f, timestamp |-> current_time[f]]]
    /\ UNCHANGED <<clock, host, current_time>>

ResolveFails(f) ==
    /\ Goto(f, "resolve", "failed")
    /\ UNCHANGED <<clock, host, current_time, answer, DNS_CACHE>>

\* The client goes away during the one await.
LookupDropped(f) ==
    /\ Goto(f, "resolve", "dropped")
    /\ UNCHANGED <<clock, host, current_time, answer, DNS_CACHE>>

Init ==
    /\ clock = 0
    /\ pc = [f \in Flows |-> "idle"]
    /\ host \in [Flows -> Hosts]
    /\ current_time = [f \in Flows |-> 0]
    /\ answer = [f \in Flows |-> Nobody]
    /\ DNS_CACHE = [h \in Hosts |-> NoEntry]

\* What the program does once a lookup has begun.
Progress(f) ==
    CacheHit(f) \/ CacheMiss(f) \/ Underflow(f) \/ Resolved(f) \/ ResolveFails(f)

Next ==
    \/ \E f \in Flows : BeginLookup(f) \/ Progress(f) \/ LookupDropped(f)
    \/ SetClock /\ UNCHANGED <<pc, host, current_time, answer, DNS_CACHE>>

Spec == Init /\ [][Next]_vars

-----------------------------------------------------------------------------
(* Properties.                                                              *)

\* Types; an entry carries the host and the starting time of the lookup that
\* made it, and that lookup has returned it (http_interceptor.rs:72-82).
TypeOK ==
    /\ clock \in Times
    /\ pc \in [Flows -> {"idle", "check", "resolve", "answered", "failed",
                         "panicked", "dropped"}]
    /\ host \in [Flows -> Hosts]
    /\ current_time \in [Flows -> Times]
    /\ answer \in [Flows -> Flows \cup {Nobody}]
    /\ DNS_CACHE \in [Hosts -> [addrs : Flows \cup {Nobody}, timestamp : Times]]
    /\ \A h \in Hosts : DNS_CACHE[h] # NoEntry =>
        \E f \in Flows :
            /\ DNS_CACHE[h] = [addrs |-> f, timestamp |-> current_time[f]]
            /\ host[f] = h /\ answer[f] = f

\* No host is answered from an entry that was made later than the lookup read
\* the clock, whether the clock was set back or another thread has stored an
\* entry since: the subtraction wraps around and misses
\* (http_interceptor.rs:47-63).
NothingFromTheFuture ==
    \A f \in Flows :
        answer[f] \notin {Nobody, f} => current_time[answer[f]] <= current_time[f]

\* What a lookup is answered began less than CACHE_DURATION before it, for the
\* same host, however slow name servers are and in whatever order they answer
\* (http_interceptor.rs:45-93).
Answers == INSTANCE TimedCache WITH
    Clients <- Flows, Keys <- Hosts, Lifetime <- CACHE_DURATION,
    key <- host, asked <- current_time, born <- current_time, got <- answer

ImplementsCache == Answers!CacheSpec
=============================================================================
