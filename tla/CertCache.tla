----------------------------- MODULE CertCache -----------------------------
(***************************************************************************)
(* HttpsInterceptor::get_or_generate_cert: concurrent CONNECTs over the     *)
(* cache of certificates, which is checked under the read lock and filled   *)
(* under the write lock of a tokio RwLock.  The lock is external: waiters   *)
(* are served first come, first served, readers together.  A certificate,   *)
(* with its key, is named after the CONNECT it was generated for.           *)
(***************************************************************************)
EXTENDS CacheClients, Sequences

CONSTANT cache_duration     \* 3600 seconds in the program

ASSUME CertAssumption == cache_duration \in Nat

VARIABLES
    pc,         \* where each CONNECT stands
    domain,     \* the host it asks for
    looked,     \* when it compared the clock with an expiry
    generated,  \* when its own certificate was generated
    cert,       \* the certificate it serves
    cert_cache, \* [cert, expiry] for each host
    readers,    \* the CONNECTs that hold the read lock
    writer,     \* the CONNECT that holds the write lock
    waiters     \* the CONNECTs that wait for the lock, in order

lock == <<readers, writer, waiters>>
vars == <<clock, pc, domain, looked, generated, cert, cert_cache, lock>>

NoCert == [cert |-> Nobody, expiry |-> 0]

Goto(f, from, to) == pc[f] = from /\ pc' = [pc EXCEPT ![f] = to]

Enqueue(f) == waiters' = Append(waiters, f) /\ UNCHANGED <<readers, writer>>

First(f) == waiters # <<>> /\ Head(waiters) = f

-----------------------------------------------------------------------------
\* cert_cache.read().await
BeginConnect(f) ==
    /\ Goto(f, "idle", "reading")
    /\ Enqueue(f)
    /\ UNCHANGED <<clock, domain, looked, generated, cert, cert_cache>>

GrantRead(f) ==
    /\ First(f) /\ writer = Nobody
    /\ Goto(f, "reading", "checking")
    /\ readers' = readers \cup {f}
    /\ waiters' = Tail(waiters)
    /\ UNCHANGED <<clock, domain, looked, generated, cert, cert_cache, writer>>

\* An entry that has not expired is returned; else the guard is dropped, and
\* only then a certificate is generated.
Unexpired(f) ==
    LET entry == cert_cache[domain[f]]
    IN  entry # NoCert /\ entry.expiry > clock

CertHit(f) ==
    /\ Unexpired(f)
    /\ Goto(f, "checking", "served")
    /\ looked' = [looked EXCEPT ![f] = clock]
    /\ cert' = [cert EXCEPT ![f] = cert_cache[domain[f]].cert]
    /\ readers' = readers \ {f}
    /\ UNCHANGED <<clock, domain, generated, cert_cache, writer, waiters>>

CertMissKeepsGuard(f) ==
    /\ ~Unexpired(f)
    /\ Goto(f, "checking", "generating")
    /\ looked' = [looked EXCEPT ![f] = clock]
    /\ UNCHANGED <<clock, domain, generated, cert, cert_cache, lock>>
CertMiss(f) ==
    /\ ~Unexpired(f)
    /\ Goto(f, "checking", "generating")
    /\ looked' = [looked EXCEPT ![f] = clock]
    /\ readers' = readers \ {f}
    /\ UNCHANGED <<clock, domain, generated, cert, cert_cache, writer, waiters>>

\* generate_cert, then cert_cache.write().await
GenerateCert(f) ==
    /\ Goto(f, "generating", "writing")
    /\ generated' = [generated EXCEPT ![f] = clock]
    /\ Enqueue(f)
    /\ UNCHANGED <<clock, domain, looked, cert, cert_cache>>

GenerateFails(f) ==
    /\ Goto(f, "generating", "failed")
    /\ UNCHANGED <<clock, domain, looked, generated, cert, cert_cache, lock>>

GrantWrite(f) ==
    /\ First(f) /\ writer = Nobody /\ readers = {}
    /\ Goto(f, "writing", "storing")
    /\ writer' = f
    /\ waiters' = Tail(waiters)
    /\ UNCHANGED <<clock, domain, looked, generated, cert, cert_cache, readers>>

\* The entry of another CONNECT that was faster is replaced.
InsertCertExpiresLate(f) ==
    /\ Goto(f, "storing", "served")
    /\ cert_cache' = [cert_cache EXCEPT ![domain[f]] =
                        [cert |-> f, expiry |-> clock + cache_duration]]
    /\ cert' = [cert EXCEPT ![f] = f]
    /\ writer' = Nobody
    /\ UNCHANGED <<clock, domain, looked, generated, readers, waiters>>
InsertCert(f) ==
    /\ Goto(f, "storing", "served")
    /\ cert_cache' = [cert_cache EXCEPT ![domain[f]] =
                        [cert |-> f, expiry |-> generated[f] + cache_duration]]
    /\ cert' = [cert EXCEPT ![f] = f]
    /\ writer' = Nobody
    /\ UNCHANGED <<clock, domain, looked, generated, readers, waiters>>

\* The client goes away at an await; a waiter leaves the queue.
LeaveQueue(f) ==
    /\ \E i \in 1..Len(waiters) :
        /\ waiters[i] = f
        /\ waiters' = SubSeq(waiters, 1, i - 1) \o SubSeq(waiters, i + 1, Len(waiters))
    /\ UNCHANGED <<readers, writer>>

ConnectDroppedInQueue(f) ==
    /\ \E stage \in {"reading", "writing", "generating"} : Goto(f, stage, "dropped")
    /\ UNCHANGED <<clock, domain, looked, generated, cert, cert_cache, lock>>
ConnectDropped(f) ==
    /\ \/ Goto(f, "reading", "dropped") /\ LeaveQueue(f)
       \/ Goto(f, "writing", "dropped") /\ LeaveQueue(f)
       \/ Goto(f, "generating", "dropped") /\ UNCHANGED lock
    /\ UNCHANGED <<clock, domain, looked, generated, cert, cert_cache>>

Init ==
    /\ clock = 0
    /\ pc = [f \in Flows |-> "idle"]
    /\ domain \in [Flows -> Hosts]
    /\ looked = [f \in Flows |-> 0]
    /\ generated = [f \in Flows |-> 0]
    /\ cert = [f \in Flows |-> Nobody]
    /\ cert_cache = [h \in Hosts |-> NoCert]
    /\ readers = {}
    /\ writer = Nobody
    /\ waiters = <<>>

\* What the program does once a CONNECT has begun.
Progress(f) ==
    \/ GrantRead(f) \/ CertHit(f) \/ CertMiss(f)
    \/ GenerateCert(f) \/ GenerateFails(f)
    \/ GrantWrite(f) \/ InsertCert(f)

Next ==
    \/ \E f \in Flows : BeginConnect(f) \/ Progress(f) \/ ConnectDropped(f)
    \/ SetClock /\ UNCHANGED <<pc, domain, looked, generated, cert, cert_cache, lock>>

Spec == Init /\ [][Next]_vars

\* The runtime polls the tasks, the lock is handed on, and reading the root
\* certificate and generating a key end.
FairSpec == Spec /\ \A f \in Flows : WF_vars(Progress(f))

-----------------------------------------------------------------------------
(* Properties.                                                              *)

CertTypes ==
    /\ clock \in Times
    /\ pc \in [Flows -> {"idle", "reading", "checking", "generating", "writing",
                         "storing", "served", "failed", "dropped"}]
    /\ domain \in [Flows -> Hosts]
    /\ looked \in [Flows -> Times]
    /\ generated \in [Flows -> Times]
    /\ cert \in [Flows -> Flows \cup {Nobody}]
    /\ cert_cache \in [Hosts -> [cert : Flows \cup {Nobody},
                                 expiry : 0..(MaxTime + cache_duration)]]

GuardsHeld ==
    /\ readers = {f \in Flows : pc[f] = "checking"}
    /\ writer \in Flows \cup {Nobody}
    /\ \A f \in Flows : writer = f <=> pc[f] = "storing"

\* A CONNECT stands in the queue once, while it waits, and never else.
QueueExact ==
    /\ waiters \in Seq(Flows)
    /\ \A f \in Flows : pc[f] \in {"reading", "writing"} =>
            \E i \in 1..Len(waiters) : waiters[i] = f
    /\ \A i \in 1..Len(waiters) : pc[waiters[i]] \in {"reading", "writing"}
    /\ \A i, j \in 1..Len(waiters) : waiters[i] = waiters[j] => i = j

\* Types; a CONNECT holds the read guard while it checks the cache and the
\* write guard while it stores its certificate, and at no other time, and it
\* stands in the queue of the lock once while it waits for either
\* (https_interceptor.rs:168-180).
TypeOK == CertTypes /\ GuardsHeld /\ QueueExact

\* A session serves a certificate that was generated for its own host, by
\* itself or less than cache_duration before it looked, also when CONNECTs to
\* one host generate certificates at the same time and wait for the lock
\* (https_interceptor.rs:167-180).
Certificates == INSTANCE TimedCache WITH
    Clients <- Flows, Keys <- Hosts, Lifetime <- cache_duration,
    key <- domain, asked <- looked, born <- generated, got <- cert

ImplementsCache == Certificates!CacheSpec

\* What a CONNECT waits for is not a guard that is never given back.
CanGoOn(f) ==
    \/ pc[f] \in {"checking", "generating", "storing"}
    \/ pc[f] = "reading" /\ First(f) /\ writer = Nobody
    \/ pc[f] = "writing" /\ First(f) /\ writer = Nobody /\ readers = {}

\* The CONNECTs never all wait for each other: while one is under way, one of
\* them can go on, whatever order they have asked for the lock in and whoever
\* has left the queue (https_interceptor.rs:168-178).
NoStandstill ==
    (\E f \in Flows : pc[f] \notin {"idle", "served", "failed", "dropped"})
        => \E f \in Flows : CanGoOn(f)

\* No CONNECT waits for ever: the guard that was read under is given back
\* before a certificate is generated and the write lock is asked for, and a
\* client that leaves leaves the queue (https_interceptor.rs:168-178).
EveryConnectIsDecided ==
    \A f \in Flows : pc[f] # "idle" ~> pc[f] \in {"served", "failed", "dropped"}
=============================================================================
