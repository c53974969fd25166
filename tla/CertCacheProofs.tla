-------------------------- MODULE CertCacheProofs --------------------------
(***************************************************************************)
(* Theorems about CertCache for any number of CONNECTs and hosts, any       *)
(* reading of the clock and any cache_duration.                             *)
(***************************************************************************)
EXTENDS CertCache, SequenceTheorems, TLAPS

\* The certificate a session serves, and its times, never change again.
ServedIsOver == \A f \in Flows : cert[f] # Nobody => pc[f] = "served"

\* An entry leads back to the CONNECT that made it, which serves it itself,
\* and expires cache_duration after it was generated.
EntryHasMaker ==
    \A h \in Hosts : cert_cache[h] # NoCert =>
        \E m \in Flows :
            /\ cert_cache[h] = [cert |-> m, expiry |-> generated[m] + cache_duration]
            /\ domain[m] = h /\ cert[m] = m

\* The inductive invariant.
CertInv == CertTypes /\ GuardsHeld /\ QueueExact /\ ServedIsOver /\ EntryHasMaker

-----------------------------------------------------------------------------
LEMMA CertInvInit == Init => CertInv
<1> SUFFICES ASSUME Init PROVE CertInv
  OBVIOUS
<1>1. 0 \in Times /\ 0 \in 0..(MaxTime + cache_duration)
  BY ClientsAssumption, CertAssumption DEF Times
<1>2. CertTypes
  BY <1>1 DEF Init, CertTypes, NoCert
<1>3. GuardsHeld
  BY ClientsAssumption DEF Init, GuardsHeld
<1>4. ServedIsOver /\ EntryHasMaker
  BY DEF Init, ServedIsOver, EntryHasMaker
<1>5. QueueExact
  BY EmptySeq DEF Init, QueueExact
<1> QED
  BY <1>2, <1>3, <1>4, <1>5 DEF CertInv

LEMMA TypesNext == CertInv /\ [Next]_vars => CertTypes'
<1> SUFFICES ASSUME CertInv, [Next]_vars PROVE CertTypes'
  OBVIOUS
<1>1. CertTypes
  BY DEF CertInv
<1>2. ASSUME NEW f \in Flows, BeginConnect(f) \/ GrantRead(f) \/ GrantWrite(f)
      PROVE  CertTypes'
  BY <1>1, <1>2 DEF BeginConnect, GrantRead, GrantWrite, Goto, CertTypes
<1>3. ASSUME NEW f \in Flows, CertHit(f)
      PROVE  CertTypes'
  BY <1>1, <1>3 DEF CertHit, Goto, CertTypes
<1>4. ASSUME NEW f \in Flows, CertMiss(f) \/ GenerateCert(f)
      PROVE  CertTypes'
  BY <1>1, <1>4 DEF CertMiss, GenerateCert, Goto, CertTypes
<1>5. ASSUME NEW f \in Flows, GenerateFails(f) \/ ConnectDropped(f)
      PROVE  CertTypes'
  BY <1>1, <1>5 DEF GenerateFails, ConnectDropped, Goto, CertTypes
<1>6. ASSUME NEW f \in Flows, InsertCert(f)
      PROVE  CertTypes'
  <2>1. generated[f] + cache_duration \in 0..(MaxTime + cache_duration)
    BY <1>1, ClientsAssumption, CertAssumption DEF CertTypes, Times
  <2> QED
    BY <1>1, <1>6, <2>1 DEF InsertCert, Goto, CertTypes
<1>7. CASE SetClock /\ UNCHANGED <<pc, domain, looked, generated, cert, cert_cache, lock>>
  BY <1>1, <1>7 DEF SetClock, CertTypes
<1>8. CASE UNCHANGED vars
  BY <1>1, <1>8 DEF vars, CertTypes
<1> QED
  BY <1>2, <1>3, <1>4, <1>5, <1>6, <1>7, <1>8 DEF Next, Progress

\* The guards are taken and given back with the stages they belong to.
LEMMA GuardsNext == CertInv /\ [Next]_vars => GuardsHeld'
<1> SUFFICES ASSUME CertInv, [Next]_vars PROVE GuardsHeld'
  OBVIOUS
<1>1. /\ GuardsHeld /\ \A f \in Flows : f # Nobody
      /\ pc \in [Flows -> {"idle", "reading", "checking", "generating", "writing",
                           "storing", "served", "failed", "dropped"}]
  BY ClientsAssumption DEF CertInv, CertTypes
<1>2. ASSUME NEW f \in Flows, NEW from, NEW to, Goto(f, from, to)
      PROVE  pc[f] = from /\ pc'[f] = to /\ \A g \in Flows \ {f} : pc'[g] = pc[g]
  BY <1>1, <1>2 DEF Goto
<1>3. ASSUME NEW f \in Flows, BeginConnect(f)
      PROVE  GuardsHeld'
  <2>1. Goto(f, "idle", "reading") /\ UNCHANGED <<readers, writer>>
    BY <1>3 DEF BeginConnect, Enqueue
  <2> QED
    BY <1>1, <1>2, <2>1 DEF GuardsHeld
<1>4. ASSUME NEW f \in Flows, GrantRead(f)
      PROVE  GuardsHeld'
  <2>1. Goto(f, "reading", "checking") /\ readers' = readers \cup {f} /\ UNCHANGED writer
    BY <1>4 DEF GrantRead
  <2> QED
    BY <1>1, <1>2, <2>1 DEF GuardsHeld
<1>5. ASSUME NEW f \in Flows, CertHit(f)
      PROVE  GuardsHeld'
  <2>1. Goto(f, "checking", "served") /\ readers' = readers \ {f} /\ UNCHANGED writer
    BY <1>5 DEF CertHit
  <2> QED
    BY <1>1, <1>2, <2>1 DEF GuardsHeld
<1>6. ASSUME NEW f \in Flows, CertMiss(f)
      PROVE  GuardsHeld'
  <2>1. Goto(f, "checking", "generating") /\ readers' = readers \ {f} /\ UNCHANGED writer
    BY <1>6 DEF CertMiss
  <2> QED
    BY <1>1, <1>2, <2>1 DEF GuardsHeld
<1>7. ASSUME NEW f \in Flows, GenerateCert(f)
      PROVE  GuardsHeld'
  <2>1. Goto(f, "generating", "writing") /\ UNCHANGED <<readers, writer>>
    BY <1>7 DEF GenerateCert, Enqueue
  <2> QED
    BY <1>1, <1>2, <2>1 DEF GuardsHeld
<1>8. ASSUME NEW f \in Flows, GenerateFails(f)
      PROVE  GuardsHeld'
  <2>1. Goto(f, "generating", "failed") /\ UNCHANGED <<readers, writer>>
    BY <1>8 DEF GenerateFails, lock
  <2> QED
    BY <1>1, <1>2, <2>1 DEF GuardsHeld
<1>9. ASSUME NEW f \in Flows, GrantWrite(f)
      PROVE  GuardsHeld'
  <2>1. /\ Goto(f, "writing", "storing") /\ writer = Nobody
        /\ writer' = f /\ UNCHANGED readers
    BY <1>9 DEF GrantWrite
  <2> QED
    BY <1>1, <1>2, <2>1 DEF GuardsHeld
<1>10. ASSUME NEW f \in Flows, InsertCert(f)
       PROVE  GuardsHeld'
  <2>1. Goto(f, "storing", "served") /\ writer' = Nobody /\ UNCHANGED readers
    BY <1>10 DEF InsertCert
  <2> QED
    BY <1>1, <1>2, <2>1 DEF GuardsHeld
<1>11. ASSUME NEW f \in Flows, ConnectDropped(f)
       PROVE  GuardsHeld'
  <2>1. UNCHANGED <<readers, writer>>
    BY <1>11 DEF ConnectDropped, LeaveQueue, lock
  <2>2. \E from \in {"reading", "generating", "writing"} : Goto(f, from, "dropped")
    BY <1>11 DEF ConnectDropped
  <2> QED
    BY <1>1, <1>2, <2>1, <2>2 DEF GuardsHeld
<1>12. CASE UNCHANGED <<pc, readers, writer>>
  BY <1>1, <1>12 DEF GuardsHeld
<1> QED
  BY <1>3, <1>4, <1>5, <1>6, <1>7, <1>8, <1>9, <1>10, <1>11, <1>12
     DEF Next, Progress, vars, lock

\* A sequence without its k-th element.
LEMMA WithoutElement ==
    ASSUME NEW S, NEW s \in Seq(S), NEW k \in 1..Len(s), NEW t,
           t = SubSeq(s, 1, k - 1) \o SubSeq(s, k + 1, Len(s))
    PROVE  /\ t \in Seq(S) /\ Len(t) = Len(s) - 1
           /\ \A i \in 1..(Len(s) - 1) : t[i] = IF i < k THEN s[i] ELSE s[i + 1]
<1> DEFINE front == SubSeq(s, 1, k - 1)
           back == SubSeq(s, k + 1, Len(s))
<1>1. Len(s) \in Nat /\ \A i \in 1..Len(s) : s[i] \in S
  BY LenProperties, ElementOfSeq
<1>2. /\ front \in Seq(S) /\ Len(front) = k - 1
      /\ \A i \in 1..(k - 1) : front[i] = s[i]
  BY <1>1, SubSeqProperties
<1>3. /\ back \in Seq(S) /\ Len(back) = Len(s) - k
      /\ \A i \in 1..(Len(s) - k) : back[i] = s[k + i]
  BY <1>1, SubSeqProperties
<1> HIDE DEF front, back
<1>4. t = front \o back
  BY DEF front, back
<1>5. /\ t \in Seq(S) /\ Len(t) = Len(front) + Len(back)
      /\ \A i \in 1..(Len(front) + Len(back)) :
            t[i] = IF i <= Len(front) THEN front[i] ELSE back[i - Len(front)]
  <2>1. /\ front \o back \in Seq(S) /\ Len(front \o back) = Len(front) + Len(back)
        /\ \A i \in 1..(Len(front) + Len(back)) :
              (front \o back)[i] = IF i <= Len(front) THEN front[i]
                                                     ELSE back[i - Len(front)]
    BY <1>2, <1>3, ConcatProperties
  <2> QED
    BY <1>4, <2>1, Zenon
<1>6. /\ Len(s) \in Int /\ k \in Int /\ k >= 1
      /\ Len(front) = k - 1 /\ Len(front) + Len(back) = Len(s) - 1
  BY <1>1, <1>2, <1>3
<1>7. ASSUME NEW i \in 1..(Len(s) - 1)
      PROVE  t[i] = IF i < k THEN s[i] ELSE s[i + 1]
  <2>1. CASE i < k
    <3>1. i \in 1..(k - 1) /\ i <= Len(front) /\ i \in 1..(Len(front) + Len(back))
      BY <1>6, <2>1
    <3>2. t[i] = front[i]
      BY <1>5, <3>1
    <3> QED
      BY <1>2, <2>1, <3>1, <3>2
  <2>2. CASE ~(i < k)
    <3>1. /\ i - (k - 1) \in 1..(Len(s) - k) /\ k + (i - (k - 1)) = i + 1
          /\ ~(i <= k - 1)
      BY <1>6, <2>2
    <3>2. t[i] = back[i - (k - 1)]
      BY <1>5, <1>6, <3>1
    <3> QED
      BY <1>3, <2>2, <3>1, <3>2
  <2> QED
    BY <2>1, <2>2
<1> QED
  BY <1>5, <1>6, <1>7

\* A waiter that leaves the k-th place and stops waiting keeps the queue exact.
LEMMA LeavingKeepsQueue ==
    ASSUME CertInv, NEW f \in Flows, NEW k \in 1..Len(waiters), waiters[k] = f,
           waiters' \in Seq(Flows), Len(waiters') = Len(waiters) - 1,
           \A i \in 1..(Len(waiters) - 1) :
                waiters'[i] = IF i < k THEN waiters[i] ELSE waiters[i + 1],
           pc'[f] \notin {"reading", "writing"},
           \A g \in Flows \ {f} : pc'[g] = pc[g]
    PROVE  QueueExact'
<1> DEFINE old(i) == IF i < k THEN i ELSE i + 1
<1>1. /\ waiters \in Seq(Flows) /\ Len(waiters) \in Nat
      /\ \A i \in 1..Len(waiters) : waiters[i] \in Flows
      /\ \A i \in 1..Len(waiters) : pc[waiters[i]] \in {"reading", "writing"}
      /\ \A i, j \in 1..Len(waiters) : waiters[i] = waiters[j] => i = j
      /\ \A g \in Flows : pc[g] \in {"reading", "writing"} =>
            \E i \in 1..Len(waiters) : waiters[i] = g
  BY LenProperties, ElementOfSeq DEF CertInv, QueueExact
<1>2. \A i \in 1..Len(waiters') :
        /\ old(i) \in 1..Len(waiters) /\ old(i) # k
        /\ waiters'[i] = waiters[old(i)]
        /\ waiters'[i] \in Flows \ {f}
  BY <1>1
<1>3. \A i, j \in 1..Len(waiters') : waiters'[i] = waiters'[j] => i = j
  <2> SUFFICES ASSUME NEW i \in 1..Len(waiters'), NEW j \in 1..Len(waiters'),
                      waiters'[i] = waiters'[j]
               PROVE  i = j
    OBVIOUS
  <2>1. old(i) = old(j)
    BY <1>1, <1>2
  <2>2. i \in Int /\ j \in Int /\ k \in Int
    BY <1>1
  <2> QED
    BY <2>1, <2>2
<1>4. \A i \in 1..Len(waiters') : pc'[waiters'[i]] \in {"reading", "writing"}
  <2> SUFFICES ASSUME NEW i \in 1..Len(waiters')
               PROVE  pc'[waiters'[i]] \in {"reading", "writing"}
    OBVIOUS
  <2>1. pc'[waiters'[i]] = pc[waiters[old(i)]] /\ old(i) \in 1..Len(waiters)
    BY <1>2
  <2> HIDE DEF old
  <2> QED
    BY <1>1, <2>1
<1>5. ASSUME NEW g \in Flows, pc'[g] \in {"reading", "writing"}
      PROVE  \E i \in 1..Len(waiters') : waiters'[i] = g
  <2>1. g # f /\ pc[g] \in {"reading", "writing"}
    BY <1>5
  <2>2. PICK n \in 1..Len(waiters) : waiters[n] = g
    BY <1>1, <2>1
  <2>3. CASE n < k
    BY <1>1, <2>2, <2>3
  <2>4. CASE n > k
    <3>1. n - 1 \in 1..(Len(waiters) - 1) /\ ~(n - 1 < k) /\ (n - 1) + 1 = n
      BY <1>1, <2>4
    <3>2. waiters'[n - 1] = waiters[(n - 1) + 1]
      BY <3>1
    <3> QED
      BY <2>2, <3>1, <3>2
  <2> QED
    BY <2>1, <2>2, <2>3, <2>4
<1> QED
  BY <1>3, <1>4, <1>5 DEF QueueExact

\* So does one that begins to wait and joins the end.
LEMMA JoiningKeepsQueue ==
    ASSUME CertInv, NEW f \in Flows, waiters' = Append(waiters, f),
           pc[f] \notin {"reading", "writing"},
           pc'[f] \in {"reading", "writing"},
           \A g \in Flows \ {f} : pc'[g] = pc[g]
    PROVE  QueueExact'
<1>1. /\ waiters \in Seq(Flows) /\ Len(waiters) \in Nat
      /\ \A i \in 1..Len(waiters) : waiters[i] \in Flows
      /\ \A i \in 1..Len(waiters) : pc[waiters[i]] \in {"reading", "writing"}
      /\ \A i, j \in 1..Len(waiters) : waiters[i] = waiters[j] => i = j
      /\ \A g \in Flows : pc[g] \in {"reading", "writing"} =>
            \E i \in 1..Len(waiters) : waiters[i] = g
  BY LenProperties, ElementOfSeq DEF CertInv, QueueExact
<1>2. /\ waiters' \in Seq(Flows) /\ Len(waiters') = Len(waiters) + 1
      /\ \A i \in 1..Len(waiters) : waiters'[i] = waiters[i]
      /\ waiters'[Len(waiters) + 1] = f
  BY <1>1, AppendProperties
<1>3. \A i \in 1..Len(waiters) : waiters[i] # f
  BY <1>1
<1>4. \A i \in 1..Len(waiters') : i \in 1..Len(waiters) \/ i = Len(waiters) + 1
  BY <1>1, <1>2
<1>5. \A i, j \in 1..Len(waiters') : waiters'[i] = waiters'[j] => i = j
  BY <1>1, <1>2, <1>3, <1>4
<1>6. \A i \in 1..Len(waiters') : pc'[waiters'[i]] \in {"reading", "writing"}
  BY <1>1, <1>2, <1>3, <1>4
<1>7. ASSUME NEW g \in Flows, pc'[g] \in {"reading", "writing"}
      PROVE  \E i \in 1..Len(waiters') : waiters'[i] = g
  <2>1. CASE g = f
    BY <1>1, <1>2, <2>1
  <2>2. CASE g # f
    <3>1. PICK i \in 1..Len(waiters) : waiters[i] = g
      BY <1>1, <1>7, <2>2
    <3> QED
      BY <1>1, <1>2, <3>1
  <2> QED
    BY <2>1, <2>2
<1> QED
  BY <1>2, <1>5, <1>6, <1>7 DEF QueueExact

\* Every CONNECT stands in the queue exactly while it waits.
LEMMA QueueNext == CertInv /\ [Next]_vars => QueueExact'
<1> SUFFICES ASSUME CertInv, [Next]_vars PROVE QueueExact'
  OBVIOUS
<1>1. /\ pc \in [Flows -> {"idle", "reading", "checking", "generating", "writing",
                           "storing", "served", "failed", "dropped"}]
      /\ QueueExact
  BY DEF CertInv, CertTypes
<1>2. ASSUME NEW f \in Flows, NEW from, NEW to, Goto(f, from, to)
      PROVE  pc[f] = from /\ pc'[f] = to /\ \A g \in Flows \ {f} : pc'[g] = pc[g]
  BY <1>1, <1>2 DEF Goto
<1>3. ASSUME NEW f \in Flows, BeginConnect(f)
      PROVE  QueueExact'
  <2>1. Goto(f, "idle", "reading") /\ waiters' = Append(waiters, f)
    BY <1>3 DEF BeginConnect, Enqueue
  <2> QED
    BY <1>2, <2>1, JoiningKeepsQueue
<1>4. ASSUME NEW f \in Flows, GenerateCert(f)
      PROVE  QueueExact'
  <2>1. Goto(f, "generating", "writing") /\ waiters' = Append(waiters, f)
    BY <1>4 DEF GenerateCert, Enqueue
  <2> QED
    BY <1>2, <2>1, JoiningKeepsQueue
<1>5. ASSUME NEW f \in Flows, GrantRead(f) \/ GrantWrite(f)
      PROVE  QueueExact'
  <2>1. /\ waiters # <<>> /\ Head(waiters) = f /\ waiters' = Tail(waiters)
        /\ Goto(f, "reading", "checking") \/ Goto(f, "writing", "storing")
    BY <1>5 DEF GrantRead, GrantWrite, First
  <2>2. /\ pc'[f] \notin {"reading", "writing"}
        /\ \A g \in Flows \ {f} : pc'[g] = pc[g]
    BY <1>2, <2>1
  <2>3. /\ waiters \in Seq(Flows) /\ Len(waiters) \in Nat /\ 1 \in 1..Len(waiters)
        /\ waiters[1] = f
    BY <1>1, <2>1, EmptySeq, LenProperties DEF QueueExact
  <2>4. /\ waiters' \in Seq(Flows) /\ Len(waiters') = Len(waiters) - 1
        /\ \A i \in 1..(Len(waiters) - 1) : waiters'[i] = waiters[i + 1]
    BY <2>1, <2>3, HeadTailProperties
  <2>5. \A i \in 1..(Len(waiters) - 1) :
            waiters'[i] = IF i < 1 THEN waiters[i] ELSE waiters[i + 1]
    BY <2>3, <2>4
  <2> QED
    BY <2>2, <2>3, <2>4, <2>5, LeavingKeepsQueue
<1>6. ASSUME NEW f \in Flows, ConnectDropped(f)
      PROVE  QueueExact'
  <2>1. /\ pc'[f] \notin {"reading", "writing"}
        /\ \A g \in Flows \ {f} : pc'[g] = pc[g]
    BY <1>2, <1>6 DEF ConnectDropped
  <2>2. CASE LeaveQueue(f)
    <3>1. PICK k \in 1..Len(waiters) :
            /\ waiters[k] = f
            /\ waiters' = SubSeq(waiters, 1, k - 1)
                            \o SubSeq(waiters, k + 1, Len(waiters))
      BY <2>2 DEF LeaveQueue
    <3>2. waiters \in Seq(Flows)
      BY <1>1 DEF QueueExact
    <3>3. /\ waiters' \in Seq(Flows) /\ Len(waiters') = Len(waiters) - 1
          /\ \A i \in 1..(Len(waiters) - 1) :
                waiters'[i] = IF i < k THEN waiters[i] ELSE waiters[i + 1]
      BY <3>1, <3>2, WithoutElement
    <3> QED
      BY <2>1, <3>1, <3>3, LeavingKeepsQueue
  <2>3. CASE Goto(f, "generating", "dropped") /\ UNCHANGED waiters
    BY <1>1, <1>2, <2>3 DEF QueueExact
  <2> QED
    BY <1>6, <2>2, <2>3 DEF ConnectDropped, lock
<1>7. ASSUME NEW f \in Flows,
             CertHit(f) \/ CertMiss(f) \/ GenerateFails(f) \/ InsertCert(f)
      PROVE  QueueExact'
  <2>1. /\ UNCHANGED waiters
        /\ pc[f] \notin {"reading", "writing"} /\ pc'[f] \notin {"reading", "writing"}
        /\ \A g \in Flows \ {f} : pc'[g] = pc[g]
    BY <1>2, <1>7 DEF CertHit, CertMiss, GenerateFails, InsertCert, lock, Goto
  <2>2. \A i \in 1..Len(waiters) : waiters[i] \in Flows
    BY <1>1, ElementOfSeq DEF QueueExact
  <2> QED
    BY <1>1, <2>1, <2>2 DEF QueueExact
<1>8. CASE UNCHANGED <<pc, waiters>>
  BY <1>1, <1>8 DEF QueueExact
<1> QED
  BY <1>3, <1>4, <1>5, <1>6, <1>7, <1>8 DEF Next, Progress, vars, lock

\* A CONNECT that stands before its certificate serves none.
LEMMA NoCertYet ==
    ASSUME CertInv, NEW f \in Flows, pc[f] # "served"
    PROVE  cert[f] = Nobody
BY DEF CertInv, ServedIsOver

\* A step that leaves the certificates and the cache alone, and the times of
\* the CONNECTs that are served, keeps what is said about entries.
LEMMA QuietKeepsEntries ==
    ASSUME CertInv,
           UNCHANGED <<domain, cert, cert_cache>>,
           \A f \in Flows : pc[f] = "served" =>
                pc'[f] = "served" /\ generated'[f] = generated[f]
    PROVE  ServedIsOver' /\ EntryHasMaker'
<1>1. \A f \in Flows : cert[f] # Nobody =>
        pc'[f] = "served" /\ generated'[f] = generated[f]
  BY DEF CertInv, ServedIsOver
<1>2. \A f \in Flows : f # Nobody
  BY ClientsAssumption
<1>3. EntryHasMaker'
  <2> SUFFICES ASSUME NEW h \in Hosts, cert_cache[h] # NoCert
               PROVE  \E m \in Flows :
                        /\ cert_cache[h] = [cert |-> m,
                                            expiry |-> generated'[m] + cache_duration]
                        /\ domain[m] = h /\ cert[m] = m
    BY DEF EntryHasMaker, NoCert
  <2>1. PICK m \in Flows :
          /\ cert_cache[h] = [cert |-> m, expiry |-> generated[m] + cache_duration]
          /\ domain[m] = h /\ cert[m] = m
    BY DEF CertInv, EntryHasMaker
  <2> QED
    BY <1>1, <1>2, <2>1
<1>4. ServedIsOver'
  BY <1>1 DEF ServedIsOver
<1> QED
  BY <1>3, <1>4

\* A hit is on a certificate for the own host that is still fresh.
LEMMA HitFindsMaker ==
    ASSUME CertInv, NEW f \in Flows, Unexpired(f)
    PROVE  \E m \in Flows :
                /\ cert_cache[domain[f]].cert = m
                /\ cert[m] = m /\ domain[m] = domain[f]
                /\ clock < generated[m] + cache_duration
<1>1. domain[f] \in Hosts /\ clock \in Int /\ generated \in [Flows -> Times]
  BY ClientsAssumption DEF CertInv, CertTypes, Times
<1>2. PICK m \in Flows :
        /\ cert_cache[domain[f]] = [cert |-> m, expiry |-> generated[m] + cache_duration]
        /\ domain[m] = domain[f] /\ cert[m] = m
  BY <1>1 DEF CertInv, EntryHasMaker, Unexpired
<1>3. generated[m] + cache_duration \in Int
  BY <1>1, ClientsAssumption, CertAssumption DEF Times
<1> QED
  BY <1>1, <1>2, <1>3 DEF Unexpired

LEMMA EntriesNext == CertInv /\ [Next]_vars => ServedIsOver' /\ EntryHasMaker'
<1> SUFFICES ASSUME CertInv, [Next]_vars PROVE ServedIsOver' /\ EntryHasMaker'
  OBVIOUS
<1>1. CertTypes /\ \A f \in Flows : f # Nobody
  BY ClientsAssumption DEF CertInv
<1>2. ASSUME NEW f \in Flows,
             \/ BeginConnect(f) \/ GrantRead(f) \/ GrantWrite(f)
             \/ CertMiss(f) \/ GenerateFails(f) \/ ConnectDropped(f)
      PROVE  ServedIsOver' /\ EntryHasMaker'
  <2>1. /\ UNCHANGED <<domain, cert, cert_cache>> /\ UNCHANGED generated
        /\ pc[f] # "served" /\ \A g \in Flows \ {f} : pc'[g] = pc[g]
    BY <1>1, <1>2 DEF BeginConnect, GrantRead, GrantWrite, CertMiss, GenerateFails,
                      ConnectDropped, Goto, CertTypes
  <2> QED
    BY <2>1, QuietKeepsEntries
<1>3. ASSUME NEW f \in Flows, GenerateCert(f)
      PROVE  ServedIsOver' /\ EntryHasMaker'
  <2>1. /\ UNCHANGED <<domain, cert, cert_cache>>
        /\ pc[f] # "served"
        /\ \A g \in Flows \ {f} : pc'[g] = pc[g] /\ generated'[g] = generated[g]
    BY <1>1, <1>3 DEF GenerateCert, Goto, CertTypes
  <2> QED
    BY <2>1, QuietKeepsEntries
<1>4. ASSUME NEW f \in Flows, NEW m \in Flows,
             cert[f] = Nobody,
             UNCHANGED <<domain, generated>>,
             pc' = [pc EXCEPT ![f] = "served"],
             cert' = [cert EXCEPT ![f] = m],
             \/ UNCHANGED cert_cache
             \/ /\ m = f
                /\ cert_cache' = [cert_cache EXCEPT ![domain[f]] =
                            [cert |-> f, expiry |-> generated[f] + cache_duration]]
      PROVE  ServedIsOver' /\ EntryHasMaker'
  <2>1. cert'[f] = m /\ \A g \in Flows \ {f} : cert'[g] = cert[g] /\ pc'[g] = pc[g]
    BY <1>1, <1>4 DEF CertTypes
  <2>2. ServedIsOver'
    BY <1>1, <1>4, <2>1 DEF CertInv, CertTypes, ServedIsOver
  <2>3. ASSUME NEW h \in Hosts, cert_cache'[h] # NoCert
        PROVE  \E g \in Flows :
                /\ cert_cache'[h] = [cert |-> g, expiry |-> generated[g] + cache_duration]
                /\ domain[g] = h /\ cert'[g] = g
    <3>1. CASE cert_cache'[h] = cert_cache[h]
      <4>1. PICK g \in Flows :
              /\ cert_cache[h] = [cert |-> g, expiry |-> generated[g] + cache_duration]
              /\ domain[g] = h /\ cert[g] = g
        BY <2>3, <3>1 DEF CertInv, EntryHasMaker
      <4>2. g # f
        BY <1>1, <1>4, <4>1
      <4> QED
        BY <2>1, <3>1, <4>1, <4>2
    <3>2. CASE cert_cache'[h] # cert_cache[h]
      <4>1. /\ m = f /\ h = domain[f]
            /\ cert_cache'[h] = [cert |-> f, expiry |-> generated[f] + cache_duration]
        BY <1>1, <1>4, <3>2 DEF CertTypes
      <4> QED
        BY <2>1, <4>1
    <3> QED
      BY <3>1, <3>2
  <2> QED
    BY <1>4, <2>2, <2>3 DEF EntryHasMaker, NoCert
<1>5. ASSUME NEW f \in Flows, CertHit(f)
      PROVE  ServedIsOver' /\ EntryHasMaker'
  <2>1. cert[f] = Nobody /\ pc' = [pc EXCEPT ![f] = "served"]
    BY <1>5, NoCertYet DEF CertHit, Goto
  <2>2. PICK m \in Flows : cert_cache[domain[f]].cert = m
    BY <1>5, HitFindsMaker DEF CertHit
  <2>3. /\ cert' = [cert EXCEPT ![f] = m]
        /\ UNCHANGED <<domain, generated>> /\ UNCHANGED cert_cache
    BY <1>5, <2>2 DEF CertHit
  <2> QED
    BY <1>4, <2>1, <2>3
<1>6. ASSUME NEW f \in Flows, InsertCert(f)
      PROVE  ServedIsOver' /\ EntryHasMaker'
  <2>1. cert[f] = Nobody /\ pc' = [pc EXCEPT ![f] = "served"]
    BY <1>6, NoCertYet DEF InsertCert, Goto
  <2>2. /\ cert' = [cert EXCEPT ![f] = f]
        /\ UNCHANGED <<domain, generated>>
        /\ cert_cache' = [cert_cache EXCEPT ![domain[f]] =
                            [cert |-> f, expiry |-> generated[f] + cache_duration]]
    BY <1>6 DEF InsertCert
  <2> QED
    BY <1>4, <2>1, <2>2
<1>7. CASE UNCHANGED <<pc, domain, generated, cert, cert_cache>>
  BY <1>7, QuietKeepsEntries
<1> QED
  BY <1>2, <1>3, <1>5, <1>6, <1>7 DEF Next, Progress, vars

-----------------------------------------------------------------------------
\* The invariant holds for every instance.
THEOREM CertInvariant == Spec => []CertInv
<1>1. CertInv /\ [Next]_vars => CertInv'
  BY TypesNext, GuardsNext, QueueNext, EntriesNext DEF CertInv
<1> QED
  BY <1>1, CertInvInit, PTL DEF Spec

\* The lock is held exactly where the code has a guard in scope, and asked for
\* exactly where the code awaits it: nobody keeps the read guard while
\* generating or while asking for the write lock, and nobody who left is still
\* in the queue (https_interceptor.rs:168-180).
THEOREM CertTypeCorrect == Spec => []TypeOK
<1>1. CertInv => TypeOK
  BY DEF CertInv, TypeOK
<1> QED
  BY <1>1, CertInvariant, PTL

\* Of CONNECTs under way one can always go on: whoever holds a guard gives it
\* back without waiting, and when nobody holds one the first of the queue has
\* its turn (https_interceptor.rs:168-178).
THEOREM CertNeverStands == Spec => []NoStandstill
<1>1. CertInv => NoStandstill
  <2> SUFFICES ASSUME CertInv, NEW f \in Flows,
                      pc[f] \notin {"idle", "served", "failed", "dropped"}
               PROVE  \E g \in Flows : CanGoOn(g)
    BY DEF NoStandstill
  <2>1. pc[f] \in {"reading", "checking", "generating", "writing", "storing"}
    BY DEF CertInv, CertTypes
  <2>2. CASE \E g \in Flows : pc[g] \in {"checking", "generating", "storing"}
    BY <2>2 DEF CanGoOn
  <2>3. CASE \A g \in Flows : pc[g] \notin {"checking", "generating", "storing"}
    <3>1. readers = {} /\ writer = Nobody
      BY <2>3 DEF CertInv, GuardsHeld
    <3>2. waiters \in Seq(Flows) /\ waiters # <<>>
      <4>1. waiters \in Seq(Flows) /\ \E i \in 1..Len(waiters) : waiters[i] = f
        BY <2>1, <2>3 DEF CertInv, QueueExact
      <4> QED
        BY <4>1, EmptySeq
    <3>3. Head(waiters) \in Flows /\ pc[Head(waiters)] \in {"reading", "writing"}
      <4>1. Head(waiters) = waiters[1] /\ 1 \in 1..Len(waiters)
        BY <3>2, EmptySeq, LenProperties
      <4> QED
        BY <3>2, <4>1, ElementOfSeq DEF CertInv, QueueExact
    <3>4. CanGoOn(Head(waiters))
      BY <3>1, <3>2, <3>3 DEF CanGoOn, First
    <3> QED
      BY <3>3, <3>4
  <2> QED
    BY <2>2, <2>3
<1> QED
  BY <1>1, CertInvariant, PTL

LEMMA CertInitRefines == Init => Certificates!CacheInit
<1>1. 0 \in Times
  BY ClientsAssumption DEF Times
<1> QED
  BY <1>1 DEF Init, Certificates!CacheInit

LEMMA CertStepRefines ==
    CertInv /\ [Next]_vars => [Certificates!CacheNext]_(Certificates!cacheVars)
<1> SUFFICES ASSUME CertInv, [Next]_vars
             PROVE  [Certificates!CacheNext]_(Certificates!cacheVars)
  OBVIOUS
<1>1. /\ clock \in Times
      /\ looked \in [Flows -> Times] /\ generated \in [Flows -> Times]
  BY DEF CertInv, CertTypes
<1>2. ASSUME NEW f \in Flows,
             \/ BeginConnect(f) \/ GrantRead(f) \/ GrantWrite(f)
             \/ GenerateFails(f) \/ ConnectDropped(f)
      PROVE  UNCHANGED Certificates!cacheVars
  BY <1>2 DEF BeginConnect, GrantRead, GrantWrite, GenerateFails, ConnectDropped,
              Certificates!cacheVars
<1>3. ASSUME NEW f \in Flows, CertMiss(f)
      PROVE  Certificates!Wait(f)
  <2>1. cert[f] = Nobody
    BY <1>3, NoCertYet DEF CertMiss, Goto
  <2>2. generated' = [generated EXCEPT ![f] = generated[f]] /\ generated[f] \in Times
    BY <1>1, <1>3 DEF CertMiss
  <2> QED
    BY <1>1, <1>3, <2>1, <2>2 DEF CertMiss, Certificates!Wait
<1>4. ASSUME NEW f \in Flows, GenerateCert(f)
      PROVE  Certificates!Wait(f)
  <2>1. cert[f] = Nobody
    BY <1>4, NoCertYet DEF GenerateCert, Goto
  <2>2. looked' = [looked EXCEPT ![f] = looked[f]] /\ looked[f] \in Times
    BY <1>1, <1>4 DEF GenerateCert
  <2> QED
    BY <1>1, <1>4, <2>1, <2>2 DEF GenerateCert, Certificates!Wait
<1>5. ASSUME NEW f \in Flows, CertHit(f)
      PROVE  \E m \in Flows : Certificates!Reuse(f, m)
  <2>1. cert[f] = Nobody
    BY <1>5, NoCertYet DEF CertHit, Goto
  <2>2. PICK m \in Flows :
          /\ cert_cache[domain[f]].cert = m
          /\ cert[m] = m /\ domain[m] = domain[f]
          /\ clock < generated[m] + cache_duration
    BY <1>5, HitFindsMaker DEF CertHit
  <2>3. /\ cert' = [cert EXCEPT ![f] = m]
        /\ looked' = [looked EXCEPT ![f] = clock]
        /\ UNCHANGED <<domain, generated>>
    BY <1>5, <2>2 DEF CertHit
  <2>4. Certificates!Reuse(f, m)
    BY <1>1, <2>1, <2>2, <2>3 DEF Certificates!Reuse
  <2> QED
    BY <2>4
<1>6. ASSUME NEW f \in Flows, InsertCert(f)
      PROVE  Certificates!GetOwn(f)
  <2>1. cert[f] = Nobody
    BY <1>6, NoCertYet DEF InsertCert, Goto
  <2> QED
    BY <1>6, <2>1 DEF InsertCert, Certificates!GetOwn
<1>7. CASE UNCHANGED <<domain, looked, generated, cert>>
  BY <1>7 DEF Certificates!cacheVars
<1> QED
  BY <1>2, <1>3, <1>4, <1>5, <1>6, <1>7
     DEF Next, Progress, vars, Certificates!CacheNext

\* CONNECTs implement the abstract cache: a session serves its own certificate
\* or one made for the same host that had not outlived cache_duration when it
\* looked, whoever else generates at the same time
\* (https_interceptor.rs:167-180).
THEOREM CertImplementsCache == Spec => ImplementsCache
BY CertInitRefines, CertStepRefines, CertInvariant, PTL
   DEF Spec, ImplementsCache, Certificates!CacheSpec

\* What the abstract cache promises, said of the CONNECTs.
Promise == INSTANCE TimedCacheProofs WITH
    Clients <- Flows, Keys <- Hosts, Lifetime <- cache_duration,
    key <- domain, asked <- looked, born <- generated, got <- cert

\* A session serves its own certificate or one that was generated for the same
\* host by a session that serves it too, less than cache_duration before it
\* looked (https_interceptor.rs:167-180).
CertIsFresh ==
    \A f \in Flows :
        cert[f] # Nobody =>
            /\ cert[f] \in Flows
            /\ domain[cert[f]] = domain[f] /\ cert[cert[f]] = cert[f]
            /\ cert[f] = f \/ looked[f] < generated[cert[f]] + cache_duration

\* No session ever serves a certificate for another host, or one that had
\* outlived cache_duration when it looked (https_interceptor.rs:167-180).
THEOREM CertsAreFresh == Spec => []CertIsFresh
<1>1. ImplementsCache => Promise!CacheSpec
  BY DEF ImplementsCache, Certificates!CacheSpec, Certificates!CacheInit,
         Certificates!CacheNext, Certificates!cacheVars, Certificates!Wait,
         Certificates!GetOwn, Certificates!Reuse,
         Promise!CacheSpec, Promise!CacheInit, Promise!CacheNext,
         Promise!cacheVars, Promise!Wait, Promise!GetOwn, Promise!Reuse
<1>2. Promise!CacheSpec => []Promise!OwnOrFresh
  BY ClientsAssumption, Promise!ValuesAreOwnOrFresh
<1>3. Promise!OwnOrFresh => CertIsFresh
  BY DEF Promise!OwnOrFresh, CertIsFresh
<1> QED
  BY <1>1, <1>2, <1>3, CertImplementsCache, PTL
=============================================================================
