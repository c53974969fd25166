--------------------------- MODULE DnsCacheProofs ---------------------------
(***************************************************************************)
(* Theorems about DnsCache for any number of lookups and hosts, any reading *)
(* of the clock and any CACHE_DURATION.                                     *)
(***************************************************************************)
EXTENDS DnsCache, TLAPS

\* The times a lookup and an entry carry never change once it has answered.
AnsweredIsOver == \A f \in Flows : answer[f] # Nobody => pc[f] = "answered"

\* Answers come from lookups that answered themselves, for the same host.
AnswerIsOwn ==
    \A f \in Flows : answer[f] # Nobody =>
        answer[answer[f]] = answer[f] /\ host[answer[f]] = host[f]

\* The inductive invariant: an entry and an answer lead back to the lookup
\* that made them, which is over.
DnsInv == TypeOK /\ AnsweredIsOver /\ AnswerIsOwn /\ NothingFromTheFuture

-----------------------------------------------------------------------------
\* A hit is on an entry from the past: if the subtraction wrapped around, the
\* result would be larger than CACHE_DURATION, because the clock stays far
\* below the width of a u64.
LEMMA HitIsFresh ==
    ASSUME NEW now \in Times, NEW timestamp \in Times,
           Age(now, timestamp) < CACHE_DURATION
    PROVE  timestamp <= now /\ now < timestamp + CACHE_DURATION
<1>1. /\ MaxTime \in Nat /\ CACHE_DURATION \in Nat /\ Word \in Nat
      /\ Word > MaxTime + CACHE_DURATION
  BY ClientsAssumption, DnsAssumption
<1>2. /\ now \in Nat /\ now <= MaxTime
      /\ timestamp \in Nat /\ timestamp <= MaxTime
  BY <1>1 DEF Times
<1>3. now >= timestamp
  BY <1>1, <1>2 DEF Age
<1> QED
  BY <1>1, <1>2, <1>3 DEF Age

\* What a hit finds: an entry made by a lookup that is over, for the host that
\* is asked for, less than CACHE_DURATION before the clock was read.
LEMMA HitFindsMaker ==
    ASSUME DnsInv, NEW f \in Flows, Hit(f)
    PROVE  \E m \in Flows :
                /\ Cached(f).addrs = m
                /\ answer[m] = m /\ host[m] = host[f]
                /\ current_time[m] <= current_time[f]
                /\ current_time[f] < current_time[m] + CACHE_DURATION
<1>1. host[f] \in Hosts /\ current_time \in [Flows -> Times]
  BY DEF DnsInv, TypeOK
<1>2. Cached(f) # NoEntry
  BY DEF Hit
<1>3. PICK m \in Flows :
        /\ Cached(f) = [addrs |-> m, timestamp |-> current_time[m]]
        /\ host[m] = host[f] /\ answer[m] = m
  BY <1>1, <1>2 DEF DnsInv, TypeOK, Cached
<1>4. Age(current_time[f], current_time[m]) < CACHE_DURATION
  BY <1>3 DEF Hit
<1>5. /\ current_time[m] <= current_time[f]
      /\ current_time[f] < current_time[m] + CACHE_DURATION
  BY <1>1, <1>4, HitIsFresh
<1> QED
  BY <1>3, <1>5

-----------------------------------------------------------------------------
(* The invariant.                                                           *)

LEMMA DnsInvInit == Init => DnsInv
<1> SUFFICES ASSUME Init PROVE DnsInv
  OBVIOUS
<1>1. 0 \in Times
  BY ClientsAssumption DEF Times
<1>2. TypeOK
  BY <1>1 DEF Init, TypeOK, NoEntry
<1>3. AnsweredIsOver /\ AnswerIsOwn /\ NothingFromTheFuture
  BY DEF Init, AnsweredIsOver, AnswerIsOwn, NothingFromTheFuture
<1> QED
  BY <1>2, <1>3 DEF DnsInv

\* A step that leaves answers and entries alone, and the times of lookups that
\* have answered, keeps what is said about them.
LEMMA QuietKeepsInv ==
    ASSUME DnsInv,
           UNCHANGED <<host, answer, DNS_CACHE>>,
           clock' \in Times,
           pc' \in [Flows -> {"idle", "check", "resolve", "answered", "failed",
                              "panicked", "dropped"}],
           current_time' \in [Flows -> Times],
           \A f \in Flows : pc[f] = "answered" =>
                pc'[f] = "answered" /\ current_time'[f] = current_time[f]
    PROVE  DnsInv'
<1>1. \A f \in Flows : answer[f] # Nobody =>
        pc'[f] = "answered" /\ current_time'[f] = current_time[f]
  BY DEF DnsInv, AnsweredIsOver
<1>2. \A f \in Flows : answer[f] \in Flows \cup {Nobody} /\ f # Nobody
  BY ClientsAssumption DEF DnsInv, TypeOK
<1>3. TypeOK'
  <2>1. ASSUME NEW h \in Hosts, DNS_CACHE[h] # NoEntry
        PROVE  \E f \in Flows :
                    /\ DNS_CACHE[h] = [addrs |-> f, timestamp |-> current_time'[f]]
                    /\ host[f] = h /\ answer[f] = f
    <3>1. PICK f \in Flows :
            /\ DNS_CACHE[h] = [addrs |-> f, timestamp |-> current_time[f]]
            /\ host[f] = h /\ answer[f] = f
      BY <2>1 DEF DnsInv, TypeOK
    <3> QED
      BY <1>1, <1>2, <3>1
  <2> QED
    BY <2>1 DEF DnsInv, TypeOK, NoEntry
<1>4. AnsweredIsOver'
  BY <1>1 DEF AnsweredIsOver
<1>5. AnswerIsOwn'
  BY DEF DnsInv, AnswerIsOwn
<1>6. NothingFromTheFuture'
  <2> SUFFICES ASSUME NEW f \in Flows, answer[f] \notin {Nobody, f}
               PROVE  current_time'[answer[f]] <= current_time'[f]
    BY DEF NothingFromTheFuture
  <2>1. answer[f] \in Flows /\ answer[answer[f]] # Nobody
    BY <1>2 DEF DnsInv, AnswerIsOwn
  <2>2. current_time[answer[f]] <= current_time[f]
    BY DEF DnsInv, NothingFromTheFuture
  <2> QED
    BY <1>1, <2>1, <2>2
<1> QED
  BY <1>3, <1>4, <1>5, <1>6 DEF DnsInv

\* A lookup takes a value: its own, or that of an entry it may reuse.
LEMMA AnswerKeepsInv ==
    ASSUME DnsInv, NEW f \in Flows, NEW m \in Flows,
           answer[f] = Nobody,
           UNCHANGED <<clock, host, current_time>>,
           pc' = [pc EXCEPT ![f] = "answered"],
           answer' = [answer EXCEPT ![f] = m],
           \/ m = f
           \/ /\ answer[m] = m /\ host[m] = host[f]
              /\ current_time[m] <= current_time[f],
           \/ UNCHANGED DNS_CACHE
           \/ /\ m = f
              /\ DNS_CACHE' = [DNS_CACHE EXCEPT ![host[f]] =
                                    [addrs |-> f, timestamp |-> current_time[f]]]
    PROVE  DnsInv'
<1>1. /\ f # Nobody /\ m # Nobody
      /\ answer \in [Flows -> Flows \cup {Nobody}] /\ host \in [Flows -> Hosts]
      /\ current_time \in [Flows -> Times]
      /\ DNS_CACHE \in [Hosts -> [addrs : Flows \cup {Nobody}, timestamp : Times]]
  BY ClientsAssumption DEF DnsInv, TypeOK
<1>2. answer'[f] = m /\ \A g \in Flows \ {f} : answer'[g] = answer[g]
  BY <1>1
<1>3. answer'[m] = m /\ host[m] = host[f]
  BY <1>2
<1>4. TypeOK'
  <2>1. ASSUME NEW h \in Hosts, DNS_CACHE'[h] # NoEntry
        PROVE  \E g \in Flows :
                    /\ DNS_CACHE'[h] = [addrs |-> g, timestamp |-> current_time[g]]
                    /\ host[g] = h /\ answer'[g] = g
    <3>1. CASE DNS_CACHE'[h] = DNS_CACHE[h]
      <4>1. PICK g \in Flows :
              /\ DNS_CACHE[h] = [addrs |-> g, timestamp |-> current_time[g]]
              /\ host[g] = h /\ answer[g] = g
        BY <2>1, <3>1 DEF DnsInv, TypeOK
      <4>2. g # f
        BY <1>1, <4>1
      <4> QED
        BY <1>2, <3>1, <4>1, <4>2
    <3>2. CASE DNS_CACHE'[h] # DNS_CACHE[h]
      <4>1. h = host[f] /\ m = f
            /\ DNS_CACHE'[h] = [addrs |-> f, timestamp |-> current_time[f]]
        BY <1>1, <3>2
      <4> QED
        BY <1>2, <4>1
    <3> QED
      BY <3>1, <3>2
  <2>2. DNS_CACHE' \in [Hosts -> [addrs : Flows \cup {Nobody}, timestamp : Times]]
    BY <1>1
  <2>3. /\ clock' \in Times /\ host' \in [Flows -> Hosts]
        /\ current_time' \in [Flows -> Times]
        /\ answer' \in [Flows -> Flows \cup {Nobody}]
        /\ pc' \in [Flows -> {"idle", "check", "resolve", "answered", "failed",
                              "panicked", "dropped"}]
    BY <1>1 DEF DnsInv, TypeOK
  <2> QED
    BY <2>1, <2>2, <2>3 DEF TypeOK, NoEntry
<1>5. AnsweredIsOver'
  BY <1>1, <1>2 DEF DnsInv, AnsweredIsOver, TypeOK
<1>6. AnswerIsOwn'
  <2> SUFFICES ASSUME NEW g \in Flows, answer'[g] # Nobody
               PROVE  answer'[answer'[g]] = answer'[g] /\ host[answer'[g]] = host[g]
    BY DEF AnswerIsOwn
  <2>1. CASE g = f
    BY <1>2, <1>3, <2>1
  <2>2. CASE g # f
    <3>1. answer[g] # Nobody /\ answer'[g] = answer[g]
      BY <1>2, <2>2
    <3>2. answer[answer[g]] = answer[g] /\ host[answer[g]] = host[g]
      BY <3>1 DEF DnsInv, AnswerIsOwn
    <3>3. answer[g] \in Flows /\ answer[g] # f
      BY <1>1, <3>1, <3>2
    <3> QED
      BY <1>2, <3>1, <3>2, <3>3
  <2> QED
    BY <2>1, <2>2
<1>7. NothingFromTheFuture'
  <2> SUFFICES ASSUME NEW g \in Flows, answer'[g] \notin {Nobody, g}
               PROVE  current_time[answer'[g]] <= current_time[g]
    BY DEF NothingFromTheFuture
  <2>1. CASE g = f
    BY <1>2, <2>1
  <2>2. CASE g # f
    BY <1>2, <2>2 DEF DnsInv, NothingFromTheFuture
  <2> QED
    BY <2>1, <2>2
<1> QED
  BY <1>4, <1>5, <1>6, <1>7 DEF DnsInv

\* A lookup that stands before its answer has none.
LEMMA NoAnswerYet ==
    ASSUME DnsInv, NEW f \in Flows, pc[f] # "answered"
    PROVE  answer[f] = Nobody
BY DEF DnsInv, AnsweredIsOver

LEMMA DnsInvNext == DnsInv /\ [Next]_vars => DnsInv'
<1> SUFFICES ASSUME DnsInv, [Next]_vars PROVE DnsInv'
  OBVIOUS
<1>1. /\ clock \in Times /\ current_time \in [Flows -> Times]
      /\ pc \in [Flows -> {"idle", "check", "resolve", "answered", "failed",
                           "panicked", "dropped"}]
  BY DEF DnsInv, TypeOK
<1>2. ASSUME NEW f \in Flows, BeginLookup(f)
      PROVE  DnsInv'
  BY <1>1, <1>2, QuietKeepsInv DEF BeginLookup, Goto
<1>3. ASSUME NEW f \in Flows, CacheHit(f)
      PROVE  DnsInv'
  <2>1. answer[f] = Nobody /\ pc' = [pc EXCEPT ![f] = "answered"]
    BY <1>3, NoAnswerYet DEF CacheHit, Goto
  <2>2. PICK m \in Flows :
          /\ Cached(f).addrs = m
          /\ answer[m] = m /\ host[m] = host[f]
          /\ current_time[m] <= current_time[f]
    BY <1>3, HitFindsMaker DEF CacheHit
  <2>3. /\ answer' = [answer EXCEPT ![f] = m]
        /\ UNCHANGED <<clock, host, current_time>> /\ UNCHANGED DNS_CACHE
    BY <1>3, <2>2 DEF CacheHit
  <2> QED
    BY <2>1, <2>2, <2>3, AnswerKeepsInv
<1>4. ASSUME NEW f \in Flows, CacheMiss(f)
      PROVE  DnsInv'
  BY <1>1, <1>4, QuietKeepsInv DEF CacheMiss, Goto
<1>5. ASSUME NEW f \in Flows, Underflow(f)
      PROVE  DnsInv'
  BY <1>1, <1>5, QuietKeepsInv DEF Underflow, Goto
<1>6. ASSUME NEW f \in Flows, Resolved(f)
      PROVE  DnsInv'
  <2>1. answer[f] = Nobody /\ pc' = [pc EXCEPT ![f] = "answered"]
    BY <1>6, NoAnswerYet DEF Resolved, Goto
  <2>2. /\ answer' = [answer EXCEPT ![f] = f]
        /\ DNS_CACHE' = [DNS_CACHE EXCEPT ![host[f]] =
                            [addrs |-> f, timestamp |-> current_time[f]]]
        /\ UNCHANGED <<clock, host, current_time>>
    BY <1>6 DEF Resolved
  <2> QED
    BY <2>1, <2>2, AnswerKeepsInv
<1>7. ASSUME NEW f \in Flows, ResolveFails(f)
      PROVE  DnsInv'
  BY <1>1, <1>7, QuietKeepsInv DEF ResolveFails, Goto
<1>8. ASSUME NEW f \in Flows, LookupDropped(f)
      PROVE  DnsInv'
  BY <1>1, <1>8, QuietKeepsInv DEF LookupDropped, Goto
<1>9. CASE SetClock /\ UNCHANGED <<pc, host, current_time, answer, DNS_CACHE>>
  BY <1>1, <1>9, QuietKeepsInv DEF SetClock
<1>10. CASE UNCHANGED vars
  BY <1>1, <1>10, QuietKeepsInv DEF vars
<1> QED
  BY <1>2, <1>3, <1>4, <1>5, <1>6, <1>7, <1>8, <1>9, <1>10 DEF Next, Progress

\* The invariant holds for every instance.
THEOREM DnsInvariant == Spec => []DnsInv
BY DnsInvInit, DnsInvNext, PTL DEF Spec

\* Types, and every entry leads back to the lookup that made and returned it.
THEOREM DnsTypeCorrect == Spec => []TypeOK
<1>1. DnsInv => TypeOK
  BY DEF DnsInv
<1> QED
  BY <1>1, DnsInvariant, PTL

\* No lookup is answered from an entry that was made after it read the clock,
\* whatever the clock does and whichever way the subtraction is compiled
\* (http_interceptor.rs:47-63).
THEOREM NoAnswerFromTheFuture == Spec => []NothingFromTheFuture
<1>1. DnsInv => NothingFromTheFuture
  BY DEF DnsInv
<1> QED
  BY <1>1, DnsInvariant, PTL

-----------------------------------------------------------------------------
(* The refinement.                                                          *)

LEMMA DnsInitRefines == Init => Answers!CacheInit
<1>1. 0 \in Times
  BY ClientsAssumption DEF Times
<1> QED
  BY <1>1 DEF Init, Answers!CacheInit

LEMMA DnsStepRefines ==
    DnsInv /\ [Next]_vars => [Answers!CacheNext]_(Answers!cacheVars)
<1> SUFFICES ASSUME DnsInv, [Next]_vars
             PROVE  [Answers!CacheNext]_(Answers!cacheVars)
  OBVIOUS
<1>1. clock \in Times /\ current_time \in [Flows -> Times]
  BY DEF DnsInv, TypeOK
<1>2. ASSUME NEW f \in Flows, BeginLookup(f)
      PROVE  Answers!Wait(f)
  <2>1. answer[f] = Nobody
    BY <1>2, NoAnswerYet DEF BeginLookup, Goto
  <2> QED
    BY <1>1, <1>2, <2>1 DEF BeginLookup, Answers!Wait
<1>3. ASSUME NEW f \in Flows, CacheHit(f)
      PROVE  \E m \in Flows : Answers!Reuse(f, m)
  <2>1. answer[f] = Nobody
    BY <1>3, NoAnswerYet DEF CacheHit, Goto
  <2>2. PICK m \in Flows :
          /\ Cached(f).addrs = m
          /\ answer[m] = m /\ host[m] = host[f]
          /\ current_time[f] < current_time[m] + CACHE_DURATION
    BY <1>3, HitFindsMaker DEF CacheHit
  <2>3. current_time' = [current_time EXCEPT ![f] = current_time[f]]
    BY <1>1, <1>3 DEF CacheHit
  <2>4. current_time[f] \in Times
    BY <1>1
  <2>5. /\ answer' = [answer EXCEPT ![f] = m]
        /\ UNCHANGED <<host, current_time>>
    BY <1>3, <2>2 DEF CacheHit
  <2>6. Answers!Reuse(f, m)
    BY <2>1, <2>2, <2>3, <2>4, <2>5 DEF Answers!Reuse
  <2> QED
    BY <2>6
<1>4. ASSUME NEW f \in Flows, Resolved(f)
      PROVE  Answers!GetOwn(f)
  <2>1. answer[f] = Nobody
    BY <1>4, NoAnswerYet DEF Resolved, Goto
  <2> QED
    BY <1>4, <2>1 DEF Resolved, Answers!GetOwn
<1>5. ASSUME NEW f \in Flows,
             CacheMiss(f) \/ Underflow(f) \/ ResolveFails(f) \/ LookupDropped(f)
      PROVE  UNCHANGED Answers!cacheVars
  BY <1>5 DEF CacheMiss, Underflow, ResolveFails, LookupDropped, Answers!cacheVars
<1>6. CASE SetClock /\ UNCHANGED <<pc, host, current_time, answer, DNS_CACHE>>
  BY <1>6 DEF Answers!cacheVars
<1>7. CASE UNCHANGED vars
  BY <1>7 DEF vars, Answers!cacheVars
<1> QED
  BY <1>2, <1>3, <1>4, <1>5, <1>6, <1>7 DEF Next, Progress, Answers!CacheNext

\* Lookups implement the abstract cache: every answer is the lookup's own or
\* was made for the same host less than CACHE_DURATION before it asked
\* (http_interceptor.rs:45-93).
THEOREM DnsImplementsCache == Spec => ImplementsCache
BY DnsInitRefines, DnsStepRefines, DnsInvariant, PTL
   DEF Spec, ImplementsCache, Answers!CacheSpec

\* What the abstract cache promises, said of the lookups.
Promise == INSTANCE TimedCacheProofs WITH
    Clients <- Flows, Keys <- Hosts, Lifetime <- CACHE_DURATION,
    key <- host, asked <- current_time, born <- current_time, got <- answer

\* A lookup is answered by itself or by a lookup for the same host, answered by
\* itself, that began less than CACHE_DURATION before it
\* (http_interceptor.rs:45-93).
AnswerIsFresh ==
    \A f \in Flows :
        answer[f] # Nobody =>
            /\ answer[f] \in Flows
            /\ host[answer[f]] = host[f] /\ answer[answer[f]] = answer[f]
            /\ answer[f] = f \/ current_time[f] < current_time[answer[f]] + CACHE_DURATION

\* No lookup is ever left with an answer that had outlived CACHE_DURATION when
\* it asked, or with one for another host (http_interceptor.rs:45-93).
THEOREM AnswersAreFresh == Spec => []AnswerIsFresh
<1>1. ImplementsCache => Promise!CacheSpec
  BY DEF ImplementsCache, Answers!CacheSpec, Answers!CacheInit, Answers!CacheNext,
         Answers!cacheVars, Answers!Wait, Answers!GetOwn, Answers!Reuse,
         Promise!CacheSpec, Promise!CacheInit, Promise!CacheNext,
         Promise!cacheVars, Promise!Wait, Promise!GetOwn, Promise!Reuse
<1>2. Promise!CacheSpec => []Promise!OwnOrFresh
  BY ClientsAssumption, Promise!ValuesAreOwnOrFresh
<1>3. Promise!OwnOrFresh => AnswerIsFresh
  BY DEF Promise!OwnOrFresh, AnswerIsFresh
<1> QED
  BY <1>1, <1>2, <1>3, DnsImplementsCache, PTL
=============================================================================
