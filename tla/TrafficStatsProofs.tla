------------------------- MODULE TrafficStatsProofs -------------------------
(***************************************************************************)
(* Theorems about TrafficStats for any number of callers, any traffic and   *)
(* any width of the counters: the handlers interleave with the ten atomic   *)
(* operations of the sampling task in every way.                            *)
(***************************************************************************)
EXTENDS TrafficStats, FiniteSetTheorems, TLAPS

\* Callers that have counted themselves, and those still open.
Entered == {c \in Callers : pc[c] # "idle"}
Open    == {c \in Callers : pc[c] \in {"current", "active"}}

\* total_requests and current_requests say exactly how many there are, so that
\* no fetch_sub finds a zero.
RequestsCounted ==
    /\ stats["total_requests"] = Cardinality(Entered)
    /\ stats["current_requests"] = Cardinality(Open)

\* What the sampler is about to publish or to forget is still in the counter.
QpsHeld ==
    stage \in {"store_qps", "reset_qps"} => qps <= stats["requests_this_second"]

\* The stages at which the speed of a direction is published and its peak not
\* raised yet.
Unraised(d) ==
    stage = "peak_in" \/ stage = IF d = "Upstream" THEN "peak_out" ELSE "speed_out"

\* A gauge above its peak is what the sampler will raise the peak to.
PeaksCover ==
    /\ \A d \in DataDirection :
        IF Unraised(d) THEN stats[SpeedOf(d)] = Speed(d)
                       ELSE stats[SpeedOf(d)] <= stats[PeakOf(d)]
    /\ IF stage \in {"reset_qps", "peak_qps"}
       THEN stats["last_qps"] = qps
       ELSE stats["last_qps"] <= stats["max_qps"]

\* The inductive invariant.
StatsInv ==
    /\ TypeOK
    /\ RequestsCounted
    /\ SpeedsAddUp
    /\ QpsHeld
    /\ NoRequestCountedTwice
    /\ PeaksCover

-----------------------------------------------------------------------------
(* The counters.                                                            *)

\* The names a direction maps to are counters, and no two of them the same.
LEMMA Names ==
    /\ \A d \in DataDirection :
        /\ CounterOf(d) \in {"bytes_in", "bytes_out"}
        /\ SpeedOf(d) \in {"current_speed_in", "current_speed_out"}
        /\ PeakOf(d) \in {"max_speed_in", "max_speed_out"}
    /\ \A d, e \in DataDirection : d # e =>
        /\ CounterOf(d) # CounterOf(e)
        /\ SpeedOf(d) # SpeedOf(e)
        /\ PeakOf(d) # PeakOf(e)
BY DEF DataDirection, CounterOf, SpeedOf, PeakOf

\* A speed is what the counter has gained since the round before.
LEMMA SpeedIsGain ==
    ASSUME TypeOK, NEW d \in DataDirection
    PROVE  /\ Speed(d) \in Nat
           /\ last[d] <= current[d] => Speed(d) = current[d] - last[d]
BY DEF TypeOK, Speed, SaturatingSub

\* One handler changes one counter: which one, and by how much.
LEMMA HandlerEffect ==
    ASSUME StatsInv, NEW c \in Callers
    PROVE  /\ \A from, to, counter :
                Call(c, from, to, counter) /\ counter \in Counters =>
                    /\ pc[c] = from /\ pc' = [pc EXCEPT ![c] = to]
                    /\ stats' = [stats EXCEPT ![counter] = stats[counter] + 1]
                    /\ UNCHANGED <<stage, locals, published, counted>>
           /\ HandleConnectClose(c) /\ stats["current_requests"] >= 1 =>
                stats' = [stats EXCEPT !["current_requests"] = stats["current_requests"] - 1]
           /\ \A d \in DataDirection, n \in Nat :
                HandleData(c, d, n) =>
                    stats' = [stats EXCEPT ![CounterOf(d)] = stats[CounterOf(d)] + n]
BY DEF Call, HandleConnectClose, HandleData, FetchAdd, CountClose, FetchSub, CountData

-----------------------------------------------------------------------------
(* The requests counted.                                                    *)

\* The sets of callers the counters stand for are finite.
LEMMA CallerSets ==
    /\ IsFiniteSet(Entered) /\ Cardinality(Entered) \in Nat
    /\ IsFiniteSet(Open) /\ Cardinality(Open) \in Nat
    /\ IsFiniteSet(Arrived) /\ Cardinality(Arrived) \in Nat
<1>1. Entered \subseteq Callers /\ Open \subseteq Callers /\ Arrived \subseteq Callers
  BY DEF Entered, Open, Arrived
<1> QED
  BY <1>1, TrafficAssumption, FS_Subset, FS_CardinalityType

\* No more requests are open than have been counted.
LEMMA OpenHaveEntered == RequestsCounted =>
    stats["current_requests"] <= stats["total_requests"]
<1>1. Open \subseteq Entered
  BY DEF Open, Entered
<1> QED
  BY <1>1, CallerSets, FS_Subset DEF RequestsCounted

\* The sampling task touches neither the callers nor their two counters.
LEMMA SamplerQuiet ==
    ASSUME TypeOK, Sampler
    PROVE  /\ pc' = pc
           /\ stats'["total_requests"] = stats["total_requests"]
           /\ stats'["current_requests"] = stats["current_requests"]
           /\ \A d \in DataDirection : Bytes(d)' = Bytes(d)
<1>1. stats \in [Counters -> Nat]
  BY DEF TypeOK
<1> QED
  BY <1>1, Names
     DEF Sampler, LoadBytes, StoreSpeed, RaisePeak, LoadQps, StoreQps, ResetQps, EndRound,
         Store, Bytes, Counters

\* Every fetch_add and fetch_sub keeps the two counters exact.
LEMMA RequestsNext == StatsInv /\ [Next]_vars => RequestsCounted'
<1> SUFFICES ASSUME StatsInv, [Next]_vars PROVE RequestsCounted'
  OBVIOUS
<1>1. /\ stats \in [Counters -> Nat] /\ RequestsCounted /\ TypeOK
      /\ pc \in [Callers -> {"idle", "total", "current", "active", "closed"}]
  BY DEF StatsInv, TypeOK
<1>2. {"total_requests", "current_requests", "requests_this_second"} \subseteq Counters
  BY DEF Counters
<1>3. ASSUME NEW c \in Callers, AddTotal(c)
      PROVE  RequestsCounted'
  <2>1. /\ pc[c] = "idle" /\ pc' = [pc EXCEPT ![c] = "total"]
        /\ stats' = [stats EXCEPT !["total_requests"] = stats["total_requests"] + 1]
    BY <1>2, <1>3, HandlerEffect DEF AddTotal
  <2>2. Entered' = Entered \cup {c} /\ c \notin Entered /\ Open' = Open
    BY <1>1, <2>1 DEF Entered, Open
  <2>3. Cardinality(Entered') = Cardinality(Entered) + 1
    BY <2>2, CallerSets, FS_AddElement
  <2> QED
    BY <1>1, <1>2, <2>1, <2>2, <2>3 DEF RequestsCounted
<1>4. ASSUME NEW c \in Callers, AddCurrent(c)
      PROVE  RequestsCounted'
  <2>1. /\ pc[c] = "total" /\ pc' = [pc EXCEPT ![c] = "current"]
        /\ stats' = [stats EXCEPT !["current_requests"] = stats["current_requests"] + 1]
    BY <1>2, <1>4, HandlerEffect DEF AddCurrent
  <2>2. Open' = Open \cup {c} /\ c \notin Open /\ Entered' = Entered
    BY <1>1, <2>1 DEF Entered, Open
  <2>3. Cardinality(Open') = Cardinality(Open) + 1
    BY <2>2, CallerSets, FS_AddElement
  <2> QED
    BY <1>1, <1>2, <2>1, <2>2, <2>3 DEF RequestsCounted
<1>5. ASSUME NEW c \in Callers, AddSecond(c)
      PROVE  RequestsCounted'
  <2>1. /\ pc[c] = "current" /\ pc' = [pc EXCEPT ![c] = "active"]
        /\ stats' = [stats EXCEPT !["requests_this_second"]
                                      = stats["requests_this_second"] + 1]
    BY <1>2, <1>5, HandlerEffect DEF AddSecond
  <2>2. Open' = Open /\ Entered' = Entered
    BY <1>1, <2>1 DEF Entered, Open
  <2> QED
    BY <1>1, <1>2, <2>1, <2>2 DEF RequestsCounted
<1>6. ASSUME NEW c \in Callers, NEW d \in DataDirection, NEW n \in 1..MaxChunk,
             HandleData(c, d, n)
      PROVE  RequestsCounted'
  <2>1. /\ pc' = pc
        /\ stats' = [stats EXCEPT ![CounterOf(d)] = stats[CounterOf(d)] + n]
    BY <1>6, HandlerEffect DEF HandleData
  <2>2. Open' = Open /\ Entered' = Entered
    BY <2>1 DEF Entered, Open
  <2> QED
    BY <1>1, <1>2, <2>1, <2>2, Names DEF RequestsCounted
<1>7. ASSUME NEW c \in Callers, HandleConnectClose(c)
      PROVE  RequestsCounted'
  <2>1. pc[c] = "active" /\ pc' = [pc EXCEPT ![c] = "closed"]
    BY <1>7 DEF HandleConnectClose
  <2>2. Open' = Open \ {c} /\ c \in Open /\ Entered' = Entered
    BY <1>1, <2>1 DEF Entered, Open
  <2>3. Cardinality(Open') = Cardinality(Open) - 1 /\ Cardinality(Open) # 0
    BY <2>2, CallerSets, FS_RemoveElement, FS_EmptySet
  <2>4. stats["current_requests"] >= 1
    BY <1>1, <2>3, CallerSets DEF RequestsCounted
  <2>5. stats' = [stats EXCEPT !["current_requests"] = stats["current_requests"] - 1]
    BY <1>7, <2>4, HandlerEffect
  <2> QED
    BY <1>1, <1>2, <2>2, <2>3, <2>5 DEF RequestsCounted
<1>8. CASE Sampler
  BY <1>1, <1>8, SamplerQuiet DEF RequestsCounted, Open, Entered
<1>9. CASE UNCHANGED vars
  BY <1>1, <1>9 DEF vars, RequestsCounted, Open, Entered
<1> QED
  BY <1>3, <1>4, <1>5, <1>6, <1>7, <1>8, <1>9 DEF Next, Handler

-----------------------------------------------------------------------------
(* Types.                                                                   *)

\* The counters stay natural numbers, whatever is added, stored or wrapped.
LEMMA StatsTypes ==
    ASSUME TypeOK
    PROVE  /\ \A c \in Counters, n \in Nat : [stats EXCEPT ![c] = n] \in [Counters -> Nat]
           /\ CountClose(stats) \in [Counters -> Nat]
<1>1. stats \in [Counters -> Nat] /\ "current_requests" \in Counters
  BY DEF TypeOK, Counters
<1>2. IF stats["current_requests"] >= 1 THEN stats["current_requests"] - 1 \in Nat
      ELSE stats["current_requests"] + Word - 1 \in Nat
  BY <1>1, WordAssumption
<1> QED
  BY <1>1, <1>2 DEF CountClose, FetchSub

\* Every step keeps the types.
LEMMA TypesNext == StatsInv /\ [Next]_vars => TypeOK'
<1> SUFFICES ASSUME StatsInv, [Next]_vars PROVE TypeOK'
  OBVIOUS
<1>1. TypeOK /\ stats \in [Counters -> Nat]
  BY DEF StatsInv, TypeOK
<1>2. (stats["current_requests"] <= stats["total_requests"])'
  <2>1. (RequestsCounted => stats["current_requests"] <= stats["total_requests"])'
    BY OpenHaveEntered, PTL
  <2> QED
    BY <2>1, RequestsNext
<1>3. \A d \in DataDirection : {CounterOf(d), SpeedOf(d), PeakOf(d)} \subseteq Counters
  BY Names DEF Counters
<1>4. {"total_requests", "current_requests", "requests_this_second", "last_qps", "max_qps"}
          \subseteq Counters
  BY DEF Counters
<1>5. ASSUME NEW c \in Callers, AddTotal(c) \/ AddCurrent(c) \/ AddSecond(c)
      PROVE  TypeOK'
  <2>1. stats' \in [Counters -> Nat]
    BY <1>1, <1>4, <1>5 DEF AddTotal, AddCurrent, AddSecond, Call, FetchAdd
  <2>2. /\ pc' \in [Callers -> {"idle", "total", "current", "active", "closed"}]
        /\ UNCHANGED <<stage, current, last, qps, published, counted>>
    BY <1>1, <1>5 DEF AddTotal, AddCurrent, AddSecond, Call, locals, TypeOK
  <2> QED
    BY <1>1, <1>2, <2>1, <2>2 DEF TypeOK
<1>6. ASSUME NEW c \in Callers, NEW d \in DataDirection, NEW n \in 1..MaxChunk,
             HandleData(c, d, n)
      PROVE  TypeOK'
  <2>1. stats' \in [Counters -> Nat]
    BY <1>1, <1>3, <1>6 DEF HandleData, CountData, FetchAdd
  <2> QED
    BY <1>1, <1>2, <1>6, <2>1 DEF HandleData, locals, TypeOK
<1>7. ASSUME NEW c \in Callers, HandleConnectClose(c)
      PROVE  TypeOK'
  <2>1. stats' \in [Counters -> Nat]
    BY <1>1, <1>7, StatsTypes DEF HandleConnectClose
  <2> QED
    BY <1>1, <1>2, <1>7, <2>1 DEF HandleConnectClose, locals, TypeOK
<1>8. ASSUME NEW d \in DataDirection, LoadBytes(d)
      PROVE  TypeOK'
  <2>1. Bytes(d) \in Nat
    BY <1>1, <1>3 DEF Bytes
  <2> QED
    BY <1>1, <1>2, <1>8, <2>1 DEF LoadBytes, Sample, Stages, locals, TypeOK
<1>9. ASSUME NEW d \in DataDirection, StoreSpeed(d)
      PROVE  TypeOK'
  <2>1. Speed(d) \in Nat /\ published[d] + Speed(d) \in Nat
    BY <1>1, SpeedIsGain DEF TypeOK
  <2>2. stats' \in [Counters -> Nat]
    BY <1>1, <1>3, <1>9, <2>1, StatsTypes DEF StoreSpeed, Store
  <2> QED
    BY <1>1, <1>2, <1>9, <2>1, <2>2 DEF StoreSpeed, Sample, Stages, locals, TypeOK
<1>10. ASSUME NEW d \in DataDirection, RaisePeak(d)
       PROVE  TypeOK'
  <2>1. stats' \in [Counters -> Nat]
    BY <1>1, <1>3, <1>10, SpeedIsGain, StatsTypes DEF RaisePeak, Store
  <2> QED
    BY <1>1, <1>2, <1>10, <2>1 DEF RaisePeak, Sample, Stages, locals, TypeOK
<1>11. CASE LoadQps \/ StoreQps \/ ResetQps \/ EndRound
  <2>1. stats' \in [Counters -> Nat]
    BY <1>1, <1>4, <1>11, StatsTypes DEF LoadQps, StoreQps, ResetQps, EndRound, Store, TypeOK
  <2>2. stats["requests_this_second"] \in Nat
    BY <1>1, <1>4
  <2> QED
    BY <1>1, <1>2, <1>11, <2>1, <2>2
       DEF LoadQps, StoreQps, ResetQps, EndRound, Sample, Stages, locals, TypeOK
<1>12. CASE UNCHANGED vars
  BY <1>1, <1>12 DEF vars, locals, TypeOK
<1> QED
  BY <1>5, <1>6, <1>7, <1>8, <1>9, <1>10, <1>11, <1>12 DEF Next, Handler, Sampler

-----------------------------------------------------------------------------
(* The speeds.                                                              *)

\* Handlers leave the sampling task alone and never take bytes back.
LEMMA HandlerQuiet ==
    ASSUME TypeOK, NEW c \in Callers, Handler(c)
    PROVE  /\ UNCHANGED <<stage, locals, published, counted>>
           /\ \A d \in DataDirection : Bytes(d) <= Bytes(d)'
           /\ \A k \in {"current_speed_in", "current_speed_out", "max_speed_in",
                        "max_speed_out", "last_qps", "max_qps"} : stats'[k] = stats[k]
           /\ stats["requests_this_second"] <= stats'["requests_this_second"]
<1>1. stats \in [Counters -> Nat]
  BY DEF TypeOK
<1>2. CASE AddTotal(c) \/ AddCurrent(c) \/ AddSecond(c) \/ HandleConnectClose(c)
  BY <1>1, <1>2, Names
     DEF AddTotal, AddCurrent, AddSecond, Call, FetchAdd, HandleConnectClose, CountClose,
         FetchSub, Bytes, Counters
<1>3. ASSUME NEW d \in DataDirection, NEW n \in 1..MaxChunk, HandleData(c, d, n)
      PROVE  /\ UNCHANGED <<stage, locals, published, counted>>
             /\ \A e \in DataDirection : Bytes(e) <= Bytes(e)'
             /\ \A k \in Counters \ {CounterOf(d)} : stats'[k] = stats[k]
  BY <1>1, <1>3, Names DEF HandleData, CountData, FetchAdd, Bytes, Counters
<1> QED
  BY <1>1, <1>2, <1>3, Names DEF Handler, Counters

\* Every step keeps the sum of the published speeds.
LEMMA SpeedsNext == StatsInv /\ [Next]_vars => SpeedsAddUp'
<1> SUFFICES ASSUME StatsInv, [Next]_vars PROVE SpeedsAddUp'
  OBVIOUS
<1>1. TypeOK /\ SpeedsAddUp
  BY DEF StatsInv
<1>2. /\ \A d \in DataDirection : Bytes(d) \in Nat
      /\ current \in [DataDirection -> Nat] /\ last \in [DataDirection -> Nat]
      /\ published \in [DataDirection -> Nat]
  BY <1>1, Names DEF TypeOK, Bytes, Counters
<1>3. ASSUME NEW c \in Callers, Handler(c)
      PROVE  SpeedsAddUp'
  <2>1. \A d \in DataDirection : Bytes(d)' \in Nat
    BY <1>1, TypesNext, Names DEF TypeOK, Bytes, Counters
  <2> QED
    BY <1>1, <1>2, <1>3, <2>1, HandlerQuiet DEF SpeedsAddUp, Published, locals
<1>4. ASSUME NEW d \in DataDirection, LoadBytes(d)
      PROVE  SpeedsAddUp'
  <2>1. \A e \in DataDirection : ~Published(e) /\ ~Published(e)'
    BY <1>4 DEF LoadBytes, Sample, Published, DataDirection
  <2>2. \A e \in DataDirection : Bytes(e)' = Bytes(e)
    BY <1>4 DEF LoadBytes, Bytes
  <2>3. /\ UNCHANGED <<last, published>>
        /\ \A e \in DataDirection : current'[e] = IF e = d THEN Bytes(d) ELSE current[e]
    BY <1>2, <1>4 DEF LoadBytes
  <2>4. ASSUME NEW e \in DataDirection
        PROVE  published[e] = last[e] /\ last[e] <= current[e] /\ current[e] <= Bytes(e)
    BY <1>1, <2>1 DEF SpeedsAddUp
  <2> QED
    BY <1>2, <2>1, <2>2, <2>3, <2>4 DEF SpeedsAddUp
<1>5. ASSUME NEW d \in DataDirection, StoreSpeed(d)
      PROVE  SpeedsAddUp'
  <2>1. /\ ~Published(d) /\ Published(d)'
        /\ \A e \in DataDirection \ {d} : Published(e)' = Published(e)
    BY <1>5 DEF StoreSpeed, Sample, Published, DataDirection
  <2>2. \A e \in DataDirection : Bytes(e)' = Bytes(e)
    BY <1>1, <1>5, SamplerQuiet DEF Sampler
  <2>3. /\ UNCHANGED <<current, last>>
        /\ published'[d] = published[d] + (current[d] - last[d])
        /\ \A e \in DataDirection \ {d} : published'[e] = published[e]
    BY <1>1, <1>2, <1>5, SpeedIsGain DEF StoreSpeed, locals, SpeedsAddUp
  <2>4. published[d] = last[d] /\ published'[d] = current'[d]
    BY <1>1, <1>2, <2>1, <2>3 DEF SpeedsAddUp
  <2>5. \A e \in DataDirection \ {d} :
            published'[e] = IF Published(e)' THEN current'[e] ELSE last'[e]
    BY <1>1, <2>1, <2>3 DEF SpeedsAddUp
  <2> QED
    BY <1>1, <2>1, <2>2, <2>3, <2>4, <2>5 DEF SpeedsAddUp
<1>6. CASE EndRound
  <2>1. /\ \A e \in DataDirection : Published(e) /\ ~Published(e)'
        /\ last' = current /\ current' = current /\ published' = published
    BY <1>6 DEF EndRound, Sample, Published
  <2>2. \A e \in DataDirection : Bytes(e)' = Bytes(e)
    BY <1>1, <1>6, SamplerQuiet DEF Sampler
  <2> QED
    BY <1>1, <1>2, <2>1, <2>2 DEF SpeedsAddUp
<1>7. CASE (\E d \in DataDirection : RaisePeak(d)) \/ LoadQps \/ StoreQps \/ ResetQps
  <2>1. /\ \A e \in DataDirection : Published(e) /\ Published(e)'
        /\ UNCHANGED <<last, current, published>>
    BY <1>7 DEF RaisePeak, LoadQps, StoreQps, ResetQps, Sample, Published, locals
  <2>2. \A e \in DataDirection : Bytes(e)' = Bytes(e)
    BY <1>1, <1>7, SamplerQuiet DEF Sampler
  <2> QED
    BY <1>1, <2>1, <2>2 DEF SpeedsAddUp
<1>8. CASE UNCHANGED vars
  BY <1>1, <1>8 DEF vars, locals, SpeedsAddUp, Published, Bytes
<1> QED
  BY <1>3, <1>4, <1>5, <1>6, <1>7, <1>8 DEF Next, Sampler

-----------------------------------------------------------------------------
(* The request rate.                                                        *)

\* What the sampler has loaded stays in the counter until it is reset.
LEMMA QpsNext == StatsInv /\ [Next]_vars => QpsHeld'
<1> SUFFICES ASSUME StatsInv, [Next]_vars PROVE QpsHeld'
  OBVIOUS
<1>1. /\ TypeOK /\ QpsHeld /\ stats \in [Counters -> Nat] /\ qps \in Nat
      /\ stats["requests_this_second"] \in Nat
  BY DEF StatsInv, TypeOK, Counters
<1>2. ASSUME NEW c \in Callers, Handler(c)
      PROVE  QpsHeld'
  <2>1. stats'["requests_this_second"] \in Nat
    BY TypesNext DEF TypeOK, Counters
  <2> QED
    BY <1>1, <1>2, <2>1, HandlerQuiet DEF QpsHeld, locals
<1>3. CASE \E d \in DataDirection : LoadBytes(d) \/ StoreSpeed(d) \/ RaisePeak(d)
  BY <1>3 DEF LoadBytes, StoreSpeed, RaisePeak, Sample, QpsHeld
<1>4. CASE LoadQps \/ StoreQps
  BY <1>1, <1>4 DEF LoadQps, StoreQps, Store, Sample, locals, QpsHeld, Counters
<1>5. CASE ResetQps \/ EndRound
  BY <1>5 DEF ResetQps, EndRound, Sample, QpsHeld
<1>6. CASE UNCHANGED vars
  BY <1>1, <1>6 DEF vars, locals, QpsHeld
<1> QED
  BY <1>2, <1>3, <1>4, <1>5, <1>6 DEF Next, Sampler

\* Every step keeps the published rates and the running second within the
\* requests that have arrived.
LEMMA CountedOnceNext == StatsInv /\ [Next]_vars => NoRequestCountedTwice'
<1> SUFFICES ASSUME StatsInv, [Next]_vars PROVE NoRequestCountedTwice'
  OBVIOUS
<1> DEFINE A == Cardinality(Arrived)
           R == stats["requests_this_second"]
<1>1. /\ TypeOK /\ QpsHeld /\ stats \in [Counters -> Nat] /\ qps \in Nat
      /\ counted \in Nat /\ R \in Nat /\ A \in Nat
      /\ counted + (R - IF stage = "reset_qps" THEN qps ELSE 0) <= A
  BY CallerSets DEF StatsInv, TypeOK, Counters, NoRequestCountedTwice, Unpublished
<1>2. ASSUME NEW c \in Callers, AddSecond(c)
      PROVE  NoRequestCountedTwice'
  <2>1. /\ pc[c] = "current" /\ pc' = [pc EXCEPT ![c] = "active"]
        /\ R' = R + 1 /\ UNCHANGED <<stage, qps, counted>>
    BY <1>1, <1>2 DEF AddSecond, Call, FetchAdd, locals, Counters
  <2>2. Arrived' = Arrived \cup {c} /\ c \notin Arrived
    BY <1>1, <2>1 DEF Arrived, TypeOK
  <2>3. A' = A + 1
    BY <2>2, CallerSets, FS_AddElement
  <2> HIDE DEF A
  <2> QED
    BY <1>1, <2>1, <2>3 DEF NoRequestCountedTwice, Unpublished, A
<1>3. ASSUME NEW c \in Callers, Handler(c), ~AddSecond(c)
      PROVE  NoRequestCountedTwice'
  <2>1. R' = R /\ Arrived' = Arrived
    <3>1. CASE AddTotal(c) \/ AddCurrent(c)
      BY <1>1, <3>1 DEF AddTotal, AddCurrent, Call, FetchAdd, Counters, Arrived, TypeOK
    <3>2. CASE \E d \in DataDirection, n \in 1..MaxChunk : HandleData(c, d, n)
      BY <1>1, <3>2, Names DEF HandleData, CountData, FetchAdd, Counters, Arrived
    <3>3. CASE HandleConnectClose(c)
      BY <1>1, <3>3 DEF HandleConnectClose, CountClose, FetchSub, Counters, Arrived, TypeOK
    <3> QED
      BY <1>3, <3>1, <3>2, <3>3 DEF Handler
  <2> QED
    BY <1>1, <1>3, <2>1, HandlerQuiet DEF NoRequestCountedTwice, Unpublished, locals
<1>4. CASE \E d \in DataDirection : LoadBytes(d) \/ StoreSpeed(d) \/ RaisePeak(d)
  <2>1. R' = R /\ qps' = qps /\ counted' = counted /\ pc' = pc
        /\ stage # "reset_qps" /\ stage' # "reset_qps"
    BY <1>1, <1>4, Names
       DEF LoadBytes, StoreSpeed, RaisePeak, Store, Sample, locals, Counters
  <2> QED
    BY <1>1, <2>1 DEF NoRequestCountedTwice, Unpublished, Arrived
<1>5. CASE LoadQps \/ StoreQps
  <2>1. /\ R' = R /\ pc' = pc /\ stage # "reset_qps"
        /\ \/ stage' = "reset_qps" /\ counted' = counted + qps /\ qps' = qps
           \/ stage' # "reset_qps" /\ counted' = counted
    BY <1>1, <1>5 DEF LoadQps, StoreQps, Store, Sample, locals, Counters
  <2> QED
    BY <1>1, <2>1 DEF NoRequestCountedTwice, Unpublished, Arrived
<1>6. CASE ResetQps
  <2>1. /\ R' = 0 /\ pc' = pc /\ stage = "reset_qps" /\ stage' # "reset_qps"
        /\ counted' = counted /\ qps <= R
    BY <1>1, <1>6 DEF ResetQps, Store, Sample, Counters, QpsHeld
  <2> QED
    BY <1>1, <2>1 DEF NoRequestCountedTwice, Unpublished, Arrived
<1>7. CASE EndRound
  <2>1. R' = R /\ pc' = pc /\ counted' = counted
        /\ stage # "reset_qps" /\ stage' # "reset_qps"
    BY <1>1, <1>7 DEF EndRound, Store, Sample, Counters
  <2> QED
    BY <1>1, <2>1 DEF NoRequestCountedTwice, Unpublished, Arrived
<1>8. CASE UNCHANGED vars
  BY <1>1, <1>8 DEF vars, locals, NoRequestCountedTwice, Unpublished, Arrived
<1> QED
  BY <1>2, <1>3, <1>4, <1>5, <1>6, <1>7, <1>8 DEF Next, Sampler

-----------------------------------------------------------------------------
(* The peaks.                                                               *)

\* Every step keeps the peaks above the gauges, or what they will be raised
\* to in the gauges.
LEMMA PeaksNext == StatsInv /\ [Next]_vars => PeaksCover'
<1> SUFFICES ASSUME StatsInv, [Next]_vars PROVE PeaksCover'
  OBVIOUS
<1>1. /\ TypeOK /\ PeaksCover /\ stats \in [Counters -> Nat] /\ qps \in Nat
      /\ \A d \in DataDirection : Speed(d) \in Nat
      /\ \A k \in Counters : stats[k] \in Nat
  BY SpeedIsGain DEF StatsInv, TypeOK
<1>2. /\ \A d \in DataDirection : {CounterOf(d), SpeedOf(d), PeakOf(d)} \subseteq Counters
      /\ {"last_qps", "max_qps", "requests_this_second"} \subseteq Counters
  BY Names DEF Counters
<1>3. ASSUME UNCHANGED <<current, last, qps, stage>>,
             \A k \in {"current_speed_in", "current_speed_out", "max_speed_in",
                       "max_speed_out", "last_qps", "max_qps"} : stats'[k] = stats[k]
      PROVE  PeaksCover'
  <2>1. \A d \in DataDirection :
            /\ stats'[SpeedOf(d)] = stats[SpeedOf(d)] /\ stats'[PeakOf(d)] = stats[PeakOf(d)]
            /\ Speed(d)' = Speed(d) /\ Unraised(d)' = Unraised(d)
    BY <1>3, Names DEF Speed, Unraised
  <2> QED
    BY <1>1, <1>3, <2>1 DEF PeaksCover
<1>4. ASSUME NEW c \in Callers, Handler(c)
      PROVE  PeaksCover'
  BY <1>1, <1>3, <1>4, HandlerQuiet DEF locals
<1>5. ASSUME NEW d \in DataDirection, LoadBytes(d)
      PROVE  PeaksCover'
  <2>1. /\ \A e \in DataDirection : ~Unraised(e) /\ ~Unraised(e)'
        /\ stage \notin {"reset_qps", "peak_qps"} /\ stage' \notin {"reset_qps", "peak_qps"}
        /\ stats' = stats
    BY <1>5 DEF LoadBytes, Sample, Unraised, DataDirection
  <2> QED
    BY <1>1, <2>1 DEF PeaksCover
<1>6. ASSUME NEW d \in DataDirection, StoreSpeed(d)
      PROVE  PeaksCover'
  <2>1. /\ Unraised(d)'
        /\ \A e \in DataDirection \ {d} : Unraised(e)' = Unraised(e)
        /\ stage \notin {"reset_qps", "peak_qps"} /\ stage' \notin {"reset_qps", "peak_qps"}
        /\ \A e \in DataDirection : Speed(e)' = Speed(e)
    BY <1>6 DEF StoreSpeed, Sample, Unraised, DataDirection, Speed, locals
  <2>2. stats' = [stats EXCEPT ![SpeedOf(d)] = Speed(d)]
    BY <1>6 DEF StoreSpeed, Store
  <2>3. /\ stats'[SpeedOf(d)] = Speed(d)
        /\ \A e \in DataDirection : stats'[PeakOf(e)] = stats[PeakOf(e)]
        /\ \A e \in DataDirection \ {d} : stats'[SpeedOf(e)] = stats[SpeedOf(e)]
        /\ stats'["last_qps"] = stats["last_qps"] /\ stats'["max_qps"] = stats["max_qps"]
    BY <1>1, <1>2, <2>2, Names
  <2> QED
    BY <1>1, <2>1, <2>3 DEF PeaksCover
<1>7. ASSUME NEW d \in DataDirection, RaisePeak(d)
      PROVE  PeaksCover'
  <2>1. /\ Unraised(d) /\ ~Unraised(d)'
        /\ \A e \in DataDirection \ {d} : Unraised(e)' = Unraised(e)
        /\ stage \notin {"reset_qps", "peak_qps"} /\ stage' \notin {"reset_qps", "peak_qps"}
        /\ \A e \in DataDirection : Speed(e)' = Speed(e)
    BY <1>7 DEF RaisePeak, Sample, Unraised, DataDirection, Speed, locals
  <2>2. /\ stats'[PeakOf(d)] >= Speed(d)
        /\ \A k \in Counters \ {PeakOf(d)} : stats'[k] = stats[k]
    BY <1>1, <1>2, <1>7 DEF RaisePeak, Store
  <2>3. stats'[SpeedOf(d)] <= stats'[PeakOf(d)]
    BY <1>1, <1>2, <2>1, <2>2, Names DEF PeaksCover
  <2>4. \A e \in DataDirection \ {d} :
            stats'[SpeedOf(e)] = stats[SpeedOf(e)] /\ stats'[PeakOf(e)] = stats[PeakOf(e)]
    BY <1>2, <2>2, Names
  <2>5. stats'["last_qps"] = stats["last_qps"] /\ stats'["max_qps"] = stats["max_qps"]
    BY <1>2, <2>2, Names
  <2> QED
    BY <1>1, <2>1, <2>3, <2>4, <2>5 DEF PeaksCover
<1>8. CASE LoadQps \/ StoreQps \/ ResetQps \/ EndRound
  <2>1. \A d \in DataDirection :
            /\ ~Unraised(d) /\ ~Unraised(d)'
            /\ stats'[SpeedOf(d)] = stats[SpeedOf(d)] /\ stats'[PeakOf(d)] = stats[PeakOf(d)]
    BY <1>1, <1>2, <1>8, Names
       DEF LoadQps, StoreQps, ResetQps, EndRound, Sample, Store, Unraised
  <2>2. IF stage' \in {"reset_qps", "peak_qps"} THEN stats'["last_qps"] = qps'
        ELSE stats'["last_qps"] <= stats'["max_qps"]
    BY <1>1, <1>2, <1>8
       DEF LoadQps, StoreQps, ResetQps, EndRound, Sample, Store, PeaksCover, locals
  <2> QED
    BY <1>1, <2>1, <2>2 DEF PeaksCover
<1>9. CASE UNCHANGED vars
  BY <1>3, <1>9 DEF vars, locals
<1> QED
  BY <1>4, <1>5, <1>6, <1>7, <1>8, <1>9 DEF Next, Sampler

-----------------------------------------------------------------------------
(* The theorems.                                                            *)

\* Nothing is counted and nothing published at the start.
LEMMA StatsInvInit == Init => StatsInv
<1> SUFFICES ASSUME Init PROVE StatsInv
  OBVIOUS
<1>1. stats \in [Counters -> Nat] /\ \A k \in Counters : stats[k] = 0
  BY DEF Init, ZeroStats
<1>2. \A d \in DataDirection :
        stats[CounterOf(d)] = 0 /\ stats[SpeedOf(d)] = 0 /\ stats[PeakOf(d)] = 0
  BY <1>1, Names DEF Counters
<1>3. /\ stats["total_requests"] = 0 /\ stats["current_requests"] = 0
      /\ stats["requests_this_second"] = 0
      /\ stats["last_qps"] = 0 /\ stats["max_qps"] = 0
  BY <1>1 DEF Counters
<1>4. Entered = {} /\ Open = {} /\ Arrived = {} /\ Cardinality({}) = 0
  BY FS_EmptySet DEF Init, Entered, Open, Arrived
<1>5. TypeOK
  BY <1>1, <1>3 DEF Init, TypeOK, Stages
<1>6. RequestsCounted /\ NoRequestCountedTwice /\ QpsHeld
  BY <1>3, <1>4 DEF Init, RequestsCounted, NoRequestCountedTwice, Unpublished, QpsHeld
<1>7. SpeedsAddUp /\ PeaksCover
  BY <1>2, <1>3 DEF Init, SpeedsAddUp, Published, Bytes, PeaksCover, Unraised, DataDirection
<1> QED
  BY <1>5, <1>6, <1>7 DEF StatsInv

\* The invariant holds for every instance.
THEOREM StatsInvariant == Spec => []StatsInv
<1>1. StatsInv /\ [Next]_vars => StatsInv'
  BY TypesNext, RequestsNext, SpeedsNext, QpsNext, CountedOnceNext, PeaksNext DEF StatsInv
<1> QED
  BY <1>1, StatsInvInit, PTL DEF Spec

\* The counters stay in their ranges, and current_requests never wraps around
\* below zero, however the fetch_adds of one request interleave with the
\* fetch_sub of another (traffic_stats.rs:105-141, 165-173).
THEOREM StatsTypeCorrect == Spec => []TypeOK
<1>1. StatsInv => TypeOK
  BY DEF StatsInv
<1> QED
  BY <1>1, StatsInvariant, PTL

\* The published speeds add up to the bytes counted: no byte is left out or
\* counted twice, whatever arrives during a round (traffic_stats.rs:27-39,
\* 68-70).
THEOREM SpeedsSumToBytes == Spec => []SpeedsAddUp
<1>1. StatsInv => SpeedsAddUp
  BY DEF StatsInv
<1> QED
  BY <1>1, StatsInvariant, PTL

\* The request rate never counts a request twice, although the counter is
\* loaded and reset in two steps (traffic_stats.rs:56-61).
THEOREM RatesCountOnce == Spec => []NoRequestCountedTwice
<1>1. StatsInv => NoRequestCountedTwice
  BY DEF StatsInv
<1> QED
  BY <1>1, StatsInvariant, PTL

\* No step lowers a peak, and every round leaves the peaks above what it
\* published.
LEMMA StepHoldsPeaks ==
    ASSUME StatsInv, StatsInv', [Next]_vars
    PROVE  /\ \A p \in {"max_speed_in", "max_speed_out", "max_qps"} : stats'[p] >= stats[p]
           /\ stage' = "load_in" => Covers(stats')
<1>1. /\ TypeOK /\ \A k \in Counters : stats[k] \in Nat /\ stats'[k] \in Nat
      /\ stats \in [Counters -> Nat] /\ qps \in Nat
      /\ \A d \in DataDirection : Speed(d) \in Nat
  BY SpeedIsGain DEF StatsInv, TypeOK
<1>2. {"max_speed_in", "max_speed_out", "max_qps"} \subseteq Counters
  BY DEF Counters
<1>3. \A p \in {"max_speed_in", "max_speed_out", "max_qps"} : stats'[p] >= stats[p]
  <2>1. ASSUME NEW c \in Callers, Handler(c)
        PROVE  \A p \in {"max_speed_in", "max_speed_out", "max_qps"} : stats'[p] >= stats[p]
    BY <1>1, <1>2, <2>1, HandlerQuiet
  <2>2. ASSUME NEW d \in DataDirection, RaisePeak(d)
        PROVE  \A p \in {"max_speed_in", "max_speed_out", "max_qps"} : stats'[p] >= stats[p]
    BY <1>1, <1>2, <2>2, Names DEF RaisePeak, Store
  <2>3. CASE \/ \E d \in DataDirection : LoadBytes(d) \/ StoreSpeed(d)
             \/ LoadQps \/ StoreQps \/ ResetQps \/ EndRound
    BY <1>1, <1>2, <2>3, Names
       DEF LoadBytes, StoreSpeed, LoadQps, StoreQps, ResetQps, EndRound, Store
  <2>4. CASE UNCHANGED vars
    BY <1>1, <1>2, <2>4 DEF vars
  <2> QED
    BY <2>1, <2>2, <2>3, <2>4 DEF Next, Sampler
<1>4. ASSUME stage' = "load_in"
      PROVE  Covers(stats')
  <2>1. \A d \in DataDirection :
            {SpeedOf(d), PeakOf(d)} \subseteq Counters /\ ~Unraised(d)'
    BY <1>4, Names DEF Unraised, Counters
  <2>2. "last_qps" \in Counters /\ "max_qps" \in Counters
    BY DEF Counters
  <2> QED
    BY <1>1, <1>4, <2>1, <2>2 DEF StatsInv, PeaksCover, Covers
<1> QED
  BY <1>3, <1>4

\* Peaks never fall, and whenever a round is over they cover the speeds and
\* the request rate it published (traffic_stats.rs:41-54, 63-66).
THEOREM PeaksNeverFall == Spec => PeaksHold
BY StepHoldsPeaks, StatsInvariant, PTL DEF Spec, PeaksHold

-----------------------------------------------------------------------------
(* The handlers as single steps.                                            *)

\* Requests between their first two fetch_adds are finitely many.
LEMMA EnteringSet == IsFiniteSet(Entering) /\ Cardinality(Entering) \in Nat
<1>1. Entering \subseteq Callers
  BY DEF Entering
<1> QED
  BY <1>1, TrafficAssumption, FS_Subset, FS_CardinalityType

\* A handler that changes another counter leaves the byte counters alone.
LEMMA BytesKept ==
    ASSUME StatsInv, NEW k \in Counters \ {"bytes_in", "bytes_out"},
           stats' = [stats EXCEPT ![k] = stats'[k]]
    PROVE  \A d \in DataDirection : Bytes(d)' = Bytes(d)
BY Names DEF StatsInv, TypeOK, Bytes, Counters

\* The first fetch_add is where a request enters the totals.
LEMMA AddTotalEnters ==
    ASSUME StatsInv, NEW c \in Callers, AddTotal(c)
    PROVE  Totals!EnterOne
<1>1. /\ stats \in [Counters -> Nat]
      /\ pc \in [Callers -> {"idle", "total", "current", "active", "closed"}]
      /\ {"total_requests", "current_requests"} \subseteq Counters
  BY DEF StatsInv, TypeOK, Counters
<1>2. /\ pc[c] = "idle" /\ pc' = [pc EXCEPT ![c] = "total"]
      /\ stats' = [stats EXCEPT !["total_requests"] = stats["total_requests"] + 1]
  BY <1>1, HandlerEffect DEF AddTotal
<1>3. Cardinality(Entering') = Cardinality(Entering) + 1
  <2>1. Entering' = Entering \cup {c} /\ c \notin Entering
    BY <1>1, <1>2 DEF Entering
  <2> QED
    BY <2>1, EnteringSet, FS_AddElement
<1>4. /\ stats'["total_requests"] = stats["total_requests"] + 1
      /\ stats'["current_requests"] = stats["current_requests"]
  BY <1>1, <1>2
<1>5. \A d \in DataDirection : Bytes(d)' = Bytes(d)
  BY <1>1, <1>2, <1>4, BytesKept
<1>6. stats["current_requests"] \in Nat
  BY <1>1
<1>7. stats'["current_requests"] + Cardinality(Entering')
          = stats["current_requests"] + Cardinality(Entering) + 1
  BY <1>3, <1>4, <1>6, EnteringSet
<1> QED
  BY <1>4, <1>5, <1>7 DEF Totals!EnterOne

\* The second one is invisible: the request was taken as counted before.
LEMMA AddCurrentStutters ==
    ASSUME StatsInv, NEW c \in Callers, AddCurrent(c)
    PROVE  UNCHANGED Totals!totals
<1>1. /\ stats \in [Counters -> Nat]
      /\ pc \in [Callers -> {"idle", "total", "current", "active", "closed"}]
      /\ {"total_requests", "current_requests"} \subseteq Counters
  BY DEF StatsInv, TypeOK, Counters
<1>2. /\ pc[c] = "total" /\ pc' = [pc EXCEPT ![c] = "current"]
      /\ stats' = [stats EXCEPT !["current_requests"] = stats["current_requests"] + 1]
  BY <1>1, HandlerEffect DEF AddCurrent
<1>3. Cardinality(Entering') = Cardinality(Entering) - 1
  <2>1. Entering' = Entering \ {c} /\ c \in Entering
    BY <1>1, <1>2 DEF Entering
  <2> QED
    BY <2>1, EnteringSet, FS_RemoveElement
<1>4. /\ stats'["total_requests"] = stats["total_requests"]
      /\ stats'["current_requests"] = stats["current_requests"] + 1
  BY <1>1, <1>2
<1>5. \A d \in DataDirection : Bytes(d)' = Bytes(d)
  BY <1>1, <1>2, <1>4, BytesKept
<1>6. stats["current_requests"] \in Nat
  BY <1>1
<1>7. stats'["current_requests"] + Cardinality(Entering')
          = stats["current_requests"] + Cardinality(Entering)
  BY <1>3, <1>4, <1>6, EnteringSet
<1> QED
  BY <1>4, <1>5, <1>7 DEF Totals!totals

\* The third one, which the rates are made of, is no business of the totals.
LEMMA AddSecondStutters ==
    ASSUME StatsInv, NEW c \in Callers, AddSecond(c)
    PROVE  UNCHANGED Totals!totals
<1>1. /\ stats \in [Counters -> Nat]
      /\ pc \in [Callers -> {"idle", "total", "current", "active", "closed"}]
      /\ {"total_requests", "current_requests", "requests_this_second"} \subseteq Counters
  BY DEF StatsInv, TypeOK, Counters
<1>2. /\ pc[c] = "current" /\ pc' = [pc EXCEPT ![c] = "active"]
      /\ stats' = [stats EXCEPT !["requests_this_second"]
                                    = stats["requests_this_second"] + 1]
  BY <1>1, HandlerEffect DEF AddSecond
<1>3. Entering' = Entering
  BY <1>1, <1>2 DEF Entering
<1>4. /\ stats'["total_requests"] = stats["total_requests"]
      /\ stats'["current_requests"] = stats["current_requests"]
      /\ stats' = [stats EXCEPT !["requests_this_second"] = stats'["requests_this_second"]]
  BY <1>1, <1>2
<1>5. \A d \in DataDirection : Bytes(d)' = Bytes(d)
  BY <1>1, <1>4, BytesKept
<1> QED
  BY <1>3, <1>4, <1>5 DEF Totals!totals

\* A caller that counts bytes or leaves has been counted itself.
LEMMA ActiveIsCounted ==
    ASSUME StatsInv, NEW c \in Callers, pc[c] = "active"
    PROVE  /\ stats["current_requests"] \in Nat /\ stats["current_requests"] >= 1
           /\ stats["current_requests"] + Cardinality(Entering) > 0
<1>1. c \in Open
  BY DEF Open
<1>2. Cardinality(Open) # 0
  BY <1>1, CallerSets, FS_EmptySet
<1>3. stats["current_requests"] = Cardinality(Open)
  BY DEF StatsInv, RequestsCounted
<1>4. Cardinality(Open) \in Nat /\ Cardinality(Entering) \in Nat
  BY CallerSets, EnteringSet
<1> QED
  BY <1>2, <1>3, <1>4

\* Bytes are counted in the direction they were relayed in.
LEMMA DataIsTransfer ==
    ASSUME StatsInv, NEW c \in Callers, NEW d \in DataDirection, NEW n \in 1..MaxChunk,
           HandleData(c, d, n)
    PROVE  Totals!Transfer(d)
<1> DEFINE bytes == [e \in DataDirection |-> Bytes(e)]
<1>1. /\ stats \in [Counters -> Nat] /\ n \in Nat /\ n > 0
      /\ {"total_requests", "current_requests", "bytes_in", "bytes_out"} \subseteq Counters
  BY TrafficAssumption DEF StatsInv, TypeOK, Counters
<1>2. /\ pc' = pc /\ pc[c] = "active"
      /\ stats' = [stats EXCEPT ![CounterOf(d)] = stats[CounterOf(d)] + n]
  BY <1>1, HandlerEffect DEF HandleData
<1>3. /\ stats'["total_requests"] = stats["total_requests"]
      /\ stats'["current_requests"] = stats["current_requests"]
      /\ stats'[CounterOf(d)] = stats[CounterOf(d)] + n
      /\ stats[CounterOf(d)] \in Nat
      /\ \A e \in DataDirection \ {d} : stats'[CounterOf(e)] = stats[CounterOf(e)]
  BY <1>1, <1>2, Names
<1>4. Bytes(d) < Bytes(d)' /\ \A e \in DataDirection \ {d} : Bytes(e)' = Bytes(e)
  BY <1>1, <1>3 DEF Bytes
<1>5. bytes[d] < bytes'[d] /\ bytes' = [bytes EXCEPT ![d] = bytes'[d]]
  BY <1>4
<1>6. Entering' = Entering
  BY <1>2 DEF Entering
<1>7. stats["current_requests"] + Cardinality(Entering) > 0
  BY <1>2, ActiveIsCounted
<1> QED
  BY <1>3, <1>5, <1>6, <1>7 DEF Totals!Transfer

\* A tunnel that closes leaves the totals.
LEMMA CloseLeaves ==
    ASSUME StatsInv, NEW c \in Callers, HandleConnectClose(c)
    PROVE  Totals!LeaveOne
<1>1. /\ stats \in [Counters -> Nat]
      /\ pc \in [Callers -> {"idle", "total", "current", "active", "closed"}]
      /\ {"total_requests", "current_requests"} \subseteq Counters
  BY DEF StatsInv, TypeOK, Counters
<1>2. pc[c] = "active" /\ pc' = [pc EXCEPT ![c] = "closed"]
  BY DEF HandleConnectClose
<1>3. stats' = [stats EXCEPT !["current_requests"] = stats["current_requests"] - 1]
  BY <1>2, ActiveIsCounted, HandlerEffect
<1>4. /\ stats'["total_requests"] = stats["total_requests"]
      /\ stats'["current_requests"] = stats["current_requests"] - 1
  BY <1>1, <1>3
<1>5. \A d \in DataDirection : Bytes(d)' = Bytes(d)
  BY <1>1, <1>3, <1>4, BytesKept
<1>6. Entering' = Entering
  BY <1>1, <1>2 DEF Entering
<1>7. stats'["current_requests"] + Cardinality(Entering')
          = (stats["current_requests"] + Cardinality(Entering)) - 1
  BY <1>2, <1>4, <1>6, ActiveIsCounted, EnteringSet
<1>8. stats["current_requests"] + Cardinality(Entering) > 0
  BY <1>2, ActiveIsCounted
<1> QED
  BY <1>4, <1>5, <1>7, <1>8 DEF Totals!LeaveOne

\* Every atomic operation is a step of the totals or invisible to them.
LEMMA TotalsStep == StatsInv /\ [Next]_vars => [Totals!TotalsNext]_(Totals!totals)
<1> SUFFICES ASSUME StatsInv, [Next]_vars
             PROVE  Totals!TotalsNext \/ UNCHANGED Totals!totals
  OBVIOUS
<1>1. CASE Sampler
  <2>1. TypeOK
    BY DEF StatsInv
  <2> QED
    BY <1>1, <2>1, SamplerQuiet DEF Entering, Totals!totals
<1>2. CASE UNCHANGED vars
  BY <1>2 DEF vars, Entering, Bytes, Totals!totals
<1> QED
  BY <1>1, <1>2, AddTotalEnters, AddCurrentStutters, AddSecondStutters, DataIsTransfer,
     CloseLeaves
     DEF Next, Handler, Totals!TotalsNext

\* The three fetch_adds of a request, the additions of a tunnel and its
\* fetch_sub count as if each handler were one step, for every number of
\* callers and whatever the sampling task does in between: what Proxy assumes
\* of the plugin (traffic_stats.rs:105-141, 150-173).
THEOREM HandlersCountAtomically == Spec => ImplementsTotals
<1>1. Init => Totals!TotalsInit
  <2> SUFFICES ASSUME Init PROVE Totals!TotalsInit
    OBVIOUS
  <2>1. Entering = {} /\ Cardinality({}) = 0
    BY FS_EmptySet DEF Init, Entering
  <2>2. /\ stats["total_requests"] = 0 /\ stats["current_requests"] = 0
        /\ \A d \in DataDirection : Bytes(d) = 0
    BY Names DEF Init, ZeroStats, Counters, Bytes
  <2> QED
    BY <2>1, <2>2 DEF Totals!TotalsInit
<1> QED
  BY <1>1, TotalsStep, StatsInvariant, PTL DEF Spec, ImplementsTotals, Totals!TotalsSpec
=============================================================================
