---------------------------- MODULE ProxyProofs ----------------------------
(***************************************************************************)
(* Proofs about Proxy, for every set of flows, every --max-records, with    *)
(* and without interception.  The safety properties follow from one         *)
(* inductive invariant, built in four layers:                               *)
(*                                                                          *)
(*   TypeOK /\ ControlOK     where a handler stands, and what it holds there *)
(*   IdsOK                   ids are distinct and counted                   *)
(*   RetainsNewest           the log is the end of the history              *)
(*   AddedByRequest /\ RecordMatchesRequest                                 *)
(*                           every entry belongs to one request             *)
(***************************************************************************)
EXTENDS Proxy, FiniteSetTheorems, SequenceTheorems, TLAPS

TunnelPcs == {"cert", "dial", "upgrading", "relay", "closed"}

\* Where the handler of a flow stands decides how far it is in the chain,
\* what kind of request it serves and whether it has drawn its id.
ControlOK ==
    \A f \in Flows :
        /\ pc[f] \in {"idle", "dns"} \cup TunnelPcs => at[f] = 1
        /\ pc[f] \in {"idle", "dns"} => reqId[f] = NoId
        /\ pc[f] \in {"chain", "marking", "upstream", "streaming"} \cup TunnelPcs
               => reqId[f] # NoId
        /\ pc[f] = "chain" => at[f] \in 1..3
        /\ pc[f] = "marking" => at[f] = 3
        /\ pc[f] \in {"upstream", "streaming"} => at[f] = 4
        /\ pc[f] \in TunnelPcs => kind[f] = "connect"
        /\ pc[f] \in {"dns", "chain"} => kind[f] # "connect"
        /\ at[f] > 1 => kind[f] = "http" /\ reqId[f] # NoId

-----------------------------------------------------------------------------
(* The plugin chain and the operators on the record log.                    *)

\* The chain has three plugins, in the order of PluginManager::init.
LEMMA ChainShape ==
    /\ Len(PluginChain) = 3
    /\ PluginChain[1] = "bifrost_server"
    /\ PluginChain[2] = "traffic_stats"
    /\ PluginChain[3] = "net_storage"
BY DEF PluginChain

\* A handler in the plugin chain is at the position of the plugin it is in.
LEMMA PluginPosition ==
    ASSUME NEW i \in 1..3
    PROVE  /\ PluginChain[i] = "bifrost_server" => i = 1
           /\ PluginChain[i] = "traffic_stats" => i = 2
           /\ PluginChain[i] = "net_storage" => i = 3
BY DEF PluginChain

\* The log can always hold at least one record.
LEMMA CapacityType == Capacity \in Nat /\ Capacity >= 1
BY ProxyAssumption DEF Capacity

\* A log that is not full holds less than MaxRecords records, or none.
LEMMA RoomLeft ==
    ASSUME NEW n \in Nat, n <= Capacity, n # Capacity
    PROVE  n < MaxRecords \/ n = 0
<1>1. MaxRecords \in Nat
  BY ProxyAssumption
<1> QED BY <1>1 DEF Capacity

\* add_network_record appends one record, after forgetting the oldest one if
\* the log is full.
LEMMA AddRecordProperties ==
    ASSUME NEW rs \in Seq(NetworkRecord), Len(rs) <= Capacity,
           NEW rec \in NetworkRecord
    PROVE  /\ AddRecord(rs, rec) \in Seq(NetworkRecord)
           /\ Len(AddRecord(rs, rec)) =
                  IF Len(rs) = Capacity THEN Capacity ELSE Len(rs) + 1
           /\ \A i \in 1..Len(AddRecord(rs, rec)) :
                  AddRecord(rs, rec)[i] =
                      IF i = Len(AddRecord(rs, rec)) THEN rec
                      ELSE rs[i + Len(rs) + 1 - Len(AddRecord(rs, rec))]
<1> DEFINE new == AddRecord(rs, rec)
<1>1. Len(rs) \in Nat /\ MaxRecords \in Nat /\ Capacity \in Nat
  BY ProxyAssumption, CapacityType
<1>2. CASE Len(rs) = Capacity
  <2>1. rs # <<>> /\ Len(rs) >= MaxRecords
    BY <1>1, <1>2, ProxyAssumption, EmptySeq DEF Capacity
  <2>2. new = Append(Tail(rs), rec)
    BY <2>1 DEF AddRecord
  <2>3. /\ Tail(rs) \in Seq(NetworkRecord)
        /\ Len(Tail(rs)) = Len(rs) - 1
        /\ \A i \in 1..Len(Tail(rs)) : Tail(rs)[i] = rs[i + 1]
    BY <2>1, HeadTailProperties
  <2> QED BY <1>1, <1>2, <2>2, <2>3
<1>3. CASE Len(rs) # Capacity
  <2>0. Len(rs) = 0 => rs = <<>>
    BY EmptySeq
  <2>1. Len(rs) < MaxRecords \/ rs = <<>>
    BY <1>1, <1>3, <2>0, RoomLeft
  <2>2. new = Append(rs, rec)
    BY <1>1, <2>1 DEF AddRecord
  <2> QED BY <1>1, <1>3, <2>2
<1> QED BY <1>2, <1>3

\* Record i is the one update_network_record_by_id finds for the id.
FirstWithId(rs, id, i) == rs[i].id = id /\ \A j \in 1..(i - 1) : rs[j].id # id

\* update_network_record_by_id changes the state of the first record with
\* the id, and nothing else.
LEMMA UpdateRecordProperties ==
    ASSUME NEW rs \in Seq(NetworkRecord), NEW id,
           NEW next \in [RequestState -> RequestState]
    PROVE  /\ UpdateRecord(rs, id, next) \in Seq(NetworkRecord)
           /\ Len(UpdateRecord(rs, id, next)) = Len(rs)
           /\ \A i \in 1..Len(rs) :
                /\ UpdateRecord(rs, id, next)[i].id = rs[i].id
                /\ FirstWithId(rs, id, i)
                       => UpdateRecord(rs, id, next)[i].state = next[rs[i].state]
                /\ ~FirstWithId(rs, id, i)
                       => UpdateRecord(rs, id, next)[i] = rs[i]
<1> DEFINE e(i) == IF FirstWithId(rs, id, i)
                   THEN [rs[i] EXCEPT !.state = next[@]]
                   ELSE rs[i]
<1> DEFINE new == UpdateRecord(rs, id, next)
<1>1. new = [i \in 1..Len(rs) |-> e(i)]
  BY DEF UpdateRecord, FirstWithId
<1>2. \A i \in 1..Len(rs) :
        /\ e(i) \in NetworkRecord
        /\ e(i).id = rs[i].id
        /\ FirstWithId(rs, id, i) => e(i).state = next[rs[i].state]
        /\ ~FirstWithId(rs, id, i) => e(i) = rs[i]
  <2> TAKE i \in 1..Len(rs)
  <2>1. rs[i] \in NetworkRecord
    BY ElementOfSeq
  <2>2. /\ [rs[i] EXCEPT !.state = next[@]] \in NetworkRecord
        /\ [rs[i] EXCEPT !.state = next[@]].id = rs[i].id
        /\ [rs[i] EXCEPT !.state = next[@]].state = next[rs[i].state]
    BY <2>1 DEF NetworkRecord
  <2> QED BY <2>1, <2>2
<1>3. Len(rs) \in Nat
  OBVIOUS
<1> HIDE DEF e, new
<1>4. new \in Seq(NetworkRecord) /\ Len(new) = Len(rs)
  BY <1>1, <1>2, <1>3
<1>5. \A i \in 1..Len(rs) : new[i] = e(i)
  BY <1>1
<1>6. new = UpdateRecord(rs, id, next)
  BY DEF new
<1> QED BY <1>2, <1>4, <1>5, <1>6

\* An update by an id that has no record changes nothing.
LEMMA UpdateUnknownId ==
    ASSUME NEW rs \in Seq(NetworkRecord), NEW id,
           NEW next \in [RequestState -> RequestState],
           \A i \in 1..Len(rs) : rs[i].id # id
    PROVE  UpdateRecord(rs, id, next) = rs
<1>1. /\ UpdateRecord(rs, id, next) \in Seq(NetworkRecord)
      /\ Len(UpdateRecord(rs, id, next)) = Len(rs)
      /\ \A i \in 1..Len(rs) : UpdateRecord(rs, id, next)[i] = rs[i]
  BY UpdateRecordProperties DEF FirstWithId
<1> QED BY <1>1, SeqEqual

-----------------------------------------------------------------------------
(* Types and control.                                                       *)

\* The state changes of net_storage.rs map states to states.
LEMMA StateMaps ==
    /\ ToSending \in [RequestState -> RequestState]
    /\ OnClose \in [RequestState -> RequestState]
    /\ \A direction : OnData(direction) \in [RequestState -> RequestState]
BY DEF ToSending, OnClose, OnData, RequestState

\* The counters stay natural numbers: fetch_sub wraps around instead of going
\* below zero.
LEMMA CounterTypes ==
    ASSUME stats \in [Counters -> Nat]
    PROVE  /\ CountRequest(stats) \in [Counters -> Nat]
           /\ CountClose(stats) \in [Counters -> Nat]
           /\ \A direction : CountData(stats, direction, 1) \in [Counters -> Nat]
<1>1. \A s \in [Counters -> Nat], c \in Counters : FetchAdd(s, c, 1) \in [Counters -> Nat]
  BY DEF FetchAdd
<1>2. {"total_requests", "current_requests", "requests_this_second", "bytes_in", "bytes_out"}
          \subseteq Counters
  BY DEF Counters
<1>3. CountRequest(stats) \in [Counters -> Nat]
  BY <1>1, <1>2 DEF CountRequest
<1>4. CountClose(stats) \in [Counters -> Nat]
  <2>1. stats["current_requests"] \in Nat
    BY <1>2
  <2>2. IF stats["current_requests"] >= 1 THEN stats["current_requests"] - 1 \in Nat
        ELSE stats["current_requests"] + Word - 1 \in Nat
    BY <2>1, WordAssumption
  <2> QED BY <1>2, <2>2 DEF CountClose, FetchSub
<1>5. \A direction : CountData(stats, direction, 1) \in [Counters -> Nat]
  BY <1>1, <1>2 DEF CountData, CounterOf
<1> QED BY <1>3, <1>4, <1>5

\* The initial state is well typed, every handler before its request.
LEMMA TypeInit == Init => TypeOK /\ ControlOK
<1> SUFFICES ASSUME Init PROVE TypeOK /\ ControlOK
  OBVIOUS
<1>1. ZeroStats \in [Counters -> Nat]
  BY DEF ZeroStats
<1>2. Len(records) <= Capacity
  BY CapacityType DEF Init
<1>3. TypeOK
  BY <1>1, <1>2, ChainShape DEF Init, TypeOK, FlowTypes, StoreTypes, Kinds, Pcs, NoId
<1>4. ControlOK
  BY DEF Init, ControlOK, TunnelPcs, NoId
<1> QED BY <1>3, <1>4

\* Every step keeps the types and the control points.
LEMMA TypeNext == TypeOK /\ ControlOK /\ [Next]_vars => TypeOK' /\ ControlOK'
<1> SUFFICES ASSUME TypeOK, ControlOK, [Next]_vars PROVE TypeOK' /\ ControlOK'
  OBVIOUS
<1> enableHttps' \in BOOLEAN
  BY DEF Next, vars, TypeOK
<1> USE ChainShape DEF FlowTypes, ControlOK, Kinds, Pcs, NoId, TunnelPcs
<1>1. ASSUME NEW f \in Flows, NEW k \in Kinds, AcceptHttp(f, k) PROVE TypeOK' /\ ControlOK'
  <2>1. FlowTypes' /\ ControlOK'
    BY <1>1 DEF TypeOK, AcceptHttp, Goto
  <2>2. StoreTypes'
    BY <1>1 DEF AcceptHttp, TypeOK, StoreTypes
  <2> QED BY <2>1, <2>2 DEF TypeOK
<1>2. ASSUME NEW f \in Flows, DnsLookupFails(f) PROVE TypeOK' /\ ControlOK'
  <2>1. FlowTypes' /\ ControlOK'
    BY <1>2 DEF TypeOK, DnsLookupFails, Goto, Respond
  <2>2. StoreTypes'
    BY <1>2 DEF DnsLookupFails, TypeOK, StoreTypes
  <2> QED BY <2>1, <2>2 DEF TypeOK
<1>3. ASSUME NEW f \in Flows, HandleWebSocket(f) PROVE TypeOK' /\ ControlOK'
  <2>1. FlowTypes' /\ ControlOK'
    BY <1>3 DEF TypeOK, HandleWebSocket, Goto, Respond
  <2>2. StoreTypes'
    BY <1>3 DEF HandleWebSocket, TypeOK, StoreTypes
  <2> QED BY <2>1, <2>2 DEF TypeOK
<1>4. ASSUME NEW f \in Flows, HttpRequest(f) PROVE TypeOK' /\ ControlOK'
  <2>1. FlowTypes' /\ ControlOK'
    BY <1>4 DEF TypeOK, HttpRequest, Goto, Respond, DrawId
  <2>2. StoreTypes'
    BY <1>4 DEF HttpRequest, TypeOK, StoreTypes
  <2> QED BY <2>1, <2>2 DEF TypeOK
<1>5. ASSUME NEW f \in Flows, BifrostHandleRequest(f) PROVE TypeOK' /\ ControlOK'
  <2>1. FlowTypes' /\ ControlOK'
    BY <1>5 DEF TypeOK, BifrostHandleRequest, Goto, Respond, InPlugin, Continue
  <2>2. StoreTypes'
    BY <1>5 DEF BifrostHandleRequest, TypeOK, StoreTypes
  <2> QED BY <2>1, <2>2 DEF TypeOK
<1>6. ASSUME NEW f \in Flows, StatsHandleRequest(f) PROVE TypeOK' /\ ControlOK'
  <2>1. FlowTypes' /\ ControlOK'
    BY <1>6 DEF TypeOK, StatsHandleRequest, InPlugin, Continue
  <2>2. StoreTypes'
    BY <1>6, CounterTypes DEF StatsHandleRequest, TypeOK, StoreTypes
  <2> QED BY <2>1, <2>2 DEF TypeOK
<1>7. ASSUME NEW f \in Flows, NetStorageAdd(f) PROVE TypeOK' /\ ControlOK'
  <2>1. FlowTypes' /\ ControlOK'
    BY <1>7 DEF TypeOK, NetStorageAdd, Goto, InPlugin
  <2>2. reqId[f] \in Nat
    BY <1>7 DEF NetStorageAdd, InPlugin, TypeOK
  <2>3. [id |-> reqId[f], state |-> "Connecting"] \in NetworkRecord
    BY <2>2 DEF NetworkRecord, RequestState
  <2>4. records' \in Seq(NetworkRecord) /\ Len(records') <= Capacity
    BY <1>7, <2>3, AddRecordProperties, CapacityType
       DEF NetStorageAdd, TypeOK, StoreTypes
  <2>5. StoreTypes'
    BY <1>7, <2>2, <2>4 DEF NetStorageAdd, TypeOK, StoreTypes
  <2> QED BY <2>1, <2>5 DEF TypeOK
<1>8. ASSUME NEW f \in Flows, NetStorageMarkSending(f) PROVE TypeOK' /\ ControlOK'
  <2>1. FlowTypes' /\ ControlOK'
    BY <1>8 DEF TypeOK, NetStorageMarkSending, Continue
  <2>2. records' \in Seq(NetworkRecord) /\ Len(records') <= Capacity
    BY <1>8, StateMaps, UpdateRecordProperties
       DEF NetStorageMarkSending, TypeOK, StoreTypes
  <2>3. StoreTypes'
    BY <1>8, <2>2 DEF NetStorageMarkSending, TypeOK, StoreTypes
  <2> QED BY <2>1, <2>3 DEF TypeOK
<1>9. ASSUME NEW f \in Flows, UpstreamReplies(f) PROVE TypeOK' /\ ControlOK'
  <2>1. FlowTypes' /\ ControlOK'
    BY <1>9 DEF TypeOK, UpstreamReplies, Goto, Respond
  <2>2. StoreTypes'
    BY <1>9 DEF UpstreamReplies, TypeOK, StoreTypes
  <2> QED BY <2>1, <2>2 DEF TypeOK
<1>10. ASSUME NEW f \in Flows, BodyEnds(f) PROVE TypeOK' /\ ControlOK'
  <2>1. FlowTypes' /\ ControlOK'
    BY <1>10 DEF TypeOK, BodyEnds, Goto
  <2>2. StoreTypes'
    BY <1>10 DEF BodyEnds, TypeOK, StoreTypes
  <2> QED BY <2>1, <2>2 DEF TypeOK
<1>11. ASSUME NEW f \in Flows, AcceptConnect(f) PROVE TypeOK' /\ ControlOK'
  <2>1. FlowTypes' /\ ControlOK'
    BY <1>11 DEF TypeOK, AcceptConnect, Goto, Respond, DrawId
  <2>2. StoreTypes'
    BY <1>11 DEF AcceptConnect, TypeOK, StoreTypes
  <2> QED BY <2>1, <2>2 DEF TypeOK
<1>12. ASSUME NEW f \in Flows, CertReady(f) PROVE TypeOK' /\ ControlOK'
  <2>1. FlowTypes' /\ ControlOK'
    BY <1>12 DEF TypeOK, CertReady, Goto, Respond
  <2>2. StoreTypes'
    BY <1>12 DEF CertReady, TypeOK, StoreTypes
  <2> QED BY <2>1, <2>2 DEF TypeOK
<1>13. ASSUME NEW f \in Flows, Dialled(f) PROVE TypeOK' /\ ControlOK'
  <2>1. FlowTypes' /\ ControlOK'
    BY <1>13 DEF TypeOK, Dialled, Goto, Respond
  <2>2. StoreTypes'
    BY <1>13 DEF Dialled, TypeOK, StoreTypes
  <2> QED BY <2>1, <2>2 DEF TypeOK
<1>14. ASSUME NEW f \in Flows, StartTunnel(f) PROVE TypeOK' /\ ControlOK'
  <2>1. FlowTypes' /\ ControlOK'
    BY <1>14 DEF TypeOK, StartTunnel, Goto
  <2>2. StoreTypes'
    BY <1>14, CounterTypes DEF StartTunnel, TypeOK, StoreTypes
  <2> QED BY <2>1, <2>2 DEF TypeOK
<1>15. ASSUME NEW f \in Flows, UpgradeFails(f) PROVE TypeOK' /\ ControlOK'
  <2>1. FlowTypes' /\ ControlOK'
    BY <1>15 DEF TypeOK, UpgradeFails, Goto
  <2>2. StoreTypes'
    BY <1>15 DEF UpgradeFails, TypeOK, StoreTypes
  <2> QED BY <2>1, <2>2 DEF TypeOK
<1>16. ASSUME NEW f \in Flows, NEW direction \in DataDirection,
               RelayData(f, direction)
       PROVE  TypeOK' /\ ControlOK'
  <2>1. FlowTypes' /\ ControlOK'
    BY <1>16 DEF TypeOK, RelayData
  <2>2. records' \in Seq(NetworkRecord) /\ Len(records') <= Capacity
    BY <1>16, StateMaps, UpdateRecordProperties DEF RelayData, TypeOK, StoreTypes
  <2>3. StoreTypes'
    BY <1>16, <2>2, CounterTypes DEF RelayData, TypeOK, StoreTypes
  <2> QED BY <2>1, <2>3 DEF TypeOK
<1>17. ASSUME NEW f \in Flows, CloseTunnel(f) PROVE TypeOK' /\ ControlOK'
  <2>1. FlowTypes' /\ ControlOK'
    BY <1>17 DEF TypeOK, CloseTunnel, Goto
  <2>2. records' \in Seq(NetworkRecord) /\ Len(records') <= Capacity
    BY <1>17, StateMaps, UpdateRecordProperties DEF CloseTunnel, TypeOK, StoreTypes
  <2>3. StoreTypes'
    BY <1>17, <2>2, CounterTypes DEF CloseTunnel, TypeOK, StoreTypes
  <2> QED BY <2>1, <2>3 DEF TypeOK
<1>18. ASSUME NEW f \in Flows, ClientGone(f) PROVE TypeOK' /\ ControlOK'
  <2>1. FlowTypes' /\ ControlOK'
    BY <1>18 DEF TypeOK, ClientGone, Awaiting, InPlugin
  <2>2. StoreTypes'
    BY <1>18 DEF ClientGone, TypeOK, StoreTypes
  <2> QED BY <2>1, <2>2 DEF TypeOK
<1>19. CASE UNCHANGED vars
  BY <1>19 DEF vars, TypeOK, FlowTypes, StoreTypes, ControlOK
<1> QED BY <1>1, <1>2, <1>3, <1>4, <1>5, <1>6, <1>7, <1>8, <1>9, <1>10,
  <1>11, <1>12, <1>13, <1>14, <1>15, <1>16, <1>17, <1>18, <1>19
  DEF Next, HttpStep, ConnectStep

\* Every state is well typed and the record log never exceeds its capacity
\* (store.rs:107-115), whatever the number of flows and --max-records.
THEOREM TypeCorrect == Spec => []TypeOK
<1>1. Init => TypeOK /\ ControlOK
  BY TypeInit
<1>2. TypeOK /\ ControlOK /\ [Next]_vars => (TypeOK /\ ControlOK)'
  BY TypeNext
<1> QED BY <1>1, <1>2, PTL DEF Spec

-----------------------------------------------------------------------------
(* Ids.                                                                     *)

Drawn == {f \in Flows : reqId[f] # NoId}

\* REQUEST_ID_COUNTER counts the ids drawn.
IdsOK == DistinctIds /\ nextId = Cardinality(Drawn)

\* A step draws at most one id, for a request that has none.
LEMMA OneDraw ==
    ASSUME ControlOK, [Next]_vars
    PROVE  \/ UNCHANGED <<reqId, nextId>>
           \/ \E f \in Flows : reqId[f] = NoId /\ DrawId(f)
<1>1. ASSUME NEW f \in Flows, HttpRequest(f) PROVE reqId[f] = NoId /\ DrawId(f)
  BY <1>1 DEF HttpRequest, Goto, ControlOK
<1>2. ASSUME NEW f \in Flows, AcceptConnect(f) PROVE reqId[f] = NoId /\ DrawId(f)
  BY <1>2 DEF AcceptConnect, Goto, ControlOK
<1>3. CASE UNCHANGED vars
  BY <1>3 DEF vars
<1>4. CASE \E f \in Flows : HttpStep(f)
  BY <1>1, <1>4
     DEF HttpStep, AcceptHttp, DnsLookupFails, HandleWebSocket, BifrostHandleRequest,
     StatsHandleRequest, NetStorageAdd, NetStorageMarkSending, UpstreamReplies, BodyEnds
<1>5. CASE \E f \in Flows : ConnectStep(f)
  BY <1>2, <1>5 DEF ConnectStep, CertReady, Dialled, StartTunnel, UpgradeFails,
     RelayData, CloseTunnel
<1>6. CASE \E f \in Flows : ClientGone(f)
  BY <1>6 DEF ClientGone
<1> QED BY <1>3, <1>4, <1>5, <1>6 DEF Next

\* Nobody has an id at the start.
LEMMA IdsInit == Init => IdsOK
<1> SUFFICES ASSUME Init PROVE IdsOK
  OBVIOUS
<1>1. Drawn = {}
  BY DEF Init, Drawn
<1>2. Cardinality(Drawn) = 0
  BY <1>1, FS_EmptySet
<1>3. DistinctIds
  BY DEF Init, DistinctIds, NoId
<1> QED BY <1>2, <1>3 DEF Init, IdsOK

\* A drawn id is new: drawing keeps ids distinct and counted.
LEMMA IdsNext == TypeOK /\ ControlOK /\ IdsOK /\ [Next]_vars => IdsOK'
<1> SUFFICES ASSUME TypeOK, ControlOK, IdsOK, [Next]_vars PROVE IdsOK'
  OBVIOUS
<1>1. CASE UNCHANGED <<reqId, nextId>>
  BY <1>1 DEF IdsOK, DistinctIds, Drawn
<1>2. ASSUME NEW f \in Flows, reqId[f] = NoId, DrawId(f) PROVE IdsOK'
  <2>1. DistinctIds'
    BY <1>2 DEF DrawId, IdsOK, DistinctIds, TypeOK, FlowTypes, NoId
  <2>2. Drawn' = Drawn \cup {f} /\ f \notin Drawn
    BY <1>2 DEF DrawId, Drawn, TypeOK, FlowTypes, NoId
  <2>3. IsFiniteSet(Drawn)
    BY ProxyAssumption, FS_Subset DEF Drawn
  <2>4. Cardinality(Drawn') = Cardinality(Drawn) + 1
    BY <2>2, <2>3, FS_AddElement
  <2> QED BY <1>2, <2>1, <2>4 DEF DrawId, IdsOK
<1> QED BY <1>1, <1>2, OneDraw

\* No two requests share an id (store.rs:11, http_interceptor.rs:189 and
\* https_interceptor.rs:197), for any number of concurrent requests.
THEOREM IdsAreDistinct == Spec => []DistinctIds
<1>1. Init => TypeOK /\ ControlOK /\ IdsOK
  BY TypeInit, IdsInit
<1>2. TypeOK /\ ControlOK /\ IdsOK /\ [Next]_vars => (TypeOK /\ ControlOK /\ IdsOK)'
  BY TypeNext, IdsNext
<1>3. IdsOK => DistinctIds
  BY DEF IdsOK
<1> QED BY <1>1, <1>2, <1>3, PTL DEF Spec

-----------------------------------------------------------------------------
(* The record log.                                                          *)

\* The steps that touch the log: an addition, or an update by id.
LEMMA LogSteps ==
    ASSUME [Next]_vars
    PROVE  \/ UNCHANGED <<records, added>>
           \/ \E f \in Flows :
                \/ NetStorageAdd(f)
                \/ NetStorageMarkSending(f)
                \/ \E direction \in DataDirection : RelayData(f, direction)
                \/ CloseTunnel(f)
<1>1. CASE UNCHANGED vars
  BY <1>1 DEF vars
<1>2. CASE \E f \in Flows : HttpStep(f)
  BY <1>2
     DEF HttpStep, AcceptHttp, DnsLookupFails, HandleWebSocket, HttpRequest, BifrostHandleRequest,
     StatsHandleRequest, UpstreamReplies, BodyEnds
<1>3. CASE \E f \in Flows : ConnectStep(f)
  BY <1>3
     DEF ConnectStep, AcceptConnect, CertReady, Dialled, StartTunnel, UpgradeFails
<1>4. CASE \E f \in Flows : ClientGone(f)
  BY <1>4 DEF ClientGone
<1> QED BY <1>1, <1>2, <1>3, <1>4 DEF Next

\* An update by id keeps the ids of the log and their order.
LEMMA UpdateRetains ==
    ASSUME TypeOK, RetainsNewest, NEW id,
           NEW next \in [RequestState -> RequestState],
           records' = UpdateRecord(records, id, next), added' = added
    PROVE  RetainsNewest'
<1>1. /\ Len(records') = Len(records)
      /\ \A i \in 1..Len(records) : records'[i].id = records[i].id
  BY UpdateRecordProperties DEF TypeOK, StoreTypes
<1> QED BY <1>1 DEF RetainsNewest

\* An addition keeps the newest of what was there.
LEMMA AddRetains ==
    ASSUME TypeOK, RetainsNewest, NEW id \in Nat,
           records' = AddRecord(records, [id |-> id, state |-> "Connecting"]),
           added' = Append(added, id)
    PROVE  RetainsNewest'
<1> DEFINE rec == [id |-> id, state |-> "Connecting"]
<1>1. rec \in NetworkRecord /\ rec.id = id
  BY DEF NetworkRecord, RequestState
<1> HIDE DEF rec
<1>2. records' = AddRecord(records, rec)
  BY DEF rec
<1>3. /\ Len(records') = IF Len(records) = Capacity THEN Capacity ELSE Len(records) + 1
      /\ \A i \in 1..Len(records') :
            records'[i] = IF i = Len(records') THEN rec
                          ELSE records[i + Len(records) + 1 - Len(records')]
  <2>1. records \in Seq(NetworkRecord) /\ Len(records) <= Capacity
    BY DEF TypeOK, StoreTypes
  <2>2. /\ Len(AddRecord(records, rec)) =
               IF Len(records) = Capacity THEN Capacity ELSE Len(records) + 1
        /\ \A i \in 1..Len(AddRecord(records, rec)) :
              AddRecord(records, rec)[i] =
                  IF i = Len(AddRecord(records, rec)) THEN rec
                  ELSE records[i + Len(records) + 1 - Len(AddRecord(records, rec))]
    BY <1>1, <2>1, AddRecordProperties
  <2> QED BY <1>2, <2>2
<1>4. /\ Len(records) \in Nat /\ Len(added) \in Nat
      /\ Len(records) <= Capacity /\ Len(records) <= Len(added)
  BY CapacityType DEF TypeOK, StoreTypes, RetainsNewest
<1>5. /\ Len(added') = Len(added) + 1
      /\ added'[Len(added) + 1] = id
      /\ \A i \in 1..Len(added) : added'[i] = added[i]
  BY DEF TypeOK, StoreTypes
<1>6. Len(records') \in Nat /\ Len(added') \in Nat
  BY <1>3, <1>4, <1>5, CapacityType
<1>7. Len(records') = IF Len(added') <= Capacity THEN Len(added') ELSE Capacity
  BY <1>3, <1>4, <1>5, CapacityType DEF RetainsNewest
<1>8. ASSUME NEW i \in 1..Len(records')
      PROVE  records'[i].id = added'[Len(added') - Len(records') + i]
  <2>1. CASE i = Len(records')
    <3>1. records'[i].id = id
      BY <1>1, <1>3, <2>1
    <3>2. Len(added') - Len(records') + i = Len(added) + 1
      BY <1>4, <1>5, <1>6, <2>1
    <3> QED BY <1>5, <3>1, <3>2
  <2>2. CASE i # Len(records')
    <3> DEFINE j == i + Len(records) + 1 - Len(records')
    <3>1. j \in 1..Len(records)
      BY <1>3, <1>4, <2>2, CapacityType
    <3>2. records'[i].id = added[Len(added) - Len(records) + j]
      BY <1>3, <2>2, <3>1 DEF RetainsNewest
    <3>3. /\ Len(added) - Len(records) + j = Len(added') - Len(records') + i
          /\ Len(added) - Len(records) + j \in 1..Len(added)
      BY <1>3, <1>4, <1>5, <3>1, CapacityType
    <3> QED BY <1>5, <3>2, <3>3
  <2> QED BY <2>1, <2>2
<1> QED BY <1>7, <1>8 DEF RetainsNewest

\* The log and its history are empty at the start.
LEMMA RetainsInit == Init => RetainsNewest
<1> SUFFICES ASSUME Init PROVE RetainsNewest
  OBVIOUS
<1>1. Len(added) = 0 /\ Len(records) = 0
  BY DEF Init
<1> QED BY <1>1, CapacityType DEF RetainsNewest

\* Every step keeps the log the newest part of its history.
LEMMA RetainsNext ==
    TypeOK /\ ControlOK /\ RetainsNewest /\ [Next]_vars => RetainsNewest'
<1> SUFFICES ASSUME TypeOK, ControlOK, RetainsNewest, [Next]_vars PROVE RetainsNewest'
  OBVIOUS
<1>1. CASE UNCHANGED <<records, added>>
  BY <1>1 DEF RetainsNewest
<1>2. ASSUME NEW f \in Flows, NetStorageAdd(f) PROVE RetainsNewest'
  <2>1. reqId[f] \in Nat
    BY <1>2 DEF NetStorageAdd, InPlugin, TypeOK, FlowTypes, ControlOK, NoId
  <2> QED BY <1>2, <2>1, AddRetains DEF NetStorageAdd
<1>3. ASSUME NEW f \in Flows, NetStorageMarkSending(f) PROVE RetainsNewest'
  BY <1>3, UpdateRetains, StateMaps DEF NetStorageMarkSending
<1>4. ASSUME NEW f \in Flows, NEW direction \in DataDirection, RelayData(f, direction)
      PROVE  RetainsNewest'
  BY <1>4, UpdateRetains, StateMaps DEF RelayData
<1>5. ASSUME NEW f \in Flows, CloseTunnel(f) PROVE RetainsNewest'
  BY <1>5, UpdateRetains, StateMaps DEF CloseTunnel
<1> QED BY <1>1, <1>2, <1>3, <1>4, <1>5, LogSteps

\* The log is always the newest part of the history, in order
\* (store.rs:107-115), for any number of requests and any --max-records.
THEOREM LogRetainsNewest == Spec => []RetainsNewest
<1>1. Init => TypeOK /\ ControlOK /\ RetainsNewest
  BY TypeInit, RetainsInit
<1>2. TypeOK /\ ControlOK /\ RetainsNewest /\ [Next]_vars
          => (TypeOK /\ ControlOK /\ RetainsNewest)'
  BY TypeNext, RetainsNext
<1> QED BY <1>1, <1>2, PTL DEF Spec

-----------------------------------------------------------------------------
(* Entries and their requests.                                              *)

\* Where an HTTP request that has entered the log can stand.
EnteredPcs == {"marking", "upstream", "streaming", "done", "dropped"}

\* The history holds every id once, each drawn by an HTTP request that has
\* left the plugin chain or is in the second half of its last plugin.
AddedByRequest ==
    /\ \A i, j \in 1..Len(added) : added[i] = added[j] => i = j
    /\ \A i \in 1..Len(added) :
        \E f \in Flows : /\ reqId[f] = added[i]
                          /\ kind[f] = "http"
                          /\ pc[f] \in EnteredPcs

\* A request that has entered the log keeps its id and never comes back.
LEMMA EnteredStays ==
    ASSUME TypeOK, ControlOK, [Next]_vars, NEW g \in Flows,
           kind[g] = "http", reqId[g] # NoId, pc[g] \in EnteredPcs
    PROVE  kind'[g] = "http" /\ reqId'[g] = reqId[g] /\ pc'[g] \in EnteredPcs
<1> USE DEF TypeOK, FlowTypes, EnteredPcs
<1>1. CASE UNCHANGED vars
  BY <1>1 DEF vars
<1>2. ASSUME NEW f \in Flows, HttpStep(f)
      PROVE  kind'[g] = "http" /\ reqId'[g] = reqId[g] /\ pc'[g] \in EnteredPcs
  BY <1>2, ChainShape
     DEF HttpStep, AcceptHttp, DnsLookupFails, HandleWebSocket, HttpRequest, DrawId,
     BifrostHandleRequest, StatsHandleRequest, NetStorageAdd, NetStorageMarkSending,
     UpstreamReplies, BodyEnds, Goto, InPlugin, Continue, ControlOK
<1>3. ASSUME NEW f \in Flows, ConnectStep(f)
      PROVE  kind'[g] = "http" /\ reqId'[g] = reqId[g] /\ pc'[g] \in EnteredPcs
  BY <1>3 DEF ConnectStep, AcceptConnect, DrawId, CertReady, Dialled, StartTunnel,
     UpgradeFails, RelayData, CloseTunnel, Goto
<1>4. ASSUME NEW f \in Flows, ClientGone(f)
      PROVE  kind'[g] = "http" /\ reqId'[g] = reqId[g] /\ pc'[g] \in EnteredPcs
  BY <1>4 DEF ClientGone
<1> QED BY <1>1, <1>2, <1>3, <1>4 DEF Next

\* Only NetStorageAdd extends the history.
LEMMA OneAddition ==
    ASSUME [Next]_vars
    PROVE  UNCHANGED added \/ \E f \in Flows : NetStorageAdd(f)
BY LogSteps DEF NetStorageMarkSending, RelayData, CloseTunnel

\* Every step keeps the history a list of different ids of HTTP requests.
LEMMA AddedNext ==
    TypeOK /\ ControlOK /\ IdsOK /\ AddedByRequest /\ [Next]_vars => AddedByRequest'
<1> SUFFICES ASSUME TypeOK, ControlOK, IdsOK, AddedByRequest, [Next]_vars
             PROVE  AddedByRequest'
  OBVIOUS
<1>1. ASSUME NEW i \in 1..Len(added)
      PROVE  \E f \in Flows : /\ reqId'[f] = added[i]
                               /\ kind'[f] = "http"
                               /\ pc'[f] \in EnteredPcs
  <2>1. PICK f \in Flows : reqId[f] = added[i] /\ kind[f] = "http" /\ pc[f] \in EnteredPcs
    BY DEF AddedByRequest
  <2>2. added[i] \in Nat
    BY DEF TypeOK, StoreTypes
  <2>3. reqId[f] # NoId
    BY <2>1, <2>2 DEF NoId
  <2> QED BY <2>1, <2>3, EnteredStays
<1>2. CASE UNCHANGED added
  BY <1>1, <1>2 DEF AddedByRequest
<1>3. ASSUME NEW f \in Flows, NetStorageAdd(f) PROVE AddedByRequest'
  <2>1. /\ Len(added) \in Nat
        /\ Len(added') = Len(added) + 1
        /\ added'[Len(added) + 1] = reqId[f]
        /\ \A i \in 1..Len(added) : added'[i] = added[i]
    <3>1. reqId[f] \in Nat
      BY <1>3 DEF NetStorageAdd, InPlugin, TypeOK, FlowTypes, ControlOK, NoId
    <3> QED BY <1>3, <3>1 DEF NetStorageAdd, TypeOK, StoreTypes
  <2>2. /\ kind'[f] = "http" /\ reqId'[f] = reqId[f] /\ pc'[f] = "marking"
        /\ pc[f] = "chain" /\ reqId[f] # NoId
    BY <1>3, ChainShape
       DEF NetStorageAdd, InPlugin, Goto, TypeOK, FlowTypes, ControlOK
  <2>3. \A i \in 1..Len(added) : added[i] # reqId[f]
    BY <2>2 DEF AddedByRequest, IdsOK, DistinctIds, EnteredPcs
  <2>4. \A i, j \in 1..Len(added') : added'[i] = added'[j] => i = j
    BY <2>1, <2>3 DEF AddedByRequest
  <2>5. ASSUME NEW i \in 1..Len(added')
        PROVE  \E g \in Flows : /\ reqId'[g] = added'[i]
                                 /\ kind'[g] = "http"
                                 /\ pc'[g] \in EnteredPcs
    <3>1. CASE i = Len(added) + 1
      BY <2>1, <2>2, <3>1 DEF EnteredPcs
    <3>2. CASE i # Len(added) + 1
      BY <1>1, <2>1, <3>2
    <3> QED BY <3>1, <3>2
  <2> QED BY <2>4, <2>5 DEF AddedByRequest
<1> QED BY <1>2, <1>3, OneAddition

\* The ids of the log are ids of the history, so no two records share one.
LEMMA RecordIdsDistinct ==
    ASSUME TypeOK, RetainsNewest, AddedByRequest
    PROVE  /\ \A i, j \in 1..Len(records) : records[i].id = records[j].id => i = j
           /\ \A i \in 1..Len(records) :
                \E j \in 1..Len(added) : records[i].id = added[j]
<1>1. Len(records) \in Nat /\ Len(added) \in Nat /\ Len(records) <= Len(added)
  BY CapacityType DEF TypeOK, StoreTypes, RetainsNewest
<1>2. \A i \in 1..Len(records) :
        /\ Len(added) - Len(records) + i \in 1..Len(added)
        /\ records[i].id = added[Len(added) - Len(records) + i]
  BY <1>1 DEF RetainsNewest
<1>3. \A i, j \in 1..Len(records) : records[i].id = records[j].id => i = j
  <2> SUFFICES ASSUME NEW i \in 1..Len(records), NEW j \in 1..Len(records),
                      records[i].id = records[j].id
               PROVE  i = j
    OBVIOUS
  <2>1. \A k, m \in 1..Len(added) : added[k] = added[m] => k = m
    BY DEF AddedByRequest
  <2>2. /\ Len(added) - Len(records) + i \in 1..Len(added)
        /\ Len(added) - Len(records) + j \in 1..Len(added)
        /\ added[Len(added) - Len(records) + i] = added[Len(added) - Len(records) + j]
    BY <1>2
  <2>3. Len(added) - Len(records) + i = Len(added) - Len(records) + j
    BY <2>1, <2>2
  <2> QED BY <1>1, <2>3
<1> QED BY <1>2, <1>3

\* What RecordMatchesRequest says of one entry and one flow.
Matches(f, rec) ==
    /\ kind[f] = "http"
    /\ reqId[f] = rec.id
    /\ rec.state = StateOfOwner(f)
    /\ rec.state = "Connecting" => pc[f] \in {"marking", "dropped"}

\* RecordMatchesRequest, one entry at a time.
LEMMA MatchesAll ==
    RecordMatchesRequest
        <=> \A i \in 1..Len(records) : \E f \in Flows : Matches(f, records[i])
BY DEF RecordMatchesRequest, Owner, Matches

\* The invariant the remaining theorems rest on.
ProxyInv ==
    /\ TypeOK
    /\ ControlOK
    /\ IdsOK
    /\ RetainsNewest
    /\ AddedByRequest
    /\ RecordMatchesRequest

\* The request of an entry has an id and has entered the log.
LEMMA OwnerEntered ==
    ASSUME TypeOK, ControlOK, NEW i \in 1..Len(records),
           NEW f \in Flows, Matches(f, records[i])
    PROVE  /\ records[i] \in NetworkRecord
           /\ reqId[f] # NoId
           /\ pc[f] \in EnteredPcs
<1>1. records[i] \in NetworkRecord
  BY DEF TypeOK, StoreTypes
<1>2. records[i].id \in Nat
  BY <1>1 DEF NetworkRecord
<1>3. reqId[f] # NoId
  BY <1>2 DEF Matches, NoId
<1>4. at[f] \in 1..4
  BY ChainShape DEF TypeOK, FlowTypes
<1>5. ASSUME at[f] = 4 PROVE pc[f] \in EnteredPcs
  <2>1. pc[f] \in Pcs
    BY DEF TypeOK, FlowTypes
  <2>2. pc[f] \notin {"idle", "dns", "chain"} \cup TunnelPcs
    BY <1>5 DEF ControlOK
  <2> QED BY <2>1, <2>2 DEF Pcs, EnteredPcs, TunnelPcs
<1>6. ASSUME at[f] # 4 PROVE pc[f] \in EnteredPcs
  <2>1. ~(at[f] > Len(PluginChain))
    BY <1>4, <1>6, ChainShape
  <2> QED BY <2>1 DEF Matches, StateOfOwner, EnteredPcs
<1> QED BY <1>1, <1>3, <1>5, <1>6

\* Only the second step of NetStorage moves such a request forward.
LEMMA OwnerKeepsItsPlace ==
    ASSUME TypeOK, ControlOK, [Next]_vars, NEW g \in Flows, pc[g] \in EnteredPcs
    PROVE  \/ NetStorageMarkSending(g)
           \/ /\ at'[g] = at[g]
              /\ pc[g] \in {"marking", "dropped"} => pc'[g] \in {"marking", "dropped"}
<1> DEFINE Stays == /\ at'[g] = at[g]
                    /\ pc[g] \in {"marking", "dropped"} => pc'[g] \in {"marking", "dropped"}
<1> USE DEF TypeOK, FlowTypes, EnteredPcs
<1>1. CASE UNCHANGED vars
  BY <1>1 DEF vars
<1>2. ASSUME NEW f \in Flows, HttpStep(f) PROVE NetStorageMarkSending(g) \/ Stays
  <2>1. CASE f = g /\ NetStorageMarkSending(f)
    BY <2>1
  <2>2. CASE ~(f = g /\ NetStorageMarkSending(f))
    BY <1>2, <2>2, ChainShape
       DEF HttpStep, AcceptHttp, DnsLookupFails, HandleWebSocket, HttpRequest,
       BifrostHandleRequest, StatsHandleRequest, NetStorageAdd, NetStorageMarkSending,
       UpstreamReplies, BodyEnds, Goto, InPlugin, Continue
  <2> QED BY <2>1, <2>2
<1>3. ASSUME NEW f \in Flows, ConnectStep(f) PROVE Stays
  BY <1>3
     DEF ConnectStep, AcceptConnect, CertReady, Dialled, StartTunnel, UpgradeFails,
     RelayData, CloseTunnel, Goto
<1>4. ASSUME NEW f \in Flows, ClientGone(f) PROVE Stays
  BY <1>4 DEF ClientGone
<1> QED BY <1>1, <1>2, <1>3, <1>4 DEF Next

\* Unless NetStorage marks the request of an entry, the entry stays true.
LEMMA MatchStays ==
    ASSUME TypeOK, ControlOK, [Next]_vars, NEW i \in 1..Len(records),
           NEW rec, rec = records[i],
           NEW g \in Flows, Matches(g, rec), ~NetStorageMarkSending(g)
    PROVE  Matches(g, rec)'
<1>1. reqId[g] # NoId /\ pc[g] \in EnteredPcs
  BY OwnerEntered
<1>2. kind'[g] = "http" /\ reqId'[g] = reqId[g]
  BY <1>1, EnteredStays DEF Matches
<1>3. /\ at'[g] = at[g]
      /\ pc[g] \in {"marking", "dropped"} => pc'[g] \in {"marking", "dropped"}
  BY <1>1, OwnerKeepsItsPlace
<1> QED BY <1>2, <1>3 DEF Matches, StateOfOwner

\* No record carries the id of a tunnel.
LEMMA TunnelHasNoRecord ==
    ASSUME ProxyInv, NEW f \in Flows, pc[f] = "relay"
    PROVE  \A i \in 1..Len(records) : records[i].id # reqId[f]
<1> SUFFICES ASSUME NEW i \in 1..Len(records), records[i].id = reqId[f] PROVE FALSE
  OBVIOUS
<1>1. PICK g \in Flows : Matches(g, records[i])
  BY MatchesAll DEF ProxyInv
<1>2. reqId[g] # NoId /\ kind[g] = "http" /\ reqId[g] = reqId[f]
  BY <1>1, OwnerEntered DEF ProxyInv, Matches
<1>3. g = f
  BY <1>2 DEF ProxyInv, IdsOK, DistinctIds
<1>4. kind[f] = "connect"
  BY DEF ProxyInv, ControlOK, TunnelPcs
<1> QED BY <1>2, <1>3, <1>4

\* The calls of the tunnels leave the log as it is.
LEMMA TunnelKeepsLog ==
    ASSUME ProxyInv, NEW f \in Flows,
           (\E direction \in DataDirection : RelayData(f, direction)) \/ CloseTunnel(f)
    PROVE  records' = records /\ added' = added
<1>1. pc[f] = "relay" /\ records \in Seq(NetworkRecord)
  BY DEF RelayData, CloseTunnel, Goto, ProxyInv, TypeOK, StoreTypes
<1>2. \A next \in [RequestState -> RequestState] :
        UpdateRecord(records, reqId[f], next) = records
  BY <1>1, TunnelHasNoRecord, UpdateUnknownId
<1> QED BY <1>2, StateMaps DEF RelayData, CloseTunnel

\* Marking changes the entry of the request itself, if it is still there, and
\* nothing else.
LEMMA MarkingIsExact ==
    ASSUME ProxyInv, NEW f \in Flows, NetStorageMarkSending(f)
    PROVE  /\ records' \in Seq(NetworkRecord)
           /\ Len(records') = Len(records)
           /\ \A i \in 1..Len(records) :
                /\ records[i].id # reqId[f] => records'[i] = records[i]
                /\ records[i].id = reqId[f] =>
                     /\ Matches(f, records[i]) /\ records[i].state = "Connecting"
                     /\ records'[i].id = reqId[f]
                     /\ records'[i].state = "Sending"
<1>1. /\ records \in Seq(NetworkRecord)
      /\ records' = UpdateRecord(records, reqId[f], ToSending)
      /\ pc[f] = "marking"
  BY DEF NetStorageMarkSending, ProxyInv, TypeOK, StoreTypes
<1>2. /\ records' \in Seq(NetworkRecord)
      /\ Len(records') = Len(records)
      /\ \A i \in 1..Len(records) :
            /\ records'[i].id = records[i].id
            /\ FirstWithId(records, reqId[f], i)
                   => records'[i].state = ToSending[records[i].state]
            /\ ~FirstWithId(records, reqId[f], i) => records'[i] = records[i]
  BY <1>1, UpdateRecordProperties, StateMaps
<1>3. ASSUME NEW i \in 1..Len(records), records[i].id # reqId[f]
      PROVE  records'[i] = records[i]
  BY <1>2, <1>3 DEF FirstWithId
<1>4. ASSUME NEW i \in 1..Len(records), records[i].id = reqId[f]
      PROVE  /\ Matches(f, records[i]) /\ records[i].state = "Connecting"
             /\ records'[i].id = reqId[f]
             /\ records'[i].state = "Sending"
  <2>1. PICK g \in Flows : Matches(g, records[i])
    BY MatchesAll DEF ProxyInv
  <2>2. reqId[g] # NoId /\ reqId[g] = reqId[f] /\ records[i] \in NetworkRecord
    BY <1>4, <2>1, OwnerEntered DEF ProxyInv, Matches
  <2>3. g = f
    BY <2>2 DEF ProxyInv, IdsOK, DistinctIds
  <2>4. at[f] = 3
    BY <1>1 DEF ProxyInv, ControlOK
  <2>5. records[i].state = "Connecting"
    BY <2>1, <2>3, <2>4, ChainShape DEF Matches, StateOfOwner
  <2>6. Len(records) \in Nat
    BY <1>1
  <2>7. FirstWithId(records, reqId[f], i)
    BY <1>4, <2>6, RecordIdsDistinct DEF FirstWithId, ProxyInv
  <2>8. records'[i].state = "Sending"
    BY <1>2, <2>5, <2>7 DEF ToSending, RequestState
  <2> QED BY <1>2, <1>4, <2>1, <2>3, <2>5, <2>8
<1> QED BY <1>2, <1>3, <1>4

\* Every step keeps the entries true of the requests they belong to.
LEMMA MatchesNext == ProxyInv /\ [Next]_vars => RecordMatchesRequest'
<1> SUFFICES ASSUME ProxyInv, [Next]_vars PROVE RecordMatchesRequest'
  OBVIOUS
<1> USE DEF ProxyInv
<1>1. TypeOK' /\ ControlOK'
  BY TypeNext
<1>2. \A i \in 1..Len(records) : \E g \in Flows : Matches(g, records[i])
  BY MatchesAll
<1>3. ASSUME NEW f \in Flows, NetStorageMarkSending(f), NEW i \in 1..Len(records')
      PROVE  \E g \in Flows : Matches(g, records[i])'
  <2>1. Len(records') = Len(records)
    BY <1>3, MarkingIsExact
  <2>2. CASE records[i].id = reqId[f]
    <3>1. kind[f] = "http" /\ records'[i].id = reqId[f] /\ records'[i].state = "Sending"
      BY <1>3, <2>1, <2>2, MarkingIsExact DEF Matches
    <3>2. at'[f] = 4 /\ kind'[f] = kind[f] /\ reqId'[f] = reqId[f]
      BY <1>3 DEF NetStorageMarkSending, Continue, ControlOK, TypeOK, FlowTypes
    <3>3. Matches(f, records[i])'
      BY <3>1, <3>2, ChainShape DEF Matches, StateOfOwner
    <3> QED BY <3>3
  <2>3. CASE records[i].id # reqId[f]
    <3>1. records'[i] = records[i]
      BY <1>3, <2>1, <2>3, MarkingIsExact
    <3>2. PICK g \in Flows : Matches(g, records[i])
      BY <1>2, <2>1
    <3>3. g # f
      BY <2>3, <3>2 DEF Matches
    <3>4. /\ kind'[g] = kind[g] /\ reqId'[g] = reqId[g]
          /\ at'[g] = at[g] /\ pc'[g] = pc[g]
      BY <1>3, <3>3 DEF NetStorageMarkSending, Continue, TypeOK, FlowTypes
    <3>5. Matches(g, records[i])'
      BY <3>1, <3>2, <3>4 DEF Matches, StateOfOwner
    <3> QED BY <3>5
  <2> QED BY <2>2, <2>3
<1>4. ASSUME \A f \in Flows : ~NetStorageMarkSending(f), NEW j \in 1..Len(records),
             NEW i \in 1..Len(records'), records'[i] = records[j]
      PROVE  \E g \in Flows : Matches(g, records[i])'
  <2>1. PICK g \in Flows : Matches(g, records[j])
    BY <1>2
  <2>2. Matches(g, records[i])'
    <3>1. PICK r : r = records[j]
      OBVIOUS
    <3>2. Matches(g, r)'
      BY <1>4, <2>1, <3>1, MatchStays
    <3> QED BY <1>4, <3>1, <3>2 DEF Matches
  <2> QED BY <2>2
<1>5. ASSUME \A f \in Flows : ~NetStorageMarkSending(f), records' = records,
             NEW i \in 1..Len(records')
      PROVE  \E g \in Flows : Matches(g, records[i])'
  BY <1>4, <1>5
<1>6. ASSUME \A g \in Flows : ~NetStorageMarkSending(g), NEW f \in Flows,
             NetStorageAdd(f), NEW i \in 1..Len(records')
      PROVE  \E g \in Flows : Matches(g, records[i])'
  <2> DEFINE rec == [id |-> reqId[f], state |-> "Connecting"]
  <2>1. /\ reqId[f] \in Nat /\ at[f] = 3 /\ kind[f] = "http"
        /\ at'[f] = at[f] /\ kind'[f] = kind[f] /\ reqId'[f] = reqId[f]
        /\ pc'[f] = "marking"
    BY <1>6, ChainShape
       DEF NetStorageAdd, InPlugin, Goto, TypeOK, FlowTypes, ControlOK, NoId
  <2>2. rec \in NetworkRecord
    BY <2>1 DEF NetworkRecord, RequestState
  <2>3. records' = AddRecord(records, rec)
    BY <1>6 DEF NetStorageAdd
  <2>4. rec.id = reqId[f] /\ rec.state = "Connecting"
    OBVIOUS
  <2> HIDE DEF rec
  <2>5. /\ records \in Seq(NetworkRecord) /\ Len(records) <= Capacity
        /\ Len(records) \in Nat
    BY DEF TypeOK, StoreTypes
  <2>6. /\ Len(AddRecord(records, rec)) =
               IF Len(records) = Capacity THEN Capacity ELSE Len(records) + 1
        /\ \A j \in 1..Len(AddRecord(records, rec)) :
              AddRecord(records, rec)[j] =
                  IF j = Len(AddRecord(records, rec)) THEN rec
                  ELSE records[j + Len(records) + 1 - Len(AddRecord(records, rec))]
    BY <2>2, <2>5, AddRecordProperties
  <2>7. CASE i = Len(records')
    <3>1. records'[i] = rec
      BY <2>3, <2>6, <2>7
    <3>2. Matches(f, records[i])'
      BY <2>1, <2>4, <3>1, ChainShape DEF Matches, StateOfOwner
    <3> QED BY <3>2
  <2>8. CASE i # Len(records')
    <3> DEFINE j == i + Len(records) + 1 - Len(records')
    <3>1. j \in 1..Len(records)
      BY <2>3, <2>5, <2>6, <2>8, CapacityType
    <3>2. records'[i] = records[j]
      BY <2>3, <2>6, <2>8
    <3> QED BY <1>4, <1>6, <3>1, <3>2
  <2> QED BY <2>7, <2>8
<1>7. \A i \in 1..Len(records') : \E g \in Flows : Matches(g, records[i])'
  BY <1>3, <1>5, <1>6, LogSteps, TunnelKeepsLog
<1> QED BY <1>7 DEF RecordMatchesRequest, Owner, Matches

\* The inductive invariant holds initially.
LEMMA ProxyInvInit == Init => ProxyInv
<1> SUFFICES ASSUME Init PROVE ProxyInv
  OBVIOUS
<1>1. Len(added) = 0 /\ Len(records) = 0
  BY DEF Init
<1>2. AddedByRequest /\ RecordMatchesRequest
  BY <1>1 DEF AddedByRequest, RecordMatchesRequest
<1> QED BY <1>2, TypeInit, IdsInit, RetainsInit DEF ProxyInv

\* Every step keeps the inductive invariant.
LEMMA ProxyInvNext == ProxyInv /\ [Next]_vars => ProxyInv'
BY TypeNext, IdsNext, RetainsNext, AddedNext, MatchesNext DEF ProxyInv

\* The inductive invariant holds for every number of flows and any
\* configuration: the theorems on records and on counters follow from it.
THEOREM ProxyInvariant == Spec => []ProxyInv
BY ProxyInvInit, ProxyInvNext, PTL DEF Spec

\* Every record is about one HTTP request of the process and tells how far it
\* got; evictions and tunnels never make it tell about another one
\* (net_storage.rs:143-151, 218-278).
THEOREM RecordsMatchRequests == Spec => []RecordMatchesRequest
<1>1. ProxyInv => RecordMatchesRequest
  BY DEF ProxyInv
<1> QED BY <1>1, ProxyInvariant, PTL

\* Nothing the program does ever completes a record: only tunnels reach the
\* code that would, and their ids have no record (net_storage.rs:269-278).
THEOREM NoRecordIsCompleted ==
    Spec => [](\A i \in 1..Len(records) : records[i].state # "Completed")
<1>1. RecordMatchesRequest => \A i \in 1..Len(records) : records[i].state # "Completed"
  BY DEF RecordMatchesRequest, StateOfOwner
<1> QED BY <1>1, RecordsMatchRequests, PTL

\* The page is a function of the log: its length is the smaller of two, its
\* entries are the log read backwards.
LEMMA PageOfLog ==
    ASSUME ProxyInv, NEW limit \in Nat
    PROVE  /\ PageSize(limit) \in Nat
           /\ PageSize(limit) <= Len(records) /\ PageSize(limit) <= limit
           /\ PageSize(limit) \in {Len(records), limit}
           /\ Len(GetRecord(limit)) = PageSize(limit)
<1>1. Len(records) \in Nat
  BY DEF ProxyInv, TypeOK, StoreTypes
<1>2. /\ PageSize(limit) \in Nat
      /\ PageSize(limit) <= Len(records) /\ PageSize(limit) <= limit
      /\ PageSize(limit) \in {Len(records), limit}
  BY <1>1 DEF PageSize
<1>3. Len(GetRecord(limit)) = PageSize(limit)
  BY <1>2 DEF GetRecord
<1> QED
  BY <1>2, <1>3

\* In every state of the invariant a page of any length shows the newest
\* requests, latest first, in the states of their handlers.
LEMMA InvariantGivesPage ==
    ASSUME ProxyInv, NEW limit \in Nat
    PROVE  ShowsNewest(GetRecord(limit), limit)
<1> DEFINE page == GetRecord(limit)
<1>1. /\ records \in Seq(NetworkRecord) /\ Len(records) \in Nat
      /\ Len(added) \in Nat /\ Capacity \in Nat
  BY CapacityType DEF ProxyInv, TypeOK, StoreTypes
<1>2. /\ PageSize(limit) \in Nat
      /\ PageSize(limit) <= Len(records) /\ PageSize(limit) <= limit
      /\ PageSize(limit) \in {Len(records), limit}
      /\ Len(page) = PageSize(limit)
  BY PageOfLog
<1>3. /\ Len(records) \in {Len(added), Capacity}
      /\ Len(records) <= Len(added) /\ Len(records) <= Capacity
  BY <1>1 DEF ProxyInv, RetainsNewest
<1>4. /\ Len(page) \in {limit, Len(added), Capacity}
      /\ \A n \in {limit, Len(added), Capacity} : Len(page) <= n
  BY <1>1, <1>2, <1>3
<1>5. ASSUME NEW i \in 1..Len(page)
      PROVE  \E f \in Flows :
                /\ kind[f] = "http" /\ reqId[f] = added[Len(added) + 1 - i]
                /\ page[i] = [id |-> reqId[f], state |-> StateOfOwner(f)]
  <2> DEFINE k == Len(records) + 1 - i
  <2>1. i \in 1..PageSize(limit) /\ k \in 1..Len(records)
    BY <1>1, <1>2
  <2>2. page[i] = records[k]
    BY <2>1 DEF GetRecord
  <2>3. records[k].id = added[Len(added) - Len(records) + k]
    BY <2>1 DEF ProxyInv, RetainsNewest
  <2>4. Len(added) - Len(records) + k = Len(added) + 1 - i
    BY <1>1, <2>1
  <2>5. PICK f \in Flows : Owner(f, k) /\ records[k].state = StateOfOwner(f)
    BY <2>1 DEF ProxyInv, RecordMatchesRequest
  <2> HIDE DEF k, page
  <2>6. records[k] = [id |-> records[k].id, state |-> records[k].state]
    <3>1. records[k] \in NetworkRecord
      BY <1>1, <2>1
    <3> QED
      BY <3>1 DEF NetworkRecord
  <2>7. kind[f] = "http" /\ reqId[f] = records[k].id
    BY <2>5 DEF Owner
  <2>8. reqId[f] = added[Len(added) + 1 - i]
    BY <2>3, <2>4, <2>7
  <2>9. page[i] = [id |-> reqId[f], state |-> StateOfOwner(f)]
    BY <2>2, <2>5, <2>6, <2>7
  <2> QED
    BY <2>7, <2>8, <2>9
<1> QED
  BY <1>4, <1>5 DEF ShowsNewest

\* /get_record always shows the newest requests, latest first, in their own
\* states, for every length of the page (bifrost_server.rs:104-123).
THEOREM PageIsNewest == Spec => []PageShowsNewest
<1>1. ProxyInv => PageShowsNewest
  <2>1. 1..PageLength \subseteq Nat
    BY ProxyAssumption
  <2> QED
    BY <2>1, InvariantGivesPage DEF PageShowsNewest
<1> QED
  BY <1>1, ProxyInvariant, PTL

\* The log keeps to --max-records unless the option is 0: what main.rs:46 says
\* of it holds of every other value.
THEOREM LogWithinLimit ==
    ASSUME MaxRecords # 0
    PROVE  Spec => []AtMostMaxRecords
<1>1. TypeOK => AtMostMaxRecords
  BY DEF TypeOK, StoreTypes, Capacity, AtMostMaxRecords
<1> QED
  BY <1>1, TypeCorrect, PTL

-----------------------------------------------------------------------------
(* The store and NetStorage implement RecordLog.                            *)

\* An id that is drawn is one of the ids the log may be asked to enter.
LEMMA DrawnIds ==
    ASSUME ProxyInv, NEW f \in Flows, reqId[f] # NoId
    PROVE  reqId[f] \in RequestIds
<1>1. reqId[f] \in Nat /\ reqId[f] < nextId /\ nextId = Cardinality(Drawn)
  BY DEF ProxyInv, TypeOK, FlowTypes, IdsOK, DistinctIds
<1>2. /\ Cardinality(Flows) \in Nat
      /\ Cardinality(Drawn) \in Nat
      /\ Cardinality(Drawn) <= Cardinality(Flows)
  <2>1. Drawn \subseteq Flows
    BY DEF Drawn
  <2>2. IsFiniteSet(Drawn) /\ Cardinality(Drawn) <= Cardinality(Flows)
    BY <2>1, ProxyAssumption, FS_Subset
  <2> QED BY <2>2, ProxyAssumption, FS_CardinalityType
<1> QED BY <1>1, <1>2 DEF RequestIds

\* An addition that evicts is an addition followed by the loss of the oldest.
LEMMA AddRecordTrims ==
    ASSUME NEW rs \in Seq(NetworkRecord), Len(rs) <= Capacity,
           NEW rec \in NetworkRecord
    PROVE  AddRecord(rs, rec) = Log!Trim(Append(rs, rec))
<1> DEFINE long == Append(rs, rec)
<1>1. /\ Len(rs) \in Nat /\ Capacity \in Nat
      /\ long \in Seq(NetworkRecord)
      /\ Len(long) = Len(rs) + 1
      /\ \A i \in 1..Len(long) : long[i] = IF i = Len(long) THEN rec ELSE rs[i]
  BY CapacityType
<1>2. /\ AddRecord(rs, rec) \in Seq(NetworkRecord)
      /\ Len(AddRecord(rs, rec)) = IF Len(rs) = Capacity THEN Capacity ELSE Len(rs) + 1
      /\ \A i \in 1..Len(AddRecord(rs, rec)) :
            AddRecord(rs, rec)[i] =
                IF i = Len(AddRecord(rs, rec)) THEN rec
                ELSE rs[i + Len(rs) + 1 - Len(AddRecord(rs, rec))]
  BY AddRecordProperties
<1> HIDE DEF long
<1>3. CASE Len(rs) = Capacity
  <2>1. long # <<>> /\ Log!Trim(long) = Tail(long)
    BY <1>1, <1>3 DEF Log!Trim
  <2>2. /\ Tail(long) \in Seq(NetworkRecord)
        /\ Len(Tail(long)) = Len(long) - 1
        /\ \A i \in 1..Len(Tail(long)) : Tail(long)[i] = long[i + 1]
    BY <1>1, <2>1, HeadTailProperties
  <2>3. Len(Tail(long)) = Len(AddRecord(rs, rec))
    BY <1>1, <1>2, <1>3, <2>2
  <2>4. ASSUME NEW i \in 1..Len(AddRecord(rs, rec))
        PROVE  AddRecord(rs, rec)[i] = Tail(long)[i]
    <3>1. i \in 1..Len(rs) /\ i + 1 \in 1..Len(long) /\ Len(AddRecord(rs, rec)) = Len(rs)
      BY <1>1, <1>2, <1>3
    <3>2. Tail(long)[i] = long[i + 1]
      BY <1>1, <2>2, <3>1
    <3>3. CASE i = Len(rs)
      BY <1>1, <1>2, <3>1, <3>2, <3>3
    <3>4. CASE i # Len(rs)
      <4>1. i + Len(rs) + 1 - Len(AddRecord(rs, rec)) = i + 1
        BY <1>1, <3>1
      <4>2. AddRecord(rs, rec)[i] = rs[i + 1]
        BY <1>2, <3>1, <3>4, <4>1
      <4>3. i + 1 # Len(long)
        BY <1>1, <3>1, <3>4
      <4> QED BY <1>1, <3>1, <3>2, <4>2, <4>3
    <3> QED BY <3>3, <3>4
  <2>5. AddRecord(rs, rec) = Tail(long)
    BY <1>2, <2>2, <2>3, <2>4, SeqEqual
  <2> QED BY <2>1, <2>5 DEF long
<1>4. CASE Len(rs) # Capacity
  <2>1. Log!Trim(long) = long
    BY <1>1, <1>4 DEF Log!Trim
  <2>2. ASSUME NEW i \in 1..Len(AddRecord(rs, rec)) PROVE AddRecord(rs, rec)[i] = long[i]
    <3>1. Len(AddRecord(rs, rec)) = Len(rs) + 1 /\ i \in 1..Len(long)
      BY <1>1, <1>2, <1>4
    <3>2. CASE i = Len(rs) + 1
      BY <1>1, <1>2, <3>1, <3>2
    <3>3. CASE i # Len(rs) + 1
      <4>1. i + Len(rs) + 1 - Len(AddRecord(rs, rec)) = i
        BY <1>1, <3>1
      <4>2. AddRecord(rs, rec)[i] = rs[i]
        BY <1>2, <3>1, <3>3, <4>1
      <4> QED BY <1>1, <3>1, <3>3, <4>2
    <3> QED BY <3>2, <3>3
  <2>3. AddRecord(rs, rec) = long
    BY <1>1, <1>2, <1>4, <2>2, SeqEqual
  <2> QED BY <2>1, <2>3 DEF long
<1> QED BY <1>3, <1>4

\* NetStorageAdd is Enter.
LEMMA AddIsEnter ==
    ASSUME ProxyInv, NEW f \in Flows, NetStorageAdd(f)
    PROVE  Log!Enter(reqId[f]) /\ reqId[f] \in RequestIds
<1>1. /\ pc[f] = "chain" /\ reqId[f] # NoId /\ reqId[f] \in Nat
      /\ added' = Append(added, reqId[f])
      /\ records' = AddRecord(records, [id |-> reqId[f], state |-> "Connecting"])
  BY DEF NetStorageAdd, InPlugin, ProxyInv, TypeOK, FlowTypes, ControlOK, NoId
<1>2. [id |-> reqId[f], state |-> "Connecting"] \in NetworkRecord
  BY <1>1 DEF NetworkRecord, RequestState
<1>3. records' = Log!Trim(Append(records, [id |-> reqId[f], state |-> "Connecting"]))
  BY <1>1, <1>2, AddRecordTrims DEF ProxyInv, TypeOK, StoreTypes
<1>4. \A i \in DOMAIN added : added[i] # reqId[f]
  <2>1. DOMAIN added = 1..Len(added)
    BY DEF ProxyInv, TypeOK, StoreTypes
  <2> QED BY <1>1, <2>1 DEF ProxyInv, AddedByRequest, IdsOK, DistinctIds, EnteredPcs
<1> QED BY <1>1, <1>3, <1>4, DrawnIds DEF Log!Enter

\* NetStorageMarkSending is Advance, or nothing if the entry is gone.
LEMMA MarkIsAdvance ==
    ASSUME ProxyInv, NEW f \in Flows, NetStorageMarkSending(f)
    PROVE  \/ UNCHANGED <<added, records>>
           \/ \E i \in DOMAIN records : Log!Advance(i, "Sending")
<1>1. records \in Seq(NetworkRecord) /\ added' = added
  BY DEF NetStorageMarkSending, ProxyInv, TypeOK, StoreTypes
<1>2. /\ records' \in Seq(NetworkRecord)
      /\ Len(records') = Len(records)
      /\ \A i \in 1..Len(records) :
            /\ records[i].id # reqId[f] => records'[i] = records[i]
            /\ records[i].id = reqId[f] =>
                 /\ records[i].state = "Connecting"
                 /\ records'[i].id = reqId[f]
                 /\ records'[i].state = "Sending"
  BY MarkingIsExact
<1>3. CASE \A i \in 1..Len(records) : records[i].id # reqId[f]
  BY <1>1, <1>2, <1>3, SeqEqual
<1>4. ASSUME NEW i \in 1..Len(records), records[i].id = reqId[f]
      PROVE  i \in DOMAIN records /\ Log!Advance(i, "Sending")
  <2>1. DOMAIN records = 1..Len(records) /\ DOMAIN records' = 1..Len(records)
    BY <1>1, <1>2
  <2>2. records[i] \in NetworkRecord /\ records'[i] \in NetworkRecord
    BY <1>1, <1>2
  <2>3. records'[i] = [records[i] EXCEPT !.state = "Sending"]
    BY <1>2, <1>4, <2>2 DEF NetworkRecord
  <2>4. \A j \in 1..Len(records) : j # i => records'[j] = records[j]
    BY <1>2, <1>4, RecordIdsDistinct DEF ProxyInv
  <2>5. records' = [records EXCEPT ![i].state = "Sending"]
    <3> DEFINE other == [records EXCEPT ![i] = [records[i] EXCEPT !.state = "Sending"]]
    <3>1. /\ other \in Seq(NetworkRecord) /\ Len(other) = Len(records)
          /\ \A j \in 1..Len(records) : other[j] = IF j = i THEN records'[i] ELSE records[j]
      BY <1>1, <2>2, <2>3, ExceptSeq
    <3>2. records' = other
      BY <1>2, <2>4, <3>1, SeqEqual
    <3> QED BY <3>2
  <2>6. Log!Rank(records[i].state) < Log!Rank("Sending")
    <3>1. records[i].state = "Connecting"
      BY <1>2, <1>4
    <3>2. Log!Rank("Connecting") = 1 /\ Log!Rank("Sending") = 2
      BY DEF Log!Rank
    <3> QED BY <3>1, <3>2
  <2> QED BY <1>1, <2>1, <2>5, <2>6 DEF Log!Advance
<1> QED BY <1>3, <1>4

\* Every step of the proxy is a step of the log or a stutter of it.
LEMMA StepRefines == ProxyInv /\ [Next]_vars => [Log!LogNext]_(Log!logVars)
<1> SUFFICES ASSUME ProxyInv, [Next]_vars
             PROVE  Log!LogNext \/ UNCHANGED Log!logVars
  OBVIOUS
<1> USE DEF Log!logVars
<1>1. CASE UNCHANGED <<records, added>>
  BY <1>1
<1>2. ASSUME NEW f \in Flows, NetStorageAdd(f) PROVE Log!LogNext
  BY <1>2, AddIsEnter DEF Log!LogNext
<1>3. ASSUME NEW f \in Flows, NetStorageMarkSending(f)
      PROVE  Log!LogNext \/ UNCHANGED Log!logVars
  BY <1>3, MarkIsAdvance DEF Log!LogNext
<1>4. ASSUME NEW f \in Flows,
             (\E direction \in DataDirection : RelayData(f, direction)) \/ CloseTunnel(f)
      PROVE  UNCHANGED Log!logVars
  BY <1>4, TunnelKeepsLog
<1> QED BY <1>1, <1>2, <1>3, <1>4, LogSteps

\* The records kept by the store and filled by NetStorage are a RecordLog: one
\* entry per request, entered once, moved only forward, forgotten oldest first.
THEOREM ProxyImplementsRecordLog == Spec => ImplementsRecordLog
<1>1. Init => Log!LogInit
  BY DEF Init, Log!LogInit
<1>2. ProxyInv /\ [Next]_vars => [Log!LogNext]_(Log!logVars)
  BY StepRefines
<1>3. Spec => Log!LogSpec
  BY <1>1, <1>2, ProxyInvariant, PTL DEF Spec, Log!LogSpec
<1> QED BY <1>3 DEF ImplementsRecordLog

\* The rank of a state is a number.
LEMMA RankType == \A s : Log!Rank(s) \in Nat /\ Log!Rank(s) <= Log!Rank(s)
<1>1. \A s : Log!Rank(s) \in {1, 2, 3, 4}
  BY DEF Log!Rank
<1>2. \A n \in {1, 2, 3, 4} : n \in Nat /\ n <= n
  OBVIOUS
<1> QED BY <1>1, <1>2

\* An entry of a log that a new one was entered into was there before, unless
\* it is the new one.
LEMMA EnteredOrOld ==
    ASSUME NEW rs \in Seq(NetworkRecord), NEW rec \in NetworkRecord,
           NEW i \in DOMAIN Log!Trim(Append(rs, rec))
    PROVE  \/ Log!Trim(Append(rs, rec))[i] = rec
           \/ \E j \in DOMAIN rs : Log!Trim(Append(rs, rec))[i] = rs[j]
<1> DEFINE log == Append(rs, rec)
           n == Len(rs)
<1>1. /\ n \in Nat /\ DOMAIN rs = 1..n
      /\ log \in Seq(NetworkRecord) /\ Len(log) = n + 1 /\ DOMAIN log = 1..(n + 1)
      /\ log[n + 1] = rec /\ \A j \in 1..n : log[j] = rs[j]
  BY AppendProperties, LenProperties
<1>2. \A j \in 1..(n + 1) : log[j] = rec \/ \E k \in DOMAIN rs : log[j] = rs[k]
  BY <1>1
<1>3. CASE Log!Trim(log) = log
  BY <1>1, <1>2, <1>3
<1>4. CASE Log!Trim(log) = Tail(log)
  <2>1. log # <<>>
    BY <1>1, EmptySeq
  <2>2. /\ Len(Tail(log)) = Len(log) - 1 /\ Tail(log) \in Seq(NetworkRecord)
        /\ \A j \in 1..Len(Tail(log)) : Tail(log)[j] = log[j + 1]
    BY <1>1, <2>1, HeadTailProperties
  <2> HIDE DEF log, n
  <2>3. i \in 1..n
    BY <1>1, <1>4, <2>2, LenProperties DEF log
  <2>4. i + 1 \in 1..(n + 1) /\ Tail(log)[i] = log[i + 1]
    BY <1>1, <2>2, <2>3
  <2> QED BY <1>2, <1>4, <2>4 DEF log
<1> QED BY <1>3, <1>4 DEF Log!Trim

\* An entry of a request that had entered the log before is the one it was, in
\* the same state or a later one: no request comes back once its entry has
\* been evicted, and no update arrives late and turns a state back
\* (store.rs:107-127, net_storage.rs:55-100).
RecordsOnlyAdvance ==
    [][ \A i \in DOMAIN records' :
            (\E k \in DOMAIN added : added[k] = records'[i].id)
                => \E j \in DOMAIN records :
                    /\ records[j].id = records'[i].id
                    /\ Log!Rank(records[j].state) <= Log!Rank(records'[i].state) ]_vars

\* Records never go back, whatever MaxRecords is and however requests overtake
\* each other between their two steps in the log.
THEOREM RecordsAdvance == Spec => RecordsOnlyAdvance
<1> DEFINE Kept(i) == \E j \in DOMAIN records :
                          /\ records[j].id = records'[i].id
                          /\ Log!Rank(records[j].state) <= Log!Rank(records'[i].state)
<1>1. ASSUME ProxyInv, [Next]_vars, NEW i \in DOMAIN records',
             \E k \in DOMAIN added : added[k] = records'[i].id
      PROVE  Kept(i)
  <2>1. records \in Seq(NetworkRecord)
    BY <1>1 DEF ProxyInv, TypeOK, StoreTypes
  <2>2. CASE UNCHANGED Log!logVars
    BY <1>1, <2>2, RankType DEF Log!logVars
  <2>3. ASSUME NEW id \in RequestIds, Log!Enter(id)
        PROVE  Kept(i)
    <3> DEFINE rec == [id |-> id, state |-> "Connecting"]
    <3>1. /\ records' = Log!Trim(Append(records, rec))
          /\ \A k \in DOMAIN added : added[k] # id
      BY <2>3 DEF Log!Enter
    <3>2. rec \in NetworkRecord
      <4>1. id \in Nat
        BY ProxyAssumption, FS_CardinalityType DEF RequestIds
      <4> QED BY <4>1 DEF NetworkRecord, RequestState
    <3>3. records'[i] # rec
      BY <1>1, <3>1
    <3>4. PICK j \in DOMAIN records : records'[i] = records[j]
      BY <1>1, <2>1, <3>1, <3>2, <3>3, EnteredOrOld
    <3> QED BY <3>4, RankType
  <2>4. ASSUME NEW m \in DOMAIN records, NEW state, Log!Advance(m, state)
        PROVE  Kept(i)
    <3>1. /\ Log!Rank(records[m].state) < Log!Rank(state)
          /\ records' = [records EXCEPT ![m].state = state]
      BY <2>4 DEF Log!Advance
    <3>2. i \in DOMAIN records /\ (i # m => records'[i] = records[i])
      BY <1>1, <3>1
    <3>3. CASE i = m
      <4>1. records[i] \in NetworkRecord
        BY <2>1, <3>2, ElementOfSeq, LenProperties
      <4>2. records'[i] = [records[i] EXCEPT !.state = state]
        BY <3>1, <3>3
      <4>3. records'[i].id = records[i].id /\ records'[i].state = state
        BY <4>1, <4>2 DEF NetworkRecord
      <4>4. Log!Rank(records[i].state) <= Log!Rank(state)
        BY <3>1, <3>3, RankType
      <4> QED BY <3>2, <4>3, <4>4
    <3>4. CASE i # m
      BY <3>2, <3>4, RankType
    <3> QED BY <3>3, <3>4
  <2>5. [Log!LogNext]_(Log!logVars)
    BY <1>1, StepRefines
  <2> QED BY <2>2, <2>3, <2>4, <2>5 DEF Log!LogNext
<1>2. ProxyInv /\ [Next]_vars
        => [ \A i \in DOMAIN records' :
                (\E k \in DOMAIN added : added[k] = records'[i].id)
                    => \E j \in DOMAIN records :
                        /\ records[j].id = records'[i].id
                        /\ Log!Rank(records[j].state) <= Log!Rank(records'[i].state) ]_vars
  BY <1>1
<1> QED BY <1>2, ProxyInvariant, PTL DEF Spec, RecordsOnlyAdvance

-----------------------------------------------------------------------------
(* The request counters.                                                    *)

\* The statistics plugin has seen a request that is past it in the chain.
LEMMA CountedShape ==
    \A f : Counted(f) <=> kind[f] = "http" /\ 2 < at[f]
BY ChainShape DEF Counted

\* The counted requests and the tunnels are finite sets of flows.
LEMMA CountedSets ==
    /\ IsFiniteSet(CountedRequests) /\ Cardinality(CountedRequests) \in Nat
    /\ IsFiniteSet(OpenTunnels) /\ Cardinality(OpenTunnels) \in Nat
    /\ IsFiniteSet(StartedTunnels) /\ Cardinality(StartedTunnels) \in Nat
<1>1. CountedRequests \subseteq Flows /\ OpenTunnels \subseteq Flows
          /\ StartedTunnels \subseteq Flows
  BY DEF CountedRequests, OpenTunnels, StartedTunnels
<1> QED BY <1>1, ProxyAssumption, FS_Subset, FS_CardinalityType

\* The steps that leave the counted sets alone.
Quiet(f) ==
    \/ \E k \in Kinds : AcceptHttp(f, k)
    \/ DnsLookupFails(f) \/ HandleWebSocket(f) \/ HttpRequest(f) \/ BifrostHandleRequest(f)
    \/ NetStorageAdd(f) \/ NetStorageMarkSending(f)
    \/ UpstreamReplies(f) \/ BodyEnds(f)
    \/ AcceptConnect(f) \/ CertReady(f) \/ Dialled(f) \/ UpgradeFails(f)
    \/ ClientGone(f)

\* The steps that neither count nor change who is counted.
LEMMA QuietSteps ==
    ASSUME TypeOK, ControlOK, NEW f \in Flows, Quiet(f)
    PROVE  /\ stats' = stats
           /\ CountedRequests' = CountedRequests
           /\ OpenTunnels' = OpenTunnels
           /\ StartedTunnels' = StartedTunnels
<1> USE
   DEF Quiet, AcceptHttp, DnsLookupFails, HandleWebSocket, HttpRequest, BifrostHandleRequest,
        NetStorageAdd, NetStorageMarkSending, UpstreamReplies, BodyEnds,
        AcceptConnect, CertReady, Dialled, UpgradeFails, ClientGone
<1>1. stats' = stats
  OBVIOUS
<1>2. ASSUME NEW g \in Flows
      PROVE  (kind'[g] = "http" /\ 2 < at'[g]) <=> (kind[g] = "http" /\ 2 < at[g])
  <2>1. CASE g # f
    BY <2>1 DEF Goto, Continue, TypeOK, FlowTypes
  <2>2. CASE g = f /\ ((\E k \in Kinds : AcceptHttp(f, k)) \/ AcceptConnect(f))
    <3>1. at[f] = 1 /\ at'[f] = 1
      BY <2>2 DEF Goto, ControlOK
    <3> QED BY <2>2, <3>1
  <2>3. CASE g = f /\ BifrostHandleRequest(f)
    <3>1. at[f] = 1 /\ at'[f] \in {1, 2}
      BY <2>3, PluginPosition DEF InPlugin, Continue, TypeOK, FlowTypes, ControlOK
    <3> QED BY <2>3, <3>1
  <2>4. CASE g = f /\ NetStorageMarkSending(f)
    <3>1. at[f] = 3 /\ at'[f] = 4 /\ kind'[f] = kind[f]
      BY <2>4 DEF Continue, TypeOK, FlowTypes, ControlOK
    <3> QED BY <2>4, <3>1
  <2> QED BY <2>1, <2>2, <2>3, <2>4
<1>3. ASSUME NEW g \in Flows
      PROVE  /\ pc'[g] = "relay" <=> pc[g] = "relay"
             /\ pc'[g] = "closed" <=> pc[g] = "closed"
  BY DEF Goto, InPlugin, Continue, Awaiting, TypeOK, FlowTypes
<1>4. CountedRequests' = CountedRequests
  BY <1>2, ChainShape DEF CountedRequests, Counted
<1>5. OpenTunnels' = OpenTunnels /\ StartedTunnels' = StartedTunnels
  BY <1>3 DEF OpenTunnels, StartedTunnels
<1> QED BY <1>1, <1>4, <1>5

\* Which counters the handlers change.
LEMMA CounterEffects ==
    ASSUME stats \in [Counters -> Nat]
    PROVE  /\ CountRequest(stats)["total_requests"] = stats["total_requests"] + 1
           /\ CountRequest(stats)["current_requests"] = stats["current_requests"] + 1
           /\ CountClose(stats)["total_requests"] = stats["total_requests"]
           /\ 1 <= stats["current_requests"]
                  => CountClose(stats)["current_requests"] = stats["current_requests"] - 1
           /\ \A direction :
                /\ CountData(stats, direction, 1)["total_requests"] = stats["total_requests"]
                /\ CountData(stats, direction, 1)["current_requests"]
                       = stats["current_requests"]
BY DEF CountRequest, CountClose, CountData, CounterOf, FetchAdd, FetchSub, Counters

\* Every step keeps the request counters equal to what they count.
LEMMA CountersNext ==
    TypeOK /\ ControlOK /\ CountersMatchFlows /\ [Next]_vars => CountersMatchFlows'
<1> SUFFICES ASSUME TypeOK, ControlOK, CountersMatchFlows, [Next]_vars
             PROVE  CountersMatchFlows'
  OBVIOUS
<1> DEFINE C == Cardinality(CountedRequests)
           O == Cardinality(OpenTunnels)
           S == Cardinality(StartedTunnels)
<1>1. /\ stats \in [Counters -> Nat]
      /\ stats["total_requests"] = C + S /\ stats["current_requests"] = C + O
      /\ C \in Nat /\ O \in Nat /\ S \in Nat
  BY CountedSets DEF TypeOK, StoreTypes, CountersMatchFlows
<1>2. ASSUME NEW f \in Flows, Quiet(f) PROVE CountersMatchFlows'
  BY <1>2, QuietSteps DEF CountersMatchFlows
<1>3. ASSUME NEW f \in Flows, StatsHandleRequest(f) PROVE CountersMatchFlows'
  <2>1. /\ at[f] = 2 /\ kind[f] = "http" /\ pc[f] = "chain"
        /\ kind' = kind /\ at' = [at EXCEPT ![f] = 3] /\ pc' = [pc EXCEPT ![f] = "chain"]
    <3>1. /\ pc[f] = "chain" /\ PluginChain[at[f]] = "traffic_stats" /\ Continue(f)
          /\ kind' = kind
      BY <1>3 DEF StatsHandleRequest, InPlugin
    <3>2. at[f] \in 1..3
      BY <3>1 DEF ControlOK
    <3>3. at[f] = 2
      BY <3>1, <3>2, PluginPosition
    <3>4. kind[f] = "http"
      BY <3>3 DEF ControlOK
    <3> QED BY <3>1, <3>3, <3>4, ChainShape DEF Continue
  <2>2. CountedRequests' = CountedRequests \cup {f} /\ f \notin CountedRequests
    BY <2>1, ChainShape DEF CountedRequests, Counted, TypeOK, FlowTypes
  <2>3. OpenTunnels' = OpenTunnels /\ StartedTunnels' = StartedTunnels
    BY <2>1 DEF OpenTunnels, StartedTunnels, TypeOK, FlowTypes
  <2>4. C' = C + 1
    BY <2>2, CountedSets, FS_AddElement
  <2>5. stats'["total_requests"] = stats["total_requests"] + 1
          /\ stats'["current_requests"] = stats["current_requests"] + 1
    BY <1>1, <1>3, CounterEffects DEF StatsHandleRequest
  <2> QED BY <1>1, <2>3, <2>4, <2>5 DEF CountersMatchFlows
<1>4. ASSUME NEW f \in Flows, StartTunnel(f) PROVE CountersMatchFlows'
  <2>1. pc[f] = "upgrading" /\ pc' = [pc EXCEPT ![f] = "relay"] /\ kind' = kind /\ at' = at
    BY <1>4 DEF StartTunnel, Goto
  <2>2. CountedRequests' = CountedRequests
    BY <2>1 DEF CountedRequests, Counted
  <2>3. /\ OpenTunnels' = OpenTunnels \cup {f} /\ f \notin OpenTunnels
        /\ StartedTunnels' = StartedTunnels \cup {f} /\ f \notin StartedTunnels
    BY <2>1 DEF OpenTunnels, StartedTunnels, TypeOK, FlowTypes
  <2>4. O' = O + 1 /\ S' = S + 1
    BY <2>3, CountedSets, FS_AddElement
  <2>5. stats'["total_requests"] = stats["total_requests"] + 1
          /\ stats'["current_requests"] = stats["current_requests"] + 1
    BY <1>1, <1>4, CounterEffects DEF StartTunnel
  <2> QED BY <1>1, <2>2, <2>4, <2>5 DEF CountersMatchFlows
<1>5. ASSUME NEW f \in Flows, NEW direction \in DataDirection, RelayData(f, direction)
      PROVE  CountersMatchFlows'
  <2>1. /\ CountedRequests' = CountedRequests
        /\ OpenTunnels' = OpenTunnels
        /\ StartedTunnels' = StartedTunnels
    BY <1>5 DEF RelayData, CountedRequests, Counted, OpenTunnels, StartedTunnels
  <2>2. stats'["total_requests"] = stats["total_requests"]
          /\ stats'["current_requests"] = stats["current_requests"]
    BY <1>1, <1>5, CounterEffects DEF RelayData
  <2> QED BY <1>1, <2>1, <2>2 DEF CountersMatchFlows
<1>6. ASSUME NEW f \in Flows, CloseTunnel(f) PROVE CountersMatchFlows'
  <2>1. pc[f] = "relay" /\ pc' = [pc EXCEPT ![f] = "closed"] /\ kind' = kind /\ at' = at
    BY <1>6 DEF CloseTunnel, Goto
  <2>2. CountedRequests' = CountedRequests
    BY <2>1 DEF CountedRequests, Counted
  <2>3. /\ OpenTunnels' = OpenTunnels \ {f} /\ f \in OpenTunnels
        /\ StartedTunnels' = StartedTunnels
    BY <2>1 DEF OpenTunnels, StartedTunnels, TypeOK, FlowTypes
  <2>4. O' = O - 1 /\ O # 0
    BY <2>3, CountedSets, FS_RemoveElement, FS_EmptySet
  <2>5. 1 <= stats["current_requests"]
    BY <1>1, <2>4
  <2>6. stats'["total_requests"] = stats["total_requests"]
          /\ stats'["current_requests"] = stats["current_requests"] - 1
    BY <1>1, <1>6, <2>5, CounterEffects DEF CloseTunnel
  <2> QED BY <1>1, <2>2, <2>3, <2>4, <2>6 DEF CountersMatchFlows
<1>7. CASE UNCHANGED vars
  BY <1>7
     DEF vars, CountersMatchFlows, CountedRequests, Counted, OpenTunnels, StartedTunnels
<1> QED BY <1>2, <1>3, <1>4, <1>5, <1>6, <1>7 DEF Next, HttpStep, ConnectStep, Quiet

\* Nothing is counted at the start.
LEMMA CountersInit == Init => CountersMatchFlows
<1> SUFFICES ASSUME Init PROVE CountersMatchFlows
  OBVIOUS
<1>1. stats["total_requests"] = 0 /\ stats["current_requests"] = 0
  BY DEF Init, ZeroStats, Counters
<1>2. CountedRequests = {} /\ OpenTunnels = {} /\ StartedTunnels = {}
  BY ChainShape DEF Init, CountedRequests, Counted, OpenTunnels, StartedTunnels
<1> QED BY <1>1, <1>2, FS_EmptySet DEF CountersMatchFlows

\* A tunnel that relays is counted.
LEMMA RelayIsCounted ==
    ASSUME TypeOK, CountersMatchFlows, NEW f \in Flows, pc[f] = "relay"
    PROVE  stats["current_requests"] > 0 /\ 1 <= stats["current_requests"]
<1>1. f \in OpenTunnels
  BY DEF OpenTunnels
<1>2. Cardinality(OpenTunnels) # 0
  BY <1>1, CountedSets, FS_EmptySet
<1>3. stats["current_requests"] = Cardinality(CountedRequests) + Cardinality(OpenTunnels)
  BY DEF CountersMatchFlows
<1> QED BY <1>2, <1>3, CountedSets

\* What the handlers do to the byte counters.
LEMMA ByteEffects ==
    ASSUME stats \in [Counters -> Nat], NEW d \in DataDirection
    PROVE  /\ CountRequest(stats)[CounterOf(d)] = stats[CounterOf(d)]
           /\ CountClose(stats)[CounterOf(d)] = stats[CounterOf(d)]
           /\ CountData(stats, d, 1)[CounterOf(d)] = stats[CounterOf(d)] + 1
           /\ stats[CounterOf(d)] \in Nat
           /\ \A e \in DataDirection \ {d} :
                CountData(stats, e, 1)[CounterOf(d)] = stats[CounterOf(d)]
BY DEF CountRequest, CountClose, CountData, CounterOf, DataDirection, FetchAdd, FetchSub,
       Counters

\* Every step of the proxy is a step of the totals or invisible to them.
LEMMA TotalsStep ==
    TypeOK /\ ControlOK /\ CountersMatchFlows /\ [Next]_vars
        => [Totals!TotalsNext]_(Totals!totals)
<1> SUFFICES ASSUME TypeOK, ControlOK, CountersMatchFlows, [Next]_vars
             PROVE  Totals!TotalsNext \/ UNCHANGED Totals!totals
  OBVIOUS
<1>1. stats \in [Counters -> Nat]
  BY DEF TypeOK, StoreTypes
<1>2. ASSUME NEW f \in Flows, Quiet(f) PROVE UNCHANGED Totals!totals
  <2>1. stats' = stats
    BY <1>2, QuietSteps
  <2> QED BY <2>1 DEF Totals!totals
<1>3. ASSUME NEW f \in Flows, StatsHandleRequest(f) \/ StartTunnel(f)
      PROVE  Totals!EnterOne
  <2>1. stats' = CountRequest(stats)
    BY <1>3 DEF StatsHandleRequest, StartTunnel
  <2>2. \A d \in DataDirection : stats'[CounterOf(d)] = stats[CounterOf(d)]
    BY <1>1, <2>1, ByteEffects
  <2> QED BY <1>1, <2>1, <2>2, CounterEffects DEF Totals!EnterOne
<1>4. ASSUME NEW f \in Flows, NEW d \in DataDirection, RelayData(f, d)
      PROVE  Totals!Transfer(d)
  <2> DEFINE bytes == [e \in DataDirection |-> stats[CounterOf(e)]]
  <2>1. stats' = CountData(stats, d, 1) /\ stats["current_requests"] > 0
    BY <1>4, RelayIsCounted DEF RelayData
  <2>2. /\ stats[CounterOf(d)] < stats'[CounterOf(d)]
        /\ \A e \in DataDirection \ {d} : stats'[CounterOf(e)] = stats[CounterOf(e)]
    BY <1>1, <2>1, ByteEffects
  <2>3. bytes[d] < bytes'[d] /\ bytes' = [bytes EXCEPT ![d] = bytes'[d]]
    BY <2>2
  <2>4. /\ stats'["total_requests"] = stats["total_requests"]
        /\ stats'["current_requests"] = stats["current_requests"]
    BY <1>1, <2>1, CounterEffects
  <2> QED BY <2>1, <2>3, <2>4 DEF Totals!Transfer
<1>5. ASSUME NEW f \in Flows, CloseTunnel(f) PROVE Totals!LeaveOne
  <2>1. stats' = CountClose(stats) /\ pc[f] = "relay"
    BY <1>5 DEF CloseTunnel, Goto
  <2>2. stats["current_requests"] > 0 /\ 1 <= stats["current_requests"]
    BY <2>1, RelayIsCounted
  <2>3. \A d \in DataDirection : stats'[CounterOf(d)] = stats[CounterOf(d)]
    BY <1>1, <2>1, ByteEffects
  <2> QED BY <1>1, <2>1, <2>2, <2>3, CounterEffects DEF Totals!LeaveOne
<1>6. CASE UNCHANGED vars
  BY <1>6 DEF vars, Totals!totals
<1> QED
  BY <1>2, <1>3, <1>4, <1>5, <1>6
     DEF Next, HttpStep, ConnectStep, Quiet, Totals!TotalsNext

\* The types, the control state and the counters hold together.
LEMMA CountersInvariant == Spec => [](TypeOK /\ ControlOK /\ CountersMatchFlows)
<1>1. Init => TypeOK /\ ControlOK /\ CountersMatchFlows
  BY TypeInit, CountersInit
<1>2. TypeOK /\ ControlOK /\ CountersMatchFlows /\ [Next]_vars
          => (TypeOK /\ ControlOK /\ CountersMatchFlows)'
  BY TypeNext, CountersNext
<1> QED BY <1>1, <1>2, PTL DEF Spec

\* What current_requests and total_requests really say, and that fetch_sub
\* never wraps current_requests around (traffic_stats.rs:105-141, 165-173).
THEOREM CountersCorrect == Spec => []CountersMatchFlows
BY CountersInvariant, PTL

\* Requests and tunnels enter the totals one at a time, no more leave than
\* have entered, and bytes are counted only while something is: the proxy
\* implements the totals that TrafficStats implements one atomic operation at
\* a time (traffic_stats.rs:105-173).
THEOREM ProxyImplementsTotals == Spec => ImplementsTotals
<1>1. Init => Totals!TotalsInit
  BY DEF Init, ZeroStats, Counters, CounterOf, Totals!TotalsInit
<1> QED BY <1>1, TotalsStep, CountersInvariant, PTL DEF Spec, ImplementsTotals,
                                                      Totals!TotalsSpec

\* current_requests falls only when a tunnel closes; an HTTP request that was
\* counted never leaves it, however it ends: store.rs:22 says otherwise
\* (traffic_stats.rs:165-173 has no counterpart for HTTP).
OnlyTunnelsLeave ==
    [][ stats'["current_requests"] < stats["current_requests"]
            => \E f \in Flows : pc[f] = "relay" /\ pc'[f] = "closed" ]_vars

\* In every instance of the proxy only tunnels leave current_requests.
THEOREM RequestsNeverLeave == Spec => OnlyTunnelsLeave
<1>1. TypeOK /\ ControlOK /\ [Next]_vars
        => [ stats'["current_requests"] < stats["current_requests"]
                => \E f \in Flows : pc[f] = "relay" /\ pc'[f] = "closed" ]_vars
  <2> SUFFICES ASSUME TypeOK, ControlOK, Next,
                      stats'["current_requests"] < stats["current_requests"]
               PROVE  \E f \in Flows : pc[f] = "relay" /\ pc'[f] = "closed"
    OBVIOUS
  <2>1. stats \in [Counters -> Nat] /\ stats["current_requests"] \in Nat
    BY DEF TypeOK, StoreTypes, Counters
  <2>2. \A n \in Nat : ~(n < n) /\ ~(n + 1 < n)
    OBVIOUS
  <2>3. \A f \in Flows : ~Quiet(f)
    BY <2>1, <2>2, QuietSteps
  <2>4. \A f \in Flows : ~StatsHandleRequest(f) /\ ~StartTunnel(f)
    BY <2>1, <2>2, CounterEffects DEF StatsHandleRequest, StartTunnel
  <2>5. \A f \in Flows, d \in DataDirection : ~RelayData(f, d)
    BY <2>1, <2>2, CounterEffects DEF RelayData
  <2>6. PICK f \in Flows : CloseTunnel(f)
    BY <2>3, <2>4, <2>5 DEF Next, HttpStep, ConnectStep, Quiet
  <2> QED BY <2>6 DEF CloseTunnel, Goto, TypeOK, FlowTypes
<1> QED BY <1>1, CountersInvariant, PTL DEF Spec, OnlyTunnelsLeave
=============================================================================
